------------------------------ MODULE Onboarding ------------------------------
(****************************************************************************)
(* tools/onboard.mjs: the GitHub calls that add a client's repository to    *)
(* the platform, one step each. The client works in the repository at the   *)
(* same time: edits the files, sets secrets, merges the pull request. Every *)
(* push to the branch that the workflow listens to queues a deployment with *)
(* the secrets of that moment; a later one takes the place of one that      *)
(* waits. A call may be lost, before it takes effect or after.              *)
(*                                                                          *)
(* A file is "absent", "ours" (what the tool writes) or "edited" (a version *)
(* of the client's that deploys too); its sha tells these apart.            *)
(****************************************************************************)
EXTENDS Naturals, Sequences

CONSTANTS
  Secrets,     \* the names of secrets
  Clients,     \* what a history is about: [access, trunk, given, deploy], see ClientSet
  Modes,       \* how the tool is called: "direct", "via_pr", "check_only"
  NoBranch,    \* there is no branch atmez-deploy/setup
  NoRun,       \* no deployment waits
  MaxFaults    \* bound of the calls that are lost

ASSUME ModesAssumption == Modes \subseteq {"direct", "via_pr", "check_only"}
ASSUME FaultsAssumption == MaxFaults \in Nat

\* The order in which they are written.
Files == <<"config", "workflow">>
Paths == {"config", "workflow"}
Content == {"absent", "ours", "edited"}
Tree == [Paths -> Content]
ASSUME NoBranchAssumption == NoBranch \notin [files : Tree, base : Tree]
ASSUME NoRunAssumption == NoRun \notin [config : Content, secrets : SUBSET Secrets]

\* access: what the token may do; trunk: "main" when the default branch is the one that the
\* workflow listens to; given: the secrets with a value in the environment of the tool, in the
\* order of setSecret; deploy: whether the kind and the flags ask for a first deployment.
ClientSet == [access : {"write", "read"}, trunk : {"main", "other"}, given : Seq(Secrets),
              deploy : {"dispatch", "none"}]
ASSUME ClientsAssumption == Clients \subseteq ClientSet
ASSUME GivenAssumption ==
  \A c \in Clients : \A i, j \in 1..Len(c.given) : c.given[i] = c.given[j] => i = j

VARIABLES
  client,    \* a member of Clients
  main,      \* the files on the default branch
  branch,    \* NoBranch, or the setup branch: its files, and those of main where it forked
  pull,      \* "open" when there is a pull request
  secrets,   \* the secrets that are set
  pending,   \* NoRun, or the deployment that waits, with what it was queued with
  site,      \* the outcome of the last deployment: "none", "failed" or "published"
  mode, step, at, seen,   \* the tool: how it was called, its next call, the file or secret
                          \* that this is about, and the content whose sha it has read
  clean,     \* "yes" as long as nothing has come in the way of this call of the tool
  faults     \* calls lost so far

repository == <<client, main, branch, pull, secrets, pending, site>>
tool == <<mode, step, at, seen, clean>>
vars == <<client, main, branch, pull, secrets, pending, site, mode, step, at, seen, clean, faults>>

Given == {client.given[i] : i \in 1..Len(client.given)}

Init ==
  /\ client \in Clients
  /\ main \in [Paths -> {"absent", "edited"}]
  /\ branch = NoBranch /\ pull = "none"
  /\ secrets = {}
  /\ pending = NoRun /\ site = "none"
  /\ mode = "direct" /\ step = "idle" /\ at = 1 /\ seen = "absent" /\ clean = "yes"
  /\ faults = 0

Ended == step \in {"idle", "refused", "failed", "checked", "done"}

\* The deployment that waits after main has become tree.
Queued(tree) ==
  IF client.trunk = "main" /\ tree["workflow"] # "absent"
    THEN [config |-> tree["config"], secrets |-> secrets] ELSE pending

\* The next call is s, about the i-th file or secret.
Goes(s, i) == step' = s /\ at' = i /\ UNCHANGED <<mode, clean, faults>>

\* An answer that is an error, or cannot be parsed.
Throws == step' = "failed" /\ UNCHANGED <<mode, at, clean, faults>>

\* The answer does not come; the tool dies, or goes on to s when it catches that.
Lost(s, i) ==
  /\ faults < MaxFaults /\ faults' = faults + 1
  /\ step' = s /\ at' = i /\ clean' = "no"
  /\ UNCHANGED mode
------------------------------------------------------------------------------
(* The tool.                                                                *)

Start(m) ==
  /\ Ended
  /\ mode' = m
  /\ step' = "check" /\ at' = 1 /\ seen' = "absent"
  /\ clean' = IF secrets \cap Given = {} /\ pull = "none" /\ client.access = "write"
                THEN "yes" ELSE "no"
  /\ UNCHANGED <<repository, faults>>

\* checkPrerequisites. Read access is enough for --via-pr.
CheckPrerequisites ==
  /\ step = "check"
  /\ IF client.access = "read" /\ mode # "via_pr" THEN Goes("refused", 1)
     ELSE Goes(IF mode = "check_only" THEN "checked"
               ELSE IF mode = "direct" THEN "read" ELSE "branch", 1)
  /\ UNCHANGED <<repository, seen>>

\* Variant: a branch that exists is an error.
CreateBranchOnce ==
  /\ step = "branch"
  /\ branch' = IF branch = NoBranch /\ client.access = "write"
                 THEN [files |-> main, base |-> main] ELSE branch
  /\ IF branch # NoBranch THEN Throws ELSE Goes("read", 1) \/ Lost("read", 1)
  /\ UNCHANGED <<client, main, pull, secrets, pending, site, seen>>

\* The branch is left as it is when it exists; every error is swallowed.
CreateBranch ==
  /\ step = "branch"
  /\ branch' = IF branch = NoBranch /\ client.access = "write"
                 THEN [files |-> main, base |-> main] ELSE branch
  /\ Goes("read", 1) \/ Lost("read", 1)
  /\ UNCHANGED <<client, main, pull, secrets, pending, site, seen>>

\* putFile and the loop of openSetupPr: the sha first. 404 is no error.
ReadFile ==
  /\ step = "read"
  /\ seen' = IF mode = "direct" THEN main[Files[at]]
             ELSE IF branch = NoBranch THEN "absent" ELSE branch.files[Files[at]]
  /\ Goes("write", at)
  /\ UNCHANGED repository

\* After the last file come the secrets, or the pull request.
AfterFile == IF at < Len(Files) THEN <<"read", at + 1>>
             ELSE IF mode = "direct" THEN <<"secret", 1>> ELSE <<"pull", 1>>

\* Variant: the file is written whatever it has become.
WriteAnyway ==
  /\ step = "write" /\ mode = "direct"
  /\ main' = [main EXCEPT ![Files[at]] = "ours"]
  /\ pending' = Queued(main')
  /\ Goes(AfterFile[1], AfterFile[2]) \/ Lost("failed", at)
  /\ UNCHANGED <<client, branch, pull, secrets, site, seen>>

\* Variant: a PUT without the sha, which is refused for a file that exists.
WriteNewFile ==
  /\ step = "write" /\ mode = "direct"
  /\ \/ /\ main[Files[at]] = "absent"
        /\ main' = [main EXCEPT ![Files[at]] = "ours"]
        /\ pending' = Queued(main')
        /\ Goes(AfterFile[1], AfterFile[2]) \/ Lost("failed", at)
     \/ /\ main[Files[at]] # "absent"
        /\ Throws
        /\ UNCHANGED <<main, pending>>
  /\ UNCHANGED <<client, branch, pull, secrets, site, seen>>

\* A PUT with another sha than the file's is refused.
WriteFile ==
  /\ step = "write" /\ mode = "direct"
  /\ \/ /\ main[Files[at]] = seen
        /\ main' = [main EXCEPT ![Files[at]] = "ours"]
        /\ pending' = Queued(main')
        /\ Goes(AfterFile[1], AfterFile[2]) \/ Lost("failed", at)
     \/ /\ main[Files[at]] # seen
        /\ Throws
        /\ UNCHANGED <<main, pending>>
  /\ UNCHANGED <<client, branch, pull, secrets, site, seen>>

\* Without the branch, or without write access, the PUT is not found, which is no error.
StageFile ==
  /\ step = "write" /\ mode = "via_pr"
  /\ \/ /\ branch # NoBranch /\ client.access = "write" /\ branch.files[Files[at]] = seen
        /\ branch' = [files |-> [branch.files EXCEPT ![Files[at]] = "ours"],
                      base |-> branch.base]
        /\ Goes(AfterFile[1], AfterFile[2]) \/ Lost("failed", at)
     \/ /\ branch # NoBranch /\ client.access = "write" /\ branch.files[Files[at]] # seen
        /\ Throws
        /\ UNCHANGED branch
     \/ /\ branch = NoBranch \/ client.access = "read"
        /\ Goes(AfterFile[1], AfterFile[2])
        /\ UNCHANGED branch
  /\ UNCHANGED <<client, main, pull, secrets, pending, site, seen>>

\* POST /pulls: not for a branch that is not there, nor when its pull request is open.
OpenPull ==
  /\ step = "pull"
  /\ IF branch = NoBranch \/ pull = "open" THEN Throws /\ UNCHANGED pull
     ELSE /\ pull' = "open"
          /\ Goes("secret", 1) \/ Lost("failed", at)
  /\ UNCHANGED <<client, main, branch, secrets, pending, site, seen>>

\* Variant: the deployments that the pushes start are enough.
NothingAfterSecrets == "done"

AfterSecrets == IF client.deploy = "dispatch" /\ mode = "direct" THEN "dispatch" ELSE "done"

\* Variant: one secret more than there are.
SetSecretBeyond ==
  /\ step = "secret"
  /\ IF at > Len(client.given) THEN Goes(AfterSecrets, at + 1) /\ UNCHANGED secrets
     ELSE /\ secrets' = secrets \cup {client.given[at]}
          /\ Goes("secret", at + 1) \/ Lost("failed", at)
  /\ UNCHANGED <<client, main, branch, pull, pending, site, seen>>

\* setSecret. The answer to an update has no body, which is parsed all the same.
SetSecret ==
  /\ step = "secret"
  /\ IF at > Len(client.given) THEN Goes(AfterSecrets, 1) /\ UNCHANGED secrets
     ELSE /\ secrets' = secrets \cup {client.given[at]}
          /\ IF client.given[at] \in secrets THEN Throws
             ELSE Goes("secret", at + 1) \/ Lost("failed", at)
  /\ UNCHANGED <<client, main, branch, pull, pending, site, seen>>

\* On the branch "main"; what it throws is caught.
Dispatch ==
  /\ step = "dispatch"
  /\ pending' = Queued(main)
  /\ Goes("done", 1) \/ Lost("done", 1)
  /\ UNCHANGED <<client, main, branch, pull, secrets, site, seen>>

\* A call that does not reach GitHub.
Unreached ==
  /\ ~Ended
  /\ Lost(IF step = "branch" THEN "read" ELSE IF step = "dispatch" THEN "done" ELSE "failed", 1)
  /\ UNCHANGED <<repository, seen>>

Call == CheckPrerequisites \/ CreateBranch \/ ReadFile \/ WriteFile \/ StageFile \/ OpenPull
          \/ SetSecret \/ Dispatch
------------------------------------------------------------------------------
(* The client and GitHub Actions.                                           *)

\* A file as three-way merging leaves it; where both sides have changed it, the client's own.
Merged(p) ==
  IF main[p] = branch.base[p] THEN branch.files[p] ELSE main[p]

Merge ==
  /\ pull = "open" /\ pull' = "none"
  /\ main' = [p \in Paths |-> Merged(p)]
  /\ branch' \in {NoBranch, [files |-> branch.files, base |-> branch.files]}
  /\ pending' = Queued(main')
  /\ UNCHANGED <<client, secrets, site, tool, faults>>

Edit(p) ==
  /\ main[p] = "ours"
  /\ main' = [main EXCEPT ![p] = "edited"]
  /\ pending' = Queued(main')
  /\ clean' = "no"
  /\ UNCHANGED <<client, branch, pull, secrets, site, mode, step, at, seen, faults>>

\* The pull request asks for it: "Make sure the deploy secret(s) are set".
SetOwnSecret(n) ==
  /\ n \notin secrets
  /\ secrets' = secrets \cup {n}
  /\ clean' = "no"
  /\ UNCHANGED <<client, main, branch, pull, pending, site, mode, step, at, seen, faults>>

\* A deployment needs its config and the secrets that it was onboarded with.
RunDeployment ==
  /\ pending # NoRun
  /\ site' = IF pending.config # "absent" /\ Given \subseteq pending.secrets
               THEN "published" ELSE "failed"
  /\ pending' = NoRun
  /\ UNCHANGED <<client, main, branch, pull, secrets, tool, faults>>

Next ==
  \/ \E m \in Modes : Start(m)
  \/ Call \/ Unreached
  \/ Merge \/ RunDeployment
  \/ \E p \in Paths : Edit(p)
  \/ \E n \in Given : SetOwnSecret(n)

Spec == Init /\ [][Next]_vars

\* The tool and the deployments go on; the tool is called again after it has ended, not only
\* with --check-only; the client merges what is open.
Fairness ==
  /\ SF_vars(\E m \in Modes \ {"check_only"} : Start(m))
  /\ WF_vars(Call) /\ WF_vars(Merge) /\ WF_vars(RunDeployment)

RetrySpec == Spec /\ Fairness
------------------------------------------------------------------------------
(* Properties.                                                              *)

Steps == {"idle", "refused", "failed", "checked", "done", "check", "branch", "read", "write",
          "pull", "secret", "dispatch"}

TypeOK ==
  /\ client \in Clients
  /\ main \in Tree
  /\ branch \in [files : Tree, base : Tree] \cup {NoBranch}
  /\ pull \in {"none", "open"} /\ (pull = "open" => branch # NoBranch)
  /\ secrets \subseteq Secrets
  /\ pending \in [config : Content, secrets : SUBSET Secrets] \cup {NoRun}
  /\ site \in {"none", "failed", "published"}
  /\ mode \in {"direct", "via_pr", "check_only"}
  /\ step \in Steps
  /\ at \in 1..(IF step = "secret" THEN Len(client.given) + 1
                ELSE IF step = "failed" THEN Len(Files) + Len(client.given) ELSE Len(Files))
  /\ seen \in Content
  /\ clean \in {"yes", "no"}
  /\ faults \in 0..MaxFaults

(* The client's version of a file on the default branch is replaced only    *)
(* when the tool has read that very version (putFile, onboard.mjs:179-185), *)
(* or by a merge of a branch that forked from it: an edit between the read  *)
(* and the write, or after the branch was made, is never lost.              *)
EditsSurvive ==
  [][\A p \in Paths :
       main[p] = "edited" /\ main'[p] # "edited" =>
         \/ step = "write" /\ p = Files[at] /\ seen = "edited"
         \/ pull = "open" /\ branch.base[p] = "edited"]_vars

(* When none of its calls is lost, the client does not interfere, no secret *)
(* was set before and no pull request open, the tool gets to its end,       *)
(* whatever files and branches earlier calls have left (onboard.mjs:207     *)
(* "ignore already exists").                                                *)
UndisturbedCompletes == clean = "yes" => step \notin {"failed", "refused"}

(* When the tool has ended a direct onboarding with a first deployment and  *)
(* nothing waits, that deployment had config, workflow and every secret,    *)
(* whatever deployments the pushes had started before (onboard.mjs:376-395).*)
DoneMeansDeployed ==
  step = "done" /\ mode = "direct" /\ clean = "yes" /\ client.deploy = "dispatch"
    /\ client.trunk = "main" /\ pending = NoRun => site = "published"

(* With a single secret, as onboard-client.yml calls the tool, calling it   *)
(* again and merging what it opens gets the site published, wherever        *)
(* earlier calls broke off; with several, a secret that is set stops it.    *)
RerunPublishes ==
  (client.access = "write" /\ client.trunk = "main" /\ Len(client.given) = 1)
    ~> (site = "published")
==============================================================================
