------------------------------ MODULE StaticSite ------------------------------
(****************************************************************************)
(* Static sites on shared hosting: the plan of                              *)
(* engine/drivers/static-hostinger.mjs, run by the three workflows that     *)
(* build a site and mirror it into a webroot, and rollback-static.yml.      *)
(*                                                                          *)
(* A version of a file is the commit that built it. A mirror is not atomic: *)
(* it writes and deletes path by path, in any order, and may be cut short.  *)
(* An .htaccess is a path like any other; creating the webroot, and the     *)
(* preflight gate over config and secrets, change nothing modelled here.    *)
(****************************************************************************)
EXTENDS Naturals

CONSTANTS
  Groups,       \* concurrency groups; each is of one config and environment
  Workflow,     \* Workflow[g]: "reusable", "in_repo" (deploy-static.yml), "registry"
  OnPush,       \* the groups whose workflow a push of the site starts
  Buttons,      \* Buttons[g]: the modes that operators choose
  ConfigRoot,   \* ConfigRoot[g]: target.webroot of the config
  SecretRoot,   \* the DEPLOY_WEBROOT secret, or NoSecret
  NoSecret,
  Transfer,     \* Transfer[g][c]: "rsync", "scp" or "ftps", by the config that c is deployed with
  Declared,     \* Declared[g]: the config has build.output_dir
  Paths,        \* the files a site may have
  Index,        \* index.html
  Commits,      \* the number of commits of the site
  Kind,         \* Kind[c]: "built", "as_is" (nothing to run), "empty" (directory), "fails"
  Built,        \* Built[c]: the files that commit c builds
  NoRequest,    \* nothing is pending in a group
  MaxFaults     \* bound on the runs that are lost

Modes == {"execute", "dry_run"}
Missing == 0
Placeholder == Commits + 1
Versions == {Missing, Placeholder} \cup 1..Commits

\* hostingerConnection: the secret before the config; deploy-static.yml passes no such secret.
Root(g) ==
  IF SecretRoot = NoSecret \/ Workflow[g] = "in_repo" THEN ConfigRoot[g] ELSE SecretRoot
Roots == {Root(g) : g \in Groups}

ASSUME SitesAssumption ==
  /\ Commits \in Nat
  /\ Index \in Paths
  /\ Kind \in [1..Commits -> {"built", "as_is", "empty", "fails"}]
  /\ Built \in [1..Commits -> SUBSET Paths]
ASSUME GroupsAssumption ==
  /\ OnPush \subseteq Groups
  /\ Buttons \in [Groups -> SUBSET Modes]
  /\ Workflow \in [Groups -> {"reusable", "in_repo", "registry"}]
  /\ Transfer \in [Groups -> [1..Commits -> {"rsync", "scp", "ftps"}]]
  /\ Declared \in [Groups -> BOOLEAN]
  /\ MaxFaults \in Nat
ASSUME RequestAssumption ==
  NoRequest \notin [plan : {"deploy", "rollback"}, commit : 0..Commits, mode : Modes]

VARIABLES
  head,      \* the last commit pushed, 0 before the first
  site,      \* site[w][p]: the version of p in webroot w
  run,       \* run[g]: the group's run; dir is its build output, todo the paths to mirror
  pending,   \* pending[g]: the request that waits in the group
  faults     \* runs lost so far

vars == <<head, site, run, pending, faults>>

Nothing == [p \in Paths |-> Missing]

Init ==
  /\ head = 0
  /\ site = [w \in Roots |-> Nothing]
  /\ run = [g \in Groups |-> [status |-> "idle", plan |-> "deploy", commit |-> 0,
                              mode |-> "dry_run", step |-> "checkout",
                              dir |-> Nothing, todo |-> {}]]
  /\ pending = [g \in Groups |-> NoRequest]
  /\ faults = 0

Running(g) == run[g].status = "running"
At(g, step) == Running(g) /\ run[g].step = step
Fail(g) == run' = [run EXCEPT ![g].status = "failed"]
------------------------------------------------------------------------------
(* Requests. A group has at most one pending request, the latest.           *)

Deploy(c, mode) == [plan |-> "deploy", commit |-> c, mode |-> mode]

\* On a push deploy-static.yml has no input "execute": its run is a dry run.
PushMode(g) == IF Workflow[g] = "in_repo" THEN "dry_run" ELSE "execute"

\* Variant: a request that is already pending stays.
PushBehind ==
  /\ head < Commits
  /\ head' = head + 1
  /\ pending' = [g \in Groups |-> IF g \in OnPush /\ pending[g] = NoRequest
                                    THEN Deploy(head', PushMode(g)) ELSE pending[g]]
  /\ UNCHANGED <<site, run, faults>>

Push ==
  /\ head < Commits
  /\ head' = head + 1
  /\ pending' = [g \in Groups |-> IF g \in OnPush THEN Deploy(head', PushMode(g))
                                                  ELSE pending[g]]
  /\ UNCHANGED <<site, run, faults>>

\* Variant: the commit of the group's last run is deployed again.
DispatchAgain(g, mode) ==
  /\ run[g].commit > 0
  /\ mode \in Buttons[g]
  /\ pending' = [pending EXCEPT ![g] = Deploy(run[g].commit, mode)]
  /\ UNCHANGED <<head, site, run, faults>>

\* The button; the workflow that calls the reusable one fixes "execute".
Dispatch(g, mode) ==
  /\ head > 0
  /\ mode \in Buttons[g]
  /\ pending' = [pending EXCEPT ![g] = Deploy(head, mode)]
  /\ UNCHANGED <<head, site, run, faults>>

\* rollback-static.yml is in the group of deploy-static.yml; its mode makes no difference.
ToRollBack == [plan |-> "rollback", commit |-> 0, mode |-> "dry_run"]

RequestRollback(g) ==
  /\ Workflow[g] = "in_repo"
  /\ pending' = [pending EXCEPT ![g] = ToRollBack]
  /\ UNCHANGED <<head, site, run, faults>>

Start(g) ==
  /\ ~Running(g)
  /\ pending[g] # NoRequest
  /\ run' = [run EXCEPT ![g] = [status |-> "running", plan |-> pending[g].plan,
                                commit |-> pending[g].commit,
                                mode |-> pending[g].mode, step |-> "checkout",
                                dir |-> Nothing, todo |-> {}]]
  /\ pending' = [pending EXCEPT ![g] = NoRequest]
  /\ UNCHANGED <<head, site, faults>>
------------------------------------------------------------------------------
(* The steps of a run.                                                      *)

\* planRollback always throws: shared hosting has nothing to switch back to.
Rollback(g) ==
  /\ At(g, "checkout") /\ run[g].plan = "rollback"
  /\ Fail(g)
  /\ UNCHANGED <<head, site, pending, faults>>

\* The commit of the event; Model B clones the branch as it is by now.
Checkout(g) ==
  /\ At(g, "checkout") /\ run[g].plan = "deploy"
  /\ run' = [run EXCEPT ![g].step = "build",
                        ![g].commit = IF Workflow[g] = "registry" THEN head ELSE @]
  /\ UNCHANGED <<head, site, pending, faults>>

Output(c, files) == [p \in Paths |-> IF p \in files THEN c ELSE Missing]
WithIndex(dir) == IF dir[Index] = Missing THEN [dir EXCEPT ![Index] = Placeholder] ELSE dir
WithContent(dir) == IF dir = Nothing THEN WithIndex(dir) ELSE dir

\* The directories that the build of c may leave to be published; none: the job fails.
\* Without output_dir the directory is found by what the build has changed.
Outputs(g, c) ==
  IF Workflow[g] = "in_repo"   \* "|| true": also after a failed build
    THEN {WithIndex(Output(c, files)) :
            files \in IF Kind[c] = "fails" THEN SUBSET Built[c] ELSE {Built[c]}}
  ELSE IF Kind[c] = "fails" \/ (Kind[c] = "as_is" /\ ~Declared[g]) THEN {}
  ELSE LET dir == IF Kind[c] = "empty" THEN Nothing ELSE Output(c, Built[c])
       IN  {IF Workflow[g] = "reusable" THEN WithContent(dir) ELSE dir}

\* Variant: rsync without --delete.
TransferredOnly(g, c, dir) == {p \in Paths : dir[p] # Missing}

\* scp copies and deletes nothing.
Transferred(g, c, dir) ==
  IF Transfer[g][c] = "scp" THEN {p \in Paths : dir[p] # Missing} ELSE Paths

\* Variant: a failed build, or an output directory that was not found, goes on.
BuildUnchecked(g) ==
  /\ At(g, "build")
  /\ run' = [run EXCEPT ![g].step = "upload",
                        ![g].dir = IF Outputs(g, run[g].commit) = {} THEN [p \in {} |-> Missing]
                                   ELSE CHOOSE dir \in Outputs(g, run[g].commit) : TRUE]
  /\ UNCHANGED <<head, site, pending, faults>>

Build(g) ==
  /\ At(g, "build")
  /\ \/ \E dir \in Outputs(g, run[g].commit) :
          run' = [run EXCEPT ![g].step = "upload", ![g].dir = dir,
                             ![g].todo = Transferred(g, run[g].commit, dir)]
     \/ Outputs(g, run[g].commit) = {} /\ Fail(g)
  /\ UNCHANGED <<head, site, pending, faults>>

\* A dry run prints the plan and is done.
PrintPlan(g) ==
  /\ At(g, "upload") /\ run[g].mode = "dry_run"
  /\ run' = [run EXCEPT ![g].status = "ok"]
  /\ UNCHANGED <<head, site, pending, faults>>

\* Nothing expands the $FTP_PASSWORD that lftp is given as the password: spawnSync has no
\* shell. So the upload of an ftps plan fails.
LoginRefused(g) == run[g].mode = "execute" /\ Transfer[g][run[g].commit] = "ftps"

UploadRefused(g) ==
  /\ At(g, "upload") /\ LoginRefused(g)
  /\ Fail(g)
  /\ UNCHANGED <<head, site, pending, faults>>

Mirror(g) ==
  /\ At(g, "upload") /\ run[g].mode = "execute" /\ ~LoginRefused(g)
  /\ \E p \in run[g].todo :
       /\ site' = [site EXCEPT ![Root(g)][p] = run[g].dir[p]]
       /\ run' = [run EXCEPT ![g].todo = @ \ {p}]
  /\ UNCHANGED <<head, pending, faults>>

Mirrored(g) ==
  /\ At(g, "upload") /\ run[g].mode = "execute" /\ ~LoginRefused(g)
  /\ run[g].todo = {}
  /\ run' = [run EXCEPT ![g].step = "verify"]
  /\ UNCHANGED <<head, site, pending, faults>>

\* test -e <webroot>/index.html
Verify(g) ==
  /\ At(g, "verify")
  /\ IF site[Root(g)][Index] # Missing THEN run' = [run EXCEPT ![g].status = "ok"]
                                       ELSE Fail(g)
  /\ UNCHANGED <<head, site, pending, faults>>

\* The runner or its connection is lost, or the run is cancelled.
Lost(g) ==
  /\ Running(g)
  /\ faults < MaxFaults /\ faults' = faults + 1
  /\ Fail(g)
  /\ UNCHANGED <<head, site, pending>>

Step(g) ==
  \/ Rollback(g)
  \/ Checkout(g)
  \/ Build(g)
  \/ PrintPlan(g)
  \/ UploadRefused(g)
  \/ Mirror(g)
  \/ Mirrored(g)
  \/ Verify(g)

Next ==
  \/ Push
  \/ \E g \in Groups, mode \in Modes : Dispatch(g, mode)
  \/ \E g \in Groups : RequestRollback(g) \/ Start(g) \/ Step(g) \/ Lost(g)

Spec == Init /\ [][Next]_vars

\* A run goes on to its end, and a group that is free starts what is pending, a
\* deployment again and again; the operators dispatch until the site is up to date.
Published(g) == head > 0 /\ site[Root(g)] \in Outputs(g, head)
Fairness ==
  \A g \in Groups :
    /\ WF_vars(Step(g)) /\ WF_vars(Start(g))
    /\ SF_vars(pending[g] # NoRequest /\ pending[g].mode = "execute" /\ Start(g))
    /\ SF_vars(~Published(g) /\ ~Running(g) /\ Dispatch(g, "execute"))

RetrySpec == Spec /\ Fairness
------------------------------------------------------------------------------
(* Properties.                                                              *)

\* Deployments are of commits that have been pushed.
Pushed == [plan : {"deploy"}, commit : 1..head, mode : Modes]
Rollbacks == {ToRollBack}

TypeOK ==
  /\ head \in 0..Commits /\ faults \in 0..MaxFaults
  /\ site \in [Roots -> [Paths -> Versions]]
  /\ run \in [Groups -> [status : {"idle", "running", "ok", "failed"},
                         plan : {"deploy", "rollback"}, commit : 0..Commits,
                         mode : Modes,
                         step : {"checkout", "build", "upload", "verify"},
                         dir : [Paths -> Versions], todo : SUBSET Paths]]
  /\ \A g \in Groups : Running(g) =>
       IF run[g].plan = "deploy" THEN run[g].commit \in 1..head
                                 ELSE run[g].step = "checkout"
  /\ pending \in [Groups -> {NoRequest} \cup Pushed \cup Rollbacks]

(* A run that ends successfully, and was no dry run, leaves exactly what it *)
(* built: nothing of the commits before, nor of runs that were cut short,   *)
(* is left over (static-hostinger.mjs:99-101).                              *)
FinishedRunIsExact ==
  [][\A g \in Groups : Running(g) /\ run'[g].status = "ok" /\ run'[g].mode = "execute"
                         => site'[Root(g)] = run[g].dir]_vars

(* When the workflow that pushes start is at rest after a run that really   *)
(* published, the webroot is the last commit's build, however pushes,       *)
(* buttons, rollbacks and superseded requests followed each other.          *)
RestMeansHead ==
  \A g \in OnPush :
    run[g].status = "ok" /\ run[g].mode = "execute" /\ pending[g] = NoRequest
      => Published(g)

(* Once pushes and faults have ceased the last commit is published for good *)
(* by operators who dispatch it again, unless its build fails or its config *)
(* is for ftps, whatever credential is set (executor.mjs:191-199).          *)
Publishable(g) == head > 0 /\ Outputs(g, head) # {} /\ Transfer[g][head] # "ftps"
HeadGetsPublished == \A g \in Groups : <>[](Publishable(g) => Published(g))
==============================================================================
