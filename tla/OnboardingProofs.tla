--------------------------- MODULE OnboardingProofs ---------------------------
(****************************************************************************)
(* Proofs about Onboarding, for any clients, secrets and bound of faults.   *)
(****************************************************************************)
EXTENDS Onboarding, TLAPS

\* The steps in which the files are still to be written.
Before == {"check", "branch", "read", "write", "pull"}

(* What holds of a call of the tool that nothing has come in the way of.    *)
Undisturbed ==
  /\ step \notin {"failed", "refused"}
  /\ ~Ended => client.access = "write"
  /\ step \in Before => pull = "none" /\ secrets \cap Given = {}
  /\ step \in {"branch", "pull"} => mode = "via_pr"
  /\ step \in {"read", "write"} => mode \in {"direct", "via_pr"}
  /\ step \in {"read", "write", "pull"} /\ mode = "via_pr" => branch # NoBranch
  /\ step = "write" /\ mode = "direct" => main[Files[at]] = seen
  /\ step = "write" /\ mode = "via_pr" => branch.files[Files[at]] = seen
  /\ step = "secret" => \A i \in at..Len(client.given) : client.given[i] \notin secrets

\* The inductive invariant.
UInv == TypeOK /\ (clean = "yes" => Undisturbed)
------------------------------------------------------------------------------
(* What the values are: the files have names, the secrets of a client are   *)
(* in a sequence.                                                           *)
LEMMA FilesAre ==
  /\ Len(Files) = 2
  /\ \A i \in 1..2 : Files[i] \in Paths
BY DEF Files, Paths

LEMMA GivenIs ==
  ASSUME TypeOK
  PROVE  /\ Len(client.given) \in Nat
         /\ \A i \in 1..Len(client.given) : client.given[i] \in Secrets
         /\ client.access \in {"write", "read"}
         /\ client.deploy \in {"dispatch", "none"}
         /\ \A i, j \in 1..Len(client.given) : client.given[i] = client.given[j] => i = j
BY ClientsAssumption, GivenAssumption DEF TypeOK, ClientSet

LEMMA QueuedIs ==
  ASSUME TypeOK, NEW tree \in Tree
  PROVE  Queued(tree) \in [config : Content, secrets : SUBSET Secrets] \cup {NoRun}
BY DEF TypeOK, Queued, Tree, Paths
------------------------------------------------------------------------------
LEMMA TypeInit == Init => TypeOK
BY ClientsAssumption, FaultsAssumption DEF Init, TypeOK, ClientSet, Tree, Content, Steps, Files

(* Every step of the tool, and of those it shares the repository with,      *)
(* keeps the types.                                                         *)
LEMMA TypeStart == ASSUME TypeOK, NEW m \in Modes, Start(m) PROVE TypeOK'
<1>. Len(Files) = 2 /\ Len(client.given) \in Nat
  BY FilesAre, GivenIs
<1>. QED BY ModesAssumption DEF TypeOK, Start, Steps, Content, repository

LEMMA TypeCheck == ASSUME TypeOK, CheckPrerequisites PROVE TypeOK'
<1>. Len(Files) = 2 /\ Len(client.given) \in Nat
  BY FilesAre, GivenIs
<1>. QED BY DEF TypeOK, CheckPrerequisites, Goes, Steps, repository

LEMMA TypeBranch == ASSUME TypeOK, CreateBranch PROVE TypeOK'
<1>. Len(Files) = 2 /\ Len(client.given) \in Nat
  BY FilesAre, GivenIs
<1>1. branch' \in [files : Tree, base : Tree] \cup {NoBranch}
  BY DEF TypeOK, CreateBranch
<1>. QED BY <1>1, FaultsAssumption DEF TypeOK, CreateBranch, Goes, Lost, Steps

LEMMA TypeRead == ASSUME TypeOK, ReadFile PROVE TypeOK'
<1>. Len(Files) = 2 /\ Len(client.given) \in Nat
  BY FilesAre, GivenIs
<1>1. at \in 1..2
  BY DEF TypeOK, ReadFile
<1>2. Files[at] \in Paths
  BY <1>1, FilesAre
<1>3. main[Files[at]] \in Content /\ (branch # NoBranch => branch.files[Files[at]] \in Content)
  BY <1>2 DEF TypeOK, Tree
<1>4. seen' \in Content
  BY <1>3 DEF ReadFile, Content
<1>. QED BY <1>1, <1>4 DEF TypeOK, ReadFile, Goes, Steps, repository

LEMMA AfterFileIs ==
  ASSUME TypeOK, step = "write"
  PROVE  AfterFile[1] \in {"read", "secret", "pull"} /\ AfterFile[2] \in 1..2
         /\ (AfterFile[1] # "read" => AfterFile[2] = 1) /\ at \in 1..2
         /\ (AfterFile[1] = "pull" => mode # "direct")
         /\ (AfterFile[1] = "secret" => mode = "direct")
<1>1. at \in 1..2
  BY FilesAre DEF TypeOK
<1>. QED BY <1>1, FilesAre DEF AfterFile

LEMMA TypeWrite == ASSUME TypeOK, WriteFile PROVE TypeOK'
<1>. Len(Files) = 2 /\ Len(client.given) \in Nat
  BY FilesAre, GivenIs
<1>1. AfterFile[1] \in {"read", "secret", "pull"} /\ AfterFile[2] \in 1..2 /\ at \in 1..2
      /\ (AfterFile[1] # "read" => AfterFile[2] = 1)
  BY AfterFileIs DEF WriteFile
<1>2. main' \in Tree /\ pending' \in [config : Content, secrets : SUBSET Secrets] \cup {NoRun}
  <2>1. [main EXCEPT ![Files[at]] = "ours"] \in Tree
    BY <1>1, FilesAre DEF TypeOK, Tree, Content
  <2>. QED BY <2>1, QueuedIs DEF WriteFile, TypeOK
<1>. QED BY <1>1, <1>2, FaultsAssumption DEF TypeOK, WriteFile, Goes, Throws, Lost, Steps

(* A file that is staged leaves a branch.                                   *)
LEMMA StagedBranch ==
  ASSUME TypeOK, StageFile
  PROVE  branch' \in [files : Tree, base : Tree] \cup {NoBranch}
         /\ (branch # NoBranch => branch' # NoBranch)
<1>1. at \in 1..2
  BY AfterFileIs DEF StageFile
<1>2. branch # NoBranch => [branch.files EXCEPT ![Files[at]] = "ours"] \in Tree
                             /\ branch.base \in Tree
  BY <1>1, FilesAre DEF TypeOK, Tree, Content
<1>. QED BY <1>2, NoBranchAssumption DEF StageFile, TypeOK

LEMMA TypeStage == ASSUME TypeOK, StageFile PROVE TypeOK'
<1>. Len(Files) = 2 /\ Len(client.given) \in Nat
  BY FilesAre, GivenIs
<1>1. AfterFile[1] \in {"read", "secret", "pull"} /\ AfterFile[2] \in 1..2 /\ at \in 1..2
      /\ (AfterFile[1] # "read" => AfterFile[2] = 1)
  BY AfterFileIs DEF StageFile
<1>2. branch' \in [files : Tree, base : Tree] \cup {NoBranch}
      /\ (branch # NoBranch => branch' # NoBranch)
  BY StagedBranch
<1>. QED BY <1>1, <1>2, FaultsAssumption DEF TypeOK, StageFile, Goes, Throws, Lost, Steps

LEMMA TypePull == ASSUME TypeOK, OpenPull PROVE TypeOK'
<1>. Len(Files) = 2 /\ Len(client.given) \in Nat
  BY FilesAre, GivenIs
<1>. QED BY FaultsAssumption DEF TypeOK, OpenPull, Goes, Throws, Lost, Steps

LEMMA TypeSecret == ASSUME TypeOK, SetSecret PROVE TypeOK'
<1>. Len(Files) = 2 /\ Len(client.given) \in Nat
  BY FilesAre, GivenIs
<1>1. AfterSecrets \in {"dispatch", "done"}
  BY DEF AfterSecrets
<1>2. at \in 1..Len(client.given) + 1
  BY DEF TypeOK, SetSecret
<1>3. secrets' \subseteq Secrets
  BY <1>2, GivenIs DEF TypeOK, SetSecret
<1>. QED BY <1>1, <1>2, <1>3, FaultsAssumption DEF TypeOK, SetSecret, Goes, Throws, Lost, Steps

LEMMA TypeDispatch == ASSUME TypeOK, Dispatch PROVE TypeOK'
<1>. Len(Files) = 2 /\ Len(client.given) \in Nat
  BY FilesAre, GivenIs
<1>1. pending' \in [config : Content, secrets : SUBSET Secrets] \cup {NoRun}
  BY QueuedIs DEF Dispatch, TypeOK
<1>. QED BY <1>1, FaultsAssumption DEF TypeOK, Dispatch, Goes, Lost, Steps

LEMMA TypeUnreached == ASSUME TypeOK, Unreached PROVE TypeOK'
<1>. Len(Files) = 2 /\ Len(client.given) \in Nat
  BY FilesAre, GivenIs
<1>. QED BY FaultsAssumption DEF TypeOK, Unreached, Lost, Steps, repository

LEMMA TypeMerge == ASSUME TypeOK, Merge PROVE TypeOK'
<1>. Len(Files) = 2 /\ Len(client.given) \in Nat
  BY FilesAre, GivenIs
<1>1. [p \in Paths |-> Merged(p)] \in Tree
  BY DEF TypeOK, Tree, Merge, Merged
<1>2. main' \in Tree /\ pending' \in [config : Content, secrets : SUBSET Secrets] \cup {NoRun}
  BY <1>1, QueuedIs DEF Merge
<1>3. branch' \in [files : Tree, base : Tree] \cup {NoBranch}
  BY DEF TypeOK, Merge
<1>4. pull' = "none" /\ UNCHANGED <<client, secrets, site, mode, step, at, seen, clean, faults>>
  BY DEF Merge, tool
<1>. QED BY <1>2, <1>3, <1>4 DEF TypeOK

LEMMA TypeOthers ==
  ASSUME TypeOK, RunDeployment \/ (\E p \in Paths : Edit(p)) \/ (\E n \in Given : SetOwnSecret(n))
  PROVE  TypeOK'
<1>. Len(Files) = 2 /\ Len(client.given) \in Nat
  BY FilesAre, GivenIs
<1>1. CASE RunDeployment
  BY <1>1 DEF TypeOK, RunDeployment, tool
<1>2. ASSUME NEW p \in Paths, Edit(p) PROVE TypeOK'
  <2>1. [main EXCEPT ![p] = "edited"] \in Tree
    BY DEF TypeOK, Tree, Content
  <2>2. main' \in Tree /\ pending' \in [config : Content, secrets : SUBSET Secrets] \cup {NoRun}
    BY <1>2, <2>1, QueuedIs DEF Edit
  <2>. QED BY <1>2, <2>2 DEF TypeOK, Edit
<1>3. ASSUME NEW n \in Given, SetOwnSecret(n) PROVE TypeOK'
  <2>1. n \in Secrets
    BY GivenIs DEF Given
  <2>. QED BY <1>3, <2>1 DEF TypeOK, SetOwnSecret
<1>. QED BY <1>1, <1>2, <1>3

LEMMA TypeStep == TypeOK /\ [Next]_vars => TypeOK'
<1>. SUFFICES ASSUME TypeOK, [Next]_vars PROVE TypeOK'
  OBVIOUS
<1>1. CASE \E m \in Modes : Start(m)
  BY <1>1, TypeStart
<1>2. CASE Call
  BY <1>2, TypeCheck, TypeBranch, TypeRead, TypeWrite, TypeStage, TypePull, TypeSecret,
     TypeDispatch DEF Call
<1>3. CASE Unreached \/ Merge
  BY <1>3, TypeUnreached, TypeMerge
<1>4. CASE RunDeployment \/ (\E p \in Paths : Edit(p)) \/ (\E n \in Given : SetOwnSecret(n))
  BY <1>4, TypeOthers
<1>5. CASE UNCHANGED vars
  BY <1>5 DEF TypeOK, vars
<1>. QED BY <1>1, <1>2, <1>3, <1>4, <1>5 DEF Next

(* Files, branch, secrets, deployments and the position of the tool stay    *)
(* within their types, for any clients, whatever calls are lost.            *)
THEOREM TypeCorrect == Spec => []TypeOK
<1>. QED BY TypeInit, TypeStep, PTL DEF Spec
------------------------------------------------------------------------------
(* A step that takes the client's version from the default branch.          *)
LEMMA EditStep ==
  ASSUME TypeOK, [Next]_vars, NEW p \in Paths, main[p] = "edited", main'[p] # "edited"
  PROVE  \/ step = "write" /\ p = Files[at] /\ seen = "edited"
         \/ pull = "open" /\ branch.base[p] = "edited"
<1>. main \in [Paths -> Content]
  BY DEF TypeOK, Tree
<1>1. CASE WriteFile
  BY <1>1 DEF WriteFile
<1>2. CASE Merge
  BY <1>2 DEF Merge, Merged
<1>3. CASE \E q \in Paths : Edit(q)
  BY <1>3 DEF Edit
<1>4. CASE UNCHANGED main
  BY <1>4
<1>5. WriteFile \/ Merge \/ (\E q \in Paths : Edit(q)) \/ UNCHANGED main
  BY DEF Next, vars, Start, Call, CheckPrerequisites, CreateBranch, ReadFile, StageFile, OpenPull,
     SetSecret, Dispatch, Unreached, RunDeployment, SetOwnSecret, repository
<1>. QED BY <1>1, <1>2, <1>3, <1>4, <1>5

(* The client's version of a file is replaced only by a write that has read *)
(* it or by a merge that forked from it.                                    *)
THEOREM EditsKept == Spec => EditsSurvive
<1>1. TypeOK /\ [Next]_vars =>
        [\A p \in Paths :
           main[p] = "edited" /\ main'[p] # "edited" =>
             \/ step = "write" /\ p = Files[at] /\ seen = "edited"
             \/ pull = "open" /\ branch.base[p] = "edited"]_vars
  BY EditStep
<1>. QED BY <1>1, TypeCorrect, PTL DEF Spec, EditsSurvive
------------------------------------------------------------------------------
LEMMA UndisturbedInit == Init => UInv
<1>. QED BY TypeInit DEF Init, UInv, Undisturbed, Ended, Before

(* Every step that leaves the call undisturbed keeps its invariant.         *)
LEMMA UndisturbedStart ==
  ASSUME TypeOK, NEW m \in Modes, Start(m), clean' = "yes" PROVE Undisturbed'
<1>1. client.access = "write" /\ pull = "none" /\ secrets \cap Given = {}
  BY DEF Start
<1>2. step' = "check" /\ UNCHANGED <<client, pull, secrets>>
  BY DEF Start, repository
<1>. QED BY <1>1, <1>2 DEF Undisturbed, Ended, Before, Given

LEMMA UndisturbedCheck ==
  ASSUME TypeOK, Undisturbed, CheckPrerequisites, clean' = "yes" PROVE Undisturbed'
<1>. client.access = "write" /\ pull = "none" /\ secrets \cap Given = {}
  BY DEF Undisturbed, CheckPrerequisites, Ended, Before
<1>1. \/ step' = "checked"
      \/ step' = "read" /\ mode = "direct"
      \/ step' = "branch" /\ mode = "via_pr"
  BY DEF CheckPrerequisites, Goes, TypeOK
<1>2. UNCHANGED <<client, pull, secrets, mode>>
  BY DEF CheckPrerequisites, Goes, repository
<1>. QED BY <1>1, <1>2 DEF Undisturbed, Ended, Before, Given

LEMMA UndisturbedBranch ==
  ASSUME TypeOK, Undisturbed, CreateBranch, clean' = "yes" PROVE Undisturbed'
<1>. client.access = "write" /\ pull = "none" /\ secrets \cap Given = {} /\ mode = "via_pr"
  BY DEF Undisturbed, CreateBranch, Ended, Before
<1>1. step' = "read" /\ UNCHANGED <<client, pull, secrets, mode>>
  BY DEF CreateBranch, Goes, Lost
<1>2. branch' # NoBranch
  BY NoBranchAssumption DEF CreateBranch, TypeOK
<1>. QED BY <1>1, <1>2 DEF Undisturbed, Ended, Before, Given

LEMMA UndisturbedRead ==
  ASSUME TypeOK, Undisturbed, ReadFile, clean' = "yes" PROVE Undisturbed'
<1>. client.access = "write" /\ pull = "none" /\ secrets \cap Given = {}
     /\ mode \in {"direct", "via_pr"} /\ (mode = "via_pr" => branch # NoBranch)
  BY DEF Undisturbed, ReadFile, Ended, Before
<1>1. step' = "write" /\ at' = at /\ UNCHANGED <<client, main, branch, pull, secrets, mode>>
  BY DEF ReadFile, Goes, repository
<1>2. seen' = IF mode = "direct" THEN main[Files[at]] ELSE branch.files[Files[at]]
  BY DEF ReadFile
<1>. QED BY <1>1, <1>2 DEF Undisturbed, Ended, Before, Given

LEMMA UndisturbedWrite ==
  ASSUME TypeOK, Undisturbed, WriteFile, clean' = "yes" PROVE Undisturbed'
<1>. client.access = "write" /\ pull = "none" /\ secrets \cap Given = {} /\ mode = "direct"
     /\ main[Files[at]] = seen
  BY DEF Undisturbed, WriteFile, Ended, Before
<1>1. Goes(AfterFile[1], AfterFile[2]) /\ UNCHANGED <<client, pull, secrets, branch>>
  BY DEF WriteFile, Lost
<1>2. AfterFile[1] \in {"read", "secret"} /\ AfterFile[2] \in 1..2
  BY AfterFileIs DEF WriteFile
<1>. QED BY <1>1, <1>2 DEF Undisturbed, Ended, Before, Given, Goes

LEMMA UndisturbedStage ==
  ASSUME TypeOK, Undisturbed, StageFile, clean' = "yes" PROVE Undisturbed'
<1>. client.access = "write" /\ pull = "none" /\ secrets \cap Given = {} /\ mode = "via_pr"
     /\ branch # NoBranch /\ branch.files[Files[at]] = seen
  BY DEF Undisturbed, StageFile, Ended, Before
<1>1. Goes(AfterFile[1], AfterFile[2]) /\ UNCHANGED <<client, pull, secrets>>
  BY DEF StageFile, Lost
<1>2. AfterFile[1] \in {"read", "pull"}
  BY AfterFileIs DEF StageFile
<1>3. branch' # NoBranch
  BY StagedBranch
<1>. QED BY <1>1, <1>2, <1>3 DEF Undisturbed, Ended, Before, Given, Goes

LEMMA UndisturbedPull ==
  ASSUME TypeOK, Undisturbed, OpenPull, clean' = "yes" PROVE Undisturbed'
<1>. client.access = "write" /\ pull = "none" /\ secrets \cap Given = {} /\ mode = "via_pr"
     /\ branch # NoBranch
  BY DEF Undisturbed, OpenPull, Ended, Before
<1>1. Goes("secret", 1) /\ UNCHANGED <<client, secrets>>
  BY DEF OpenPull, Lost
<1>. QED BY <1>1 DEF Undisturbed, Ended, Before, Given, Goes

(* The secrets that are still to be set differ from the one that is set.    *)
LEMMA UndisturbedSecret ==
  ASSUME TypeOK, Undisturbed, SetSecret, clean' = "yes" PROVE Undisturbed'
<1>. /\ client.access = "write"
     /\ \A i \in at..Len(client.given) : client.given[i] \notin secrets
  BY DEF Undisturbed, SetSecret, Ended
<1>0. at \in 1..Len(client.given) + 1 /\ Len(client.given) \in Nat
  BY GivenIs DEF TypeOK, SetSecret
<1>1. CASE at > Len(client.given)
  <2>1. step' \in {"dispatch", "done"} /\ client' = client
    BY <1>1 DEF SetSecret, Goes, AfterSecrets
  <2>. QED BY <2>1 DEF Undisturbed, Ended, Before
<1>2. CASE ~(at > Len(client.given))
  <2>1. client.given[at] \notin secrets
    BY <1>0, <1>2
  <2>2. step' = "secret" /\ at' = at + 1 /\ client' = client
        /\ secrets' = secrets \cup {client.given[at]}
    BY <1>2, <2>1 DEF SetSecret, Goes, Lost
  <2>3. \A i \in at'..Len(client.given) : client.given[i] \notin secrets'
    <3>. TAKE i \in at'..Len(client.given)
    <3>1. i \in at..Len(client.given) /\ i # at /\ i \in 1..Len(client.given)
          /\ at \in 1..Len(client.given)
      BY <1>0, <1>2, <2>2
    <3>. QED BY <3>1, <2>2, GivenIs
  <2>. QED BY <2>2, <2>3 DEF Undisturbed, Ended, Before
<1>. QED BY <1>1, <1>2

(* Nobody else's step disturbs a call without being seen to.                *)
LEMMA UndisturbedOthers ==
  ASSUME TypeOK, Undisturbed, clean' = "yes",
         Dispatch \/ Merge \/ RunDeployment \/ UNCHANGED vars
  PROVE  Undisturbed'
<1>1. CASE Dispatch
  BY <1>1 DEF Dispatch, Undisturbed, Goes, Lost, Ended, Before
<1>2. CASE Merge
  <2>1. step \notin Before /\ step \notin {"read", "write", "branch", "pull"}
    BY <1>2 DEF Merge, Undisturbed, Before
  <2>2. UNCHANGED <<client, secrets, step, at, mode>>
    BY <1>2 DEF Merge, tool
  <2>. QED BY <2>1, <2>2 DEF Undisturbed, Ended, Before
<1>3. CASE RunDeployment
  BY <1>3 DEF RunDeployment, Undisturbed, Ended, Before, Given, tool
<1>4. CASE UNCHANGED vars
  BY <1>4 DEF vars, Undisturbed, Ended, Before, Given
<1>. QED BY <1>1, <1>2, <1>3, <1>4

LEMMA UndisturbedStep == UInv /\ [Next]_vars => UInv'
<1>. SUFFICES ASSUME TypeOK, clean = "yes" => Undisturbed, [Next]_vars, clean' = "yes"
              PROVE  Undisturbed'
  BY TypeStep DEF UInv
<1>1. CASE \E m \in Modes : Start(m)
  BY <1>1, UndisturbedStart
<1>2. CASE ~(\E m \in Modes : Start(m))
  <2>1. clean = "yes"
    BY <1>2 DEF Next, vars, Call, CheckPrerequisites, CreateBranch, ReadFile, WriteFile, StageFile,
       OpenPull, SetSecret, Dispatch, Unreached, Merge, RunDeployment, Edit, SetOwnSecret, Goes,
       Throws, Lost, tool
  <2>2. ~Unreached /\ ~(\E p \in Paths : Edit(p)) /\ ~(\E n \in Given : SetOwnSecret(n))
    BY DEF Unreached, Lost, Edit, SetOwnSecret
  <2>. QED BY <1>2, <2>1, <2>2, UndisturbedCheck, UndisturbedBranch, UndisturbedRead,
          UndisturbedWrite, UndisturbedStage, UndisturbedPull, UndisturbedSecret,
          UndisturbedOthers DEF Next, Call
<1>. QED BY <1>1, <1>2

(* A call that nothing comes in the way of gets to its end, whatever files  *)
(* and branches earlier calls have left.                                    *)
THEOREM UndisturbedEnds == Spec => []UndisturbedCompletes
<1>1. UInv => UndisturbedCompletes
  BY DEF UInv, Undisturbed, UndisturbedCompletes
<1>. QED BY <1>1, UndisturbedInit, UndisturbedStep, PTL DEF Spec
------------------------------------------------------------------------------
\* The deployment that waits, or else the last one, had all that it needs.
Complete ==
  IF pending = NoRun THEN site = "published"
  ELSE pending.config # "absent" /\ Given \subseteq pending.secrets

(* What a direct call that nothing has come in the way of has done so far.  *)
OnTheWay ==
  /\ step \in {"check", "read", "write", "secret", "dispatch", "done"} => pull = "none"
  /\ step \in {"read", "write"} => \A i \in 1..at - 1 : main[Files[i]] = "ours"
  /\ step \in {"secret", "dispatch", "done"} => \A p \in Paths : main[p] = "ours"
  /\ step = "secret" => \A i \in 1..at - 1 : client.given[i] \in secrets
  /\ step \in {"dispatch", "done"} => Given \subseteq secrets
  /\ step = "done" /\ client.deploy = "dispatch" /\ client.trunk = "main" => Complete

DInv == UInv /\ (clean = "yes" /\ mode = "direct" => OnTheWay)

LEMMA OnTheWayWrite ==
  ASSUME TypeOK, Undisturbed, OnTheWay, WriteFile, clean' = "yes" PROVE OnTheWay'
<1>1. Goes(AfterFile[1], AfterFile[2]) /\ UNCHANGED <<client, pull, secrets, site>>
      /\ main' = [main EXCEPT ![Files[at]] = "ours"]
  BY DEF WriteFile, Lost, Undisturbed
<1>2. pull = "none" /\ at \in 1..2 /\ \A i \in 1..at - 1 : main[Files[i]] = "ours"
  BY AfterFileIs DEF OnTheWay, WriteFile
<1>3. main \in [Paths -> Content] /\ Len(Files) = 2 /\ Files[1] \in Paths /\ Files[2] \in Paths
  BY FilesAre DEF TypeOK, Tree
<1>4. CASE at = 1
  <2>1. step' = "read" /\ at' = 2 /\ main'[Files[1]] = "ours"
    BY <1>1, <1>3, <1>4 DEF AfterFile, Goes
  <2>. QED BY <1>1, <1>2, <2>1 DEF OnTheWay
<1>5. CASE at = 2
  <2>1. step' = "secret" /\ at' = 1
    BY <1>1, <1>3, <1>5 DEF AfterFile, Goes, WriteFile
  <2>2. main[Files[1]] = "ours" /\ main' = [main EXCEPT ![Files[2]] = "ours"]
    BY <1>1, <1>2, <1>5
  <2>3. \A p \in Paths : main'[p] = "ours"
    BY <1>3, <2>2 DEF Paths, Files
  <2>. QED BY <1>1, <1>2, <2>1, <2>3 DEF OnTheWay
<1>. QED BY <1>2, <1>4, <1>5

LEMMA OnTheWaySecret ==
  ASSUME TypeOK, OnTheWay, SetSecret, mode = "direct", clean' = "yes", step' # "failed"
  PROVE  OnTheWay'
<1>1. pull = "none" /\ (\A p \in Paths : main[p] = "ours")
      /\ \A i \in 1..at - 1 : client.given[i] \in secrets
  BY DEF OnTheWay, SetSecret
<1>2. at \in 1..Len(client.given) + 1 /\ Len(client.given) \in Nat
      /\ client.deploy \in {"dispatch", "none"}
  BY GivenIs DEF TypeOK, SetSecret
<1>3. UNCHANGED <<client, main, pull>>
  BY DEF SetSecret
<1>4. CASE at > Len(client.given)
  <2>1. at - 1 = Len(client.given)
    BY <1>2, <1>4
  <2>2. Given \subseteq secrets
    BY <1>1, <2>1 DEF Given
  <2>3. secrets' = secrets /\ step' = IF client.deploy = "dispatch" THEN "dispatch" ELSE "done"
    BY <1>4 DEF SetSecret, Goes, AfterSecrets
  <2>. QED BY <1>1, <1>3, <2>2, <2>3 DEF OnTheWay, Given
<1>5. CASE ~(at > Len(client.given))
  <2>1. step' = "secret" /\ at' = at + 1 /\ secrets' = secrets \cup {client.given[at]}
    BY <1>5 DEF SetSecret, Goes, Throws, Lost
  <2>2. \A i \in 1..at' - 1 : i \in 1..at - 1 \/ i = at
    BY <1>2, <2>1
  <2>. QED BY <1>1, <1>3, <2>1, <2>2 DEF OnTheWay
<1>. QED BY <1>4, <1>5

LEMMA OnTheWayDispatch ==
  ASSUME TypeOK, OnTheWay, Dispatch, clean' = "yes" PROVE OnTheWay'
<1>1. pull = "none" /\ (\A p \in Paths : main[p] = "ours") /\ Given \subseteq secrets
  BY DEF OnTheWay, Dispatch
<1>2. step' = "done" /\ UNCHANGED <<client, main, pull, secrets, site>> /\ pending' = Queued(main)
  BY DEF Dispatch, Goes, Lost
<1>3. client.trunk = "main" => pending' = [config |-> "ours", secrets |-> secrets]
  BY <1>1, <1>2 DEF Queued, Paths
<1>4. [config |-> "ours", secrets |-> secrets] # NoRun
  BY NoRunAssumption DEF TypeOK, Content
<1>. QED BY <1>1, <1>2, <1>3, <1>4 DEF OnTheWay, Complete, Given

LEMMA OnTheWayOthers ==
  ASSUME TypeOK, Undisturbed, OnTheWay, mode = "direct", clean' = "yes",
         CheckPrerequisites \/ ReadFile \/ CreateBranch \/ StageFile \/ OpenPull \/ Merge
           \/ RunDeployment \/ UNCHANGED vars
  PROVE  OnTheWay'
<1>1. CASE CheckPrerequisites
  <2>1. step' \in {"read", "checked"} /\ at' = 1 /\ UNCHANGED <<main, pull>> /\ pull = "none"
    BY <1>1 DEF CheckPrerequisites, Goes, repository, OnTheWay, Undisturbed, Ended
  <2>. QED BY <2>1 DEF OnTheWay
<1>2. CASE ReadFile
  <2>1. step' = "write" /\ at' = at /\ UNCHANGED <<main, pull>>
    BY <1>2 DEF ReadFile, Goes, repository
  <2>. QED BY <1>2, <2>1 DEF OnTheWay, ReadFile
<1>3. ~CreateBranch /\ ~StageFile /\ ~OpenPull
  BY DEF CreateBranch, StageFile, OpenPull, Undisturbed
<1>4. CASE Merge
  <2>1. step \notin {"check", "read", "write", "secret", "dispatch", "done"} /\ step' = step
    BY <1>4 DEF Merge, OnTheWay, tool
  <2>. QED BY <2>1 DEF OnTheWay
<1>5. CASE RunDeployment
  <2>1. UNCHANGED <<client, main, pull, secrets, step, at>> /\ pending # NoRun /\ pending' = NoRun
        /\ site' = IF pending.config # "absent" /\ Given \subseteq pending.secrets
                     THEN "published" ELSE "failed"
    BY <1>5 DEF RunDeployment, tool
  <2>2. Complete => Complete'
    BY <2>1 DEF Complete
  <2>. QED BY <2>1, <2>2 DEF OnTheWay, Given
<1>6. CASE UNCHANGED vars
  BY <1>6 DEF vars, OnTheWay, Complete, Given
<1>. QED BY <1>1, <1>2, <1>3, <1>4, <1>5, <1>6

LEMMA DoneStep == DInv /\ [Next]_vars => DInv'
<1>. SUFFICES ASSUME DInv, [Next]_vars, UInv', clean' = "yes", mode' = "direct" PROVE OnTheWay'
  BY UndisturbedStep DEF DInv
<1>. TypeOK /\ TypeOK' /\ Undisturbed'
  BY DEF DInv, UInv
<1>1. CASE \E m \in Modes : Start(m)
  <2>1. step' = "check" /\ pull' = "none"
    BY <1>1 DEF Start, repository
  <2>. QED BY <2>1 DEF OnTheWay
<1>2. CASE ~(\E m \in Modes : Start(m))
  <2>1. clean = "yes" /\ mode = "direct"
    BY <1>2 DEF Next, vars, Call, CheckPrerequisites, CreateBranch, ReadFile, WriteFile, StageFile,
       OpenPull, SetSecret, Dispatch, Unreached, Merge, RunDeployment, Edit, SetOwnSecret, Goes,
       Throws, Lost, tool
  <2>2. Undisturbed /\ OnTheWay
    BY <2>1 DEF DInv, UInv
  <2>3. ~Unreached /\ ~(\E p \in Paths : Edit(p)) /\ ~(\E n \in Given : SetOwnSecret(n))
    BY DEF Unreached, Lost, Edit, SetOwnSecret
  <2>4. step' # "failed"
    BY DEF Undisturbed
  <2>. QED BY <1>2, <2>1, <2>2, <2>3, <2>4, OnTheWayWrite, OnTheWaySecret, OnTheWayDispatch,
          OnTheWayOthers DEF Next, Call
<1>. QED BY <1>1, <1>2

(* After a direct onboarding with a first deployment that nothing has come  *)
(* in the way of, the site is published once nothing waits, whatever        *)
(* deployments the pushes have started before.                              *)
THEOREM DoneIsDeployed == Spec => []DoneMeansDeployed
<1>1. Init => DInv
  BY UndisturbedInit DEF Init, DInv, OnTheWay
<1>2. DInv => DoneMeansDeployed
  BY DEF DInv, OnTheWay, Complete, DoneMeansDeployed
<1>. QED BY <1>1, <1>2, DoneStep, PTL DEF Spec
------------------------------------------------------------------------------
(* A call with --check-only is at its check or over.                        *)
CheckInv == TypeOK /\ (mode = "check_only" => Ended \/ step = "check")

LEMMA CheckStep == CheckInv /\ [Next]_vars => CheckInv'
<1>. SUFFICES ASSUME TypeOK, mode = "check_only" => Ended \/ step = "check", [Next]_vars,
                     mode' = "check_only"
              PROVE  Ended' \/ step' = "check"
  BY TypeStep DEF CheckInv
<1>. USE DEF Ended
<1>1. CASE \E m \in Modes : Start(m)
  BY <1>1 DEF Start
<1>2. CASE CheckPrerequisites
  BY <1>2 DEF CheckPrerequisites, Goes
<1>3. CASE UNCHANGED <<mode, step>>
  BY <1>3
<1>4. CASE Unreached
  BY <1>4 DEF Unreached, Lost
<1>5. ASSUME CreateBranch \/ ReadFile \/ WriteFile \/ StageFile \/ OpenPull \/ SetSecret \/ Dispatch
      PROVE  FALSE
  <2>1. mode' = mode
    BY <1>5 DEF CreateBranch, ReadFile, WriteFile, StageFile, OpenPull, SetSecret, Dispatch, Goes,
       Throws, Lost
  <2>2. step \in {"branch", "read", "write", "pull", "secret", "dispatch"}
    BY <1>5 DEF CreateBranch, ReadFile, WriteFile, StageFile, OpenPull, SetSecret, Dispatch
  <2>. QED BY <2>1, <2>2
<1>. QED BY <1>1, <1>2, <1>3, <1>4, <1>5 DEF Next, Call, Merge, RunDeployment, Edit, SetOwnSecret,
        vars, tool

(* "--check-only" writes nothing (onboard.mjs:28): whatever earlier calls   *)
(* have left half-done, no step of such a call changes the repository.      *)
THEOREM CheckOnlyWritesNothing ==
  Spec => [][mode = "check_only" /\ (Call \/ Unreached) => UNCHANGED repository]_vars
<1>1. Init => CheckInv
  BY TypeInit DEF Init, CheckInv
<1>2. CheckInv /\ [Next]_vars =>
        [mode = "check_only" /\ (Call \/ Unreached) => UNCHANGED repository]_vars
  <2>. SUFFICES ASSUME CheckInv, mode = "check_only", Call \/ Unreached PROVE UNCHANGED repository
    OBVIOUS
  <2>1. step \notin {"branch", "read", "write", "pull", "secret", "dispatch"}
    BY DEF CheckInv, Ended
  <2>. QED BY <2>1 DEF Call, Unreached, CheckPrerequisites, CreateBranch, ReadFile, WriteFile,
          StageFile, OpenPull, SetSecret, Dispatch
<1>. QED BY <1>1, <1>2, CheckStep, PTL DEF Spec
------------------------------------------------------------------------------
(* A token that may only read gets, with --via-pr, as far as the pull       *)
(* request; there is no branch to open one for.                             *)
ReadOnly ==
  /\ branch = NoBranch /\ pull = "none" /\ pending = NoRun
  /\ \A p \in Paths : main[p] # "ours"
  /\ \/ step \in {"idle", "refused", "failed", "checked", "check"}
     \/ mode = "via_pr" /\ step \in {"branch", "read", "write", "pull"}

ReadInv == TypeOK /\ (client.access = "read" => ReadOnly)

LEMMA ReadOnlyCall ==
  ASSUME TypeOK, client.access = "read", ReadOnly, Call
  PROVE  UNCHANGED repository /\ ReadOnly'
<1>1. step \notin {"secret", "dispatch"} /\ (mode = "direct" => step # "write")
  BY DEF ReadOnly
<1>2. CASE CheckPrerequisites
  BY <1>2 DEF CheckPrerequisites, Goes, ReadOnly, repository
<1>3. CASE CreateBranch
  BY <1>3 DEF CreateBranch, Goes, Lost, ReadOnly, repository
<1>4. CASE ReadFile
  BY <1>4 DEF ReadFile, Goes, ReadOnly, repository
<1>5. CASE StageFile
  <2>1. UNCHANGED repository /\ Goes(AfterFile[1], AfterFile[2]) /\ mode = "via_pr"
    BY <1>5 DEF StageFile, ReadOnly, repository
  <2>2. AfterFile[1] \in {"read", "pull"}
    BY <1>5, AfterFileIs DEF StageFile
  <2>. QED BY <2>1, <2>2 DEF Goes, ReadOnly, repository
<1>6. CASE OpenPull
  BY <1>6 DEF OpenPull, Throws, ReadOnly, repository
<1>. QED BY <1>1, <1>2, <1>3, <1>4, <1>5, <1>6 DEF Call, WriteFile, SetSecret, Dispatch

LEMMA ReadOnlyStep ==
  ASSUME TypeOK, client.access = "read", ReadOnly, [Next]_vars
  PROVE  ReadOnly' /\ UNCHANGED <<client, main, branch, pull, pending, site>>
<1>1. CASE \E m \in Modes : Start(m)
  BY <1>1 DEF Start, repository, ReadOnly
<1>2. CASE Call
  BY <1>2, ReadOnlyCall DEF repository
<1>3. CASE Unreached
  BY <1>3 DEF Unreached, Lost, Ended, repository, ReadOnly
<1>4. ~Merge /\ ~RunDeployment /\ ~(\E p \in Paths : Edit(p))
  BY DEF Merge, RunDeployment, Edit, ReadOnly
<1>5. CASE \E n \in Given : SetOwnSecret(n)
  BY <1>5 DEF SetOwnSecret, ReadOnly
<1>6. CASE UNCHANGED vars
  BY <1>6 DEF vars, ReadOnly
<1>. QED BY <1>1, <1>2, <1>3, <1>4, <1>5, <1>6 DEF Next

(* "so we never half-onboard" (onboard.mjs:112): a token that may only read *)
(* changes nothing of the client's, also with --via-pr, which the           *)
(* prerequisites let through; no such call is reported as done.             *)
THEOREM ReadTokenHarmless ==
  Spec => /\ [](client.access = "read" => step # "done")
          /\ [][client.access = "read" =>
                  /\ UNCHANGED <<main, branch, pull, pending, site>>
                  /\ Call => UNCHANGED secrets]_vars
<1>1. Init => ReadInv
  BY TypeInit DEF Init, ReadInv, ReadOnly
<1>2. ReadInv /\ [Next]_vars => ReadInv'
  <2>. SUFFICES ASSUME ReadInv, [Next]_vars, client'.access = "read" PROVE ReadOnly'
    BY TypeStep DEF ReadInv
  <2>1. client' = client
    BY DEF Next, vars, Start, Call, CheckPrerequisites, CreateBranch, ReadFile, WriteFile,
       StageFile, OpenPull, SetSecret, Dispatch, Unreached, Merge, RunDeployment, Edit,
       SetOwnSecret, repository
  <2>. QED BY <2>1, ReadOnlyStep DEF ReadInv
<1>3. ReadInv => (client.access = "read" => step # "done")
  BY DEF ReadInv, ReadOnly
<1>4. ReadInv /\ [Next]_vars =>
        [client.access = "read" =>
           /\ UNCHANGED <<main, branch, pull, pending, site>>
           /\ Call => UNCHANGED secrets]_vars
  BY ReadOnlyStep, ReadOnlyCall DEF ReadInv, repository
<1>. QED BY <1>1, <1>2, <1>3, <1>4, PTL DEF Spec
------------------------------------------------------------------------------
\* A tree with a workflow has a config for it to deploy.
Deployable(tree) == tree["workflow"] # "absent" => tree["config"] # "absent"

(* The config comes first: on the default branch, on the setup branch, and  *)
(* in what waits to be deployed.                                            *)
ConfigFirst ==
  /\ Deployable(main)
  /\ branch # NoBranch =>
       /\ Deployable(branch.files)
       /\ branch.base["config"] # "absent" =>
            main["config"] # "absent" /\ branch.files["config"] # "absent"
  /\ step \in {"read", "write"} /\ at = 2 =>
       /\ mode = "direct" => main["config"] # "absent"
       /\ mode = "via_pr" /\ branch # NoBranch /\ client.access = "write" =>
            branch.files["config"] # "absent"
  /\ pending # NoRun => pending.config # "absent"

FirstInv == TypeOK /\ ConfigFirst

LEMMA QueuedHasConfig ==
  ASSUME NEW tree \in Tree, Deployable(tree), pending # NoRun => pending.config # "absent",
         pending' = Queued(tree)
  PROVE  pending' # NoRun => pending'.config # "absent"
BY DEF Queued, Deployable

(* A file that the tool writes is the config, or has it beside it.          *)
LEMMA WrittenIsDeployable ==
  ASSUME NEW tree \in Tree, Deployable(tree), NEW i \in 1..2,
         i = 2 => tree["config"] # "absent", NEW new, new = [tree EXCEPT ![Files[i]] = "ours"]
  PROVE  /\ new \in Tree /\ Deployable(new) /\ new["config"] # "absent"
         /\ new["workflow"] # tree["workflow"] => i = 2
BY DEF Tree, Content, Paths, Files, Deployable

LEMMA FirstWrite == ASSUME TypeOK, ConfigFirst, WriteFile PROVE ConfigFirst'
<1>1. /\ AfterFile[1] \in {"read", "secret", "pull"} /\ AfterFile[2] \in 1..2 /\ at \in 1..2
      /\ UNCHANGED <<client, branch, mode>> /\ mode = "direct"
      /\ step' \in {"read", "secret", "pull", "failed"}
  BY AfterFileIs DEF WriteFile, Goes, Lost, Throws
<1>2. CASE main' = [main EXCEPT ![Files[at]] = "ours"] /\ pending' = Queued(main')
  <2>1. main' \in Tree /\ Deployable(main') /\ main'["config"] # "absent"
    BY <1>1, <1>2, WrittenIsDeployable DEF TypeOK, ConfigFirst, WriteFile
  <2>2. pending' # NoRun => pending'.config # "absent"
    BY <1>2, <2>1, QueuedHasConfig DEF ConfigFirst
  <2>. QED BY <1>1, <2>1, <2>2 DEF ConfigFirst
<1>3. CASE Throws /\ UNCHANGED <<main, pending>>
  BY <1>1, <1>3 DEF ConfigFirst, Throws
<1>. QED BY <1>2, <1>3 DEF WriteFile

LEMMA FirstStage == ASSUME TypeOK, ConfigFirst, StageFile PROVE ConfigFirst'
<1>1. /\ AfterFile[1] \in {"read", "secret", "pull"} /\ AfterFile[2] \in 1..2 /\ at \in 1..2
      /\ UNCHANGED <<client, main, pending, mode>> /\ mode = "via_pr" /\ step = "write"
      /\ step' \in {"read", "secret", "pull", "failed"}
  BY AfterFileIs DEF StageFile, Goes, Lost, Throws
<1>2. CASE /\ branch # NoBranch /\ client.access = "write"
           /\ branch' = [files |-> [branch.files EXCEPT ![Files[at]] = "ours"],
                         base |-> branch.base]
  <2>1. branch.files \in Tree /\ Deployable(branch.files)
        /\ (at = 2 => branch.files["config"] # "absent")
    BY <1>1, <1>2 DEF TypeOK, ConfigFirst
  <2>2. Deployable(branch'.files) /\ branch'.files["config"] # "absent"
    BY <1>1, <1>2, <2>1, WrittenIsDeployable
  <2>. QED BY <1>1, <1>2, <2>2 DEF ConfigFirst
<1>3. CASE Throws /\ UNCHANGED branch
  BY <1>1, <1>3 DEF ConfigFirst, Throws
<1>4. CASE UNCHANGED branch /\ (branch = NoBranch \/ client.access = "read")
  BY <1>1, <1>4 DEF ConfigFirst
<1>. QED BY <1>2, <1>3, <1>4 DEF StageFile

(* A merge takes the config from where it takes the workflow, or from where *)
(* there is one as well.                                                    *)
LEMMA FirstMerge == ASSUME TypeOK, ConfigFirst, Merge PROVE ConfigFirst'
<1>1. branch # NoBranch /\ main \in Tree /\ branch.files \in Tree /\ branch.base \in Tree
  BY DEF TypeOK, Merge
<1>2. main' \in Tree /\ main'["config"] = Merged("config") /\ main'["workflow"] = Merged("workflow")
  BY <1>1 DEF Merge, Merged, Tree, Paths
<1>3. /\ Deployable(main) /\ Deployable(branch.files)
      /\ branch.base["config"] # "absent" =>
           main["config"] # "absent" /\ branch.files["config"] # "absent"
  BY <1>1 DEF ConfigFirst
<1>4. Deployable(main') /\ (main["config"] # "absent" \/ branch.files["config"] # "absent" =>
                              main'["config"] # "absent")
  <2>1. CASE main["config"] = branch.base["config"]
    BY <1>2, <1>3, <2>1 DEF Merged, Deployable
  <2>2. CASE main["config"] # branch.base["config"]
    BY <1>2, <1>3, <2>2 DEF Merged, Deployable
  <2>. QED BY <2>1, <2>2
<1>5. pending' # NoRun => pending'.config # "absent"
  BY <1>2, <1>4, QueuedHasConfig DEF Merge, ConfigFirst
<1>6. branch' # NoBranch => branch' = [files |-> branch.files, base |-> branch.files]
  BY DEF Merge
<1>7. /\ UNCHANGED <<client, mode, step, at>>
      /\ (main["config"] # "absent" => main'["config"] # "absent")
      /\ (branch.files["config"] # "absent" => main'["config"] # "absent")
  BY <1>4 DEF Merge, tool
<1>. QED BY <1>1, <1>3, <1>4, <1>5, <1>6, <1>7 DEF ConfigFirst

LEMMA FirstOthers ==
  ASSUME TypeOK, ConfigFirst,
         \/ \E m \in Modes : Start(m)
         \/ CheckPrerequisites \/ CreateBranch \/ ReadFile \/ OpenPull \/ SetSecret \/ Dispatch
         \/ Unreached \/ RunDeployment \/ (\E n \in Given : SetOwnSecret(n)) \/ UNCHANGED vars
  PROVE  ConfigFirst'
<1>1. CASE (\E m \in Modes : Start(m)) \/ CheckPrerequisites \/ Unreached
  <2>1. at' = 1 /\ UNCHANGED <<client, main, branch, pending>>
    BY <1>1 DEF Start, CheckPrerequisites, Unreached, Goes, Lost, repository
  <2>. QED BY <2>1 DEF ConfigFirst
<1>2. CASE CreateBranch
  <2>1. at' = 1 /\ UNCHANGED <<client, main, pending>>
        /\ (branch' = branch \/ branch' = [files |-> main, base |-> main])
    BY <1>2 DEF CreateBranch, Goes, Lost
  <2>. QED BY <2>1 DEF ConfigFirst
<1>3. CASE ReadFile
  <2>1. at' = at /\ UNCHANGED <<client, main, branch, pending, mode>>
    BY <1>3 DEF ReadFile, Goes, repository
  <2>. QED BY <1>3, <2>1 DEF ConfigFirst, ReadFile
<1>4. CASE OpenPull \/ SetSecret
  <2>1. step' \notin {"read", "write"} /\ UNCHANGED <<client, main, branch, pending>>
    BY <1>4 DEF OpenPull, SetSecret, AfterSecrets, Goes, Lost, Throws
  <2>. QED BY <2>1 DEF ConfigFirst
<1>5. CASE Dispatch
  <2>1. step' = "done" /\ UNCHANGED <<client, main, branch>> /\ pending' = Queued(main)
    BY <1>5 DEF Dispatch, Goes, Lost
  <2>2. pending' # NoRun => pending'.config # "absent"
    BY <2>1, QueuedHasConfig DEF ConfigFirst, TypeOK
  <2>. QED BY <2>1, <2>2 DEF ConfigFirst
<1>6. CASE RunDeployment
  BY <1>6 DEF RunDeployment, ConfigFirst, tool
<1>7. CASE (\E n \in Given : SetOwnSecret(n)) \/ UNCHANGED vars
  BY <1>7 DEF SetOwnSecret, ConfigFirst, vars
<1>. QED BY <1>1, <1>2, <1>3, <1>4, <1>5, <1>6, <1>7

LEMMA FirstEdit == ASSUME TypeOK, ConfigFirst, NEW p \in Paths, Edit(p) PROVE ConfigFirst'
<1>1. main \in Tree /\ main' = [main EXCEPT ![p] = "edited"] /\ main[p] = "ours"
      /\ UNCHANGED <<client, branch, step, at, mode>> /\ pending' = Queued(main')
  BY DEF Edit, TypeOK
<1>2. /\ main' \in Tree /\ Deployable(main')
      /\ main["config"] # "absent" => main'["config"] # "absent"
  BY <1>1 DEF ConfigFirst, Tree, Content, Paths, Deployable
<1>3. pending' # NoRun => pending'.config # "absent"
  BY <1>1, <1>2, QueuedHasConfig DEF ConfigFirst
<1>. QED BY <1>1, <1>2, <1>3 DEF ConfigFirst

LEMMA FirstStep == FirstInv /\ [Next]_vars => FirstInv'
BY TypeStep, FirstWrite, FirstStage, FirstMerge, FirstOthers, FirstEdit DEF FirstInv, Next, Call

(* The order of the files (onboard.mjs:363-366): wherever calls break off,  *)
(* whatever the client edits or merges, no deployment is queued without its *)
(* config, so that one that fails lacks a secret. The client has not had a  *)
(* workflow without a config to begin with.                                 *)
THEOREM DeploymentsFindTheirConfig ==
  Spec /\ Deployable(main) =>
    /\ [](pending # NoRun => pending.config # "absent")
    /\ [][site' # site /\ site' = "failed" => ~(Given \subseteq pending.secrets)]_vars
<1>1. Init /\ Deployable(main) => FirstInv
  BY TypeInit DEF Init, FirstInv, ConfigFirst
<1>2. FirstInv => (pending # NoRun => pending.config # "absent")
  BY DEF FirstInv, ConfigFirst
<1>3. FirstInv /\ [Next]_vars =>
        [site' # site /\ site' = "failed" => ~(Given \subseteq pending.secrets)]_vars
  <2>. SUFFICES ASSUME FirstInv, [Next]_vars, site' # site, site' = "failed"
                PROVE  ~(Given \subseteq pending.secrets)
    OBVIOUS
  <2>1. RunDeployment
    BY DEF Next, vars, Start, Call, CheckPrerequisites, CreateBranch, ReadFile, WriteFile,
       StageFile, OpenPull, SetSecret, Dispatch, Unreached, Merge, Edit, SetOwnSecret, repository
  <2>. QED BY <2>1 DEF RunDeployment, FirstInv, ConfigFirst
<1>. QED BY <1>1, <1>2, <1>3, FirstStep, PTL DEF Spec
==============================================================================
