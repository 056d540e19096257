--------------------------- MODULE StaticSiteProofs ---------------------------
(****************************************************************************)
(* Theorems about StaticSite, for any groups, sites and numbers of commits, *)
(* files and lost runs.                                                     *)
(****************************************************************************)
EXTENDS StaticSite, TLAPS

LEMMA OutputsTyped ==
  ASSUME NEW g \in Groups, NEW c \in 1..Commits
  PROVE  Outputs(g, c) \subseteq [Paths -> Versions]
<1>1. \A files : Output(c, files) \in [Paths -> Versions] /\ Nothing \in [Paths -> Versions]
  BY DEF Output, Nothing, Versions
<1>2. \A dir \in [Paths -> Versions] :
        WithIndex(dir) \in [Paths -> Versions] /\ WithContent(dir) \in [Paths -> Versions]
  BY SitesAssumption DEF WithIndex, WithContent, Versions
<1>3. QED BY <1>1, <1>2 DEF Outputs

LEMMA TransferredPaths ==
  ASSUME NEW g, NEW c, NEW dir PROVE Transferred(g, c, dir) \subseteq Paths
BY DEF Transferred
------------------------------------------------------------------------------
(* Type correctness.                                                        *)

Runs == [status : {"idle", "running", "ok", "failed"}, plan : {"deploy", "rollback"},
         commit : 0..Commits, mode : Modes,
         step : {"checkout", "build", "upload", "verify"},
         dir : [Paths -> Versions], todo : SUBSET Paths]

Proper(g) ==
  IF run[g].plan = "deploy" THEN run[g].commit \in 1..head ELSE run[g].step = "checkout"
DeploysPushed == \A g \in Groups : Running(g) => Proper(g)

\* What a step does that touches the run of g only.
Touches(g) ==
  /\ run' \in [Groups -> Runs]
  /\ \A h \in Groups : h # g => run'[h] = run[h]
  /\ run'[g].plan = run[g].plan

LEMMA RunTyped ==
  ASSUME TypeOK, NEW g \in Groups, Touches(g), UNCHANGED <<head, pending>>,
         faults' \in 0..MaxFaults, site' \in [Roots -> [Paths -> Versions]],
         Running(g)' => Proper(g)'
  PROVE  TypeOK'
<1>1. DeploysPushed'
  BY DEF Touches, TypeOK, DeploysPushed, Running, Proper
<1>2. QED BY <1>1 DEF Touches, TypeOK, Runs, DeploysPushed, Proper, Pushed, Rollbacks, ToRollBack

LEMMA FailTouches ==
  ASSUME TypeOK, NEW g \in Groups, Fail(g)
  PROVE  Touches(g) /\ run'[g].status = "failed" /\ ~Running(g)'
<1>1. run[g] \in Runs
  BY DEF TypeOK, Runs
<1>2. [run[g] EXCEPT !.status = "failed"] \in Runs
  BY <1>1 DEF Runs
<1>3. run' = [run EXCEPT ![g] = [run[g] EXCEPT !.status = "failed"]]
  BY DEF Fail
<1>4. QED BY <1>1, <1>2, <1>3 DEF Touches, TypeOK, Runs, Running

LEMMA BuildTouches ==
  ASSUME TypeOK, NEW g \in Groups, At(g, "build"), NEW dir \in [Paths -> Versions],
         run' = [run EXCEPT ![g].step = "upload", ![g].dir = dir,
                            ![g].todo = Transferred(g, run[g].commit, dir)]
  PROVE  /\ Touches(g)
         /\ run'[g] = [run[g] EXCEPT !.step = "upload", !.dir = dir,
                                     !.todo = Transferred(g, run[g].commit, dir)]
<1>1. run[g] \in Runs
  BY DEF TypeOK, Runs
<1>2. [run[g] EXCEPT !.step = "upload", !.dir = dir, !.todo = Transferred(g, run[g].commit, dir)] \in Runs
  BY <1>1, TransferredPaths DEF Runs
<1>3. run' = [run EXCEPT ![g] = [run[g] EXCEPT !.step = "upload", !.dir = dir,
                                              !.todo = Transferred(g, run[g].commit, dir)]]
  OBVIOUS
<1>4. QED BY <1>1, <1>2, <1>3 DEF Touches, TypeOK, Runs

LEMMA InitTyped == Init => TypeOK
BY SitesAssumption, GroupsAssumption DEF Init, TypeOK, Nothing, Versions, Running, Modes

LEMMA NextTyped == TypeOK /\ [Next]_vars => TypeOK'
<1> SUFFICES ASSUME TypeOK, [Next]_vars PROVE TypeOK'
  OBVIOUS
<1>1. CASE Push
  <2>1. head' \in 0..Commits /\ head' \in 1..head' /\ 1..head \subseteq 1..head'
    BY <1>1, SitesAssumption DEF Push, TypeOK
  <2>2. pending' \in [Groups -> {NoRequest} \cup Pushed' \cup Rollbacks']
    BY <1>1, <2>1 DEF Push, TypeOK, Pushed, Rollbacks, ToRollBack, Deploy, PushMode, Modes
  <2>3. DeploysPushed'
    BY <1>1, <2>1 DEF Push, TypeOK, DeploysPushed, Running, Proper
  <2>4. QED BY <1>1, <2>1, <2>2, <2>3 DEF Push, TypeOK, DeploysPushed, Proper, Pushed, Rollbacks, ToRollBack
<1>2. ASSUME NEW g \in Groups, NEW mode \in Modes, Dispatch(g, mode) PROVE TypeOK'
  <2>1. Deploy(head, mode) \in Pushed
    BY <1>2 DEF Dispatch, TypeOK, Pushed, Deploy
  <2>2. QED BY <1>2, <2>1 DEF Dispatch, TypeOK, Pushed, Rollbacks, ToRollBack, Running
<1>3. ASSUME NEW g \in Groups, RequestRollback(g) PROVE TypeOK'
  BY <1>3 DEF RequestRollback, TypeOK, Pushed, Rollbacks, ToRollBack, Running, Modes
<1>4. ASSUME NEW g \in Groups, Start(g) PROVE TypeOK'
  <2>1. pending[g] \in Pushed \cup Rollbacks
    BY <1>4 DEF Start, TypeOK
  <2>2. /\ pending[g].plan \in {"deploy", "rollback"}
        /\ pending[g].commit \in 0..Commits
        /\ pending[g].mode \in Modes
    BY <2>1, SitesAssumption DEF Pushed, Rollbacks, ToRollBack, TypeOK, Modes
  <2>3. run' \in [Groups -> Runs]
    BY <1>4, <2>2 DEF Start, TypeOK, Nothing, Versions, Runs
  <2>4. pending[g].plan = "deploy" => pending[g].commit \in 1..head
    BY <2>1 DEF Pushed, Rollbacks, ToRollBack
  <2>5. DeploysPushed'
    BY <1>4, <2>4 DEF Start, TypeOK, DeploysPushed, Running, Proper
  <2>6. QED BY <1>4, <2>3, <2>5 DEF Start, TypeOK, DeploysPushed, Proper, Pushed, Rollbacks, ToRollBack, Runs
<1>5. ASSUME NEW g \in Groups, Step(g) PROVE TypeOK'
  <2>0. faults \in 0..MaxFaults /\ site \in [Roots -> [Paths -> Versions]] /\ run[g] \in Runs
    BY DEF TypeOK, Runs
  <2>1. CASE Rollback(g)
    BY <2>0, <2>1, FailTouches, RunTyped DEF Rollback
  <2>2. CASE Checkout(g)
    <3>1. run[g].commit \in 1..head /\ head \in 1..head /\ 1..head \subseteq 0..Commits
      BY <2>2, SitesAssumption DEF Checkout, At, TypeOK
    <3>2. Touches(g) /\ Proper(g)'
      BY <2>0, <2>2, <3>1 DEF Checkout, TypeOK, Touches, Runs, Proper, At
    <3>3. QED BY <2>0, <2>2, <3>2, RunTyped DEF Checkout
  <2>3. CASE Build(g)
    <3>1. CASE Fail(g)
      BY <2>0, <2>3, <3>1, FailTouches, RunTyped DEF Build
    <3>2. ASSUME NEW dir \in Outputs(g, run[g].commit),
                 run' = [run EXCEPT ![g].step = "upload", ![g].dir = dir,
                                    ![g].todo = Transferred(g, run[g].commit, dir)]
          PROVE  TypeOK'
      <4>0. run[g].plan = "deploy" /\ run[g].commit \in 1..head
        BY <2>3 DEF Build, At, TypeOK
      <4>1. run[g].commit \in 1..Commits
        BY <4>0, SitesAssumption DEF TypeOK
      <4>2. dir \in [Paths -> Versions]
        BY <3>2, <4>1, OutputsTyped
      <4>3. Touches(g) /\ Proper(g)'
        BY <2>0, <2>3, <3>2, <4>0, <4>2, BuildTouches DEF Build, Runs, Proper, At, TypeOK
      <4>4. QED BY <2>0, <2>3, <4>3, RunTyped DEF Build
    <3>3. QED BY <2>3, <3>1, <3>2 DEF Build
  <2>4. CASE Mirror(g)
    <3>1. PICK p \in run[g].todo :
            /\ site' = [site EXCEPT ![Root(g)][p] = run[g].dir[p]]
            /\ run' = [run EXCEPT ![g].todo = @ \ {p}]
      BY <2>4 DEF Mirror
    <3>2. p \in Paths /\ run[g].dir[p] \in Versions /\ Root(g) \in Roots
      BY <2>0, <3>1 DEF Runs, Roots
    <3>3. site' \in [Roots -> [Paths -> Versions]]
      BY <2>0, <3>1, <3>2
    <3>4. Touches(g) /\ Proper(g)'
      BY <2>0, <2>4, <3>1 DEF Mirror, TypeOK, Touches, Runs, Proper, At
    <3>5. QED BY <2>0, <2>4, <3>3, <3>4, RunTyped DEF Mirror
  <2>5. CASE Mirrored(g)
    <3>1. Touches(g) /\ Proper(g)'
      BY <2>0, <2>5 DEF Mirrored, TypeOK, Touches, Runs, Proper, At
    <3>2. QED BY <2>0, <2>5, <3>1, RunTyped DEF Mirrored
  <2>6. CASE Verify(g)
    <3>1. CASE Fail(g)
      BY <2>0, <2>6, <3>1, FailTouches, RunTyped DEF Verify
    <3>2. CASE run' = [run EXCEPT ![g].status = "ok"]
      <4>1. Touches(g) /\ ~Running(g)'
        BY <2>0, <3>2 DEF TypeOK, Touches, Runs, Running
      <4>2. QED BY <2>0, <2>6, <4>1, RunTyped DEF Verify
    <3>3. QED BY <2>6, <3>1, <3>2 DEF Verify
  <2>7. CASE PrintPlan(g)
    <3>1. Touches(g) /\ ~Running(g)'
      BY <2>0, <2>7 DEF PrintPlan, TypeOK, Touches, Runs, Running
    <3>2. QED BY <2>0, <2>7, <3>1, RunTyped DEF PrintPlan
  <2>8. CASE UploadRefused(g)
    BY <2>0, <2>8, FailTouches, RunTyped DEF UploadRefused
  <2>9. QED BY <1>5, <2>1, <2>2, <2>3, <2>4, <2>5, <2>6, <2>7, <2>8 DEF Step
<1>6. ASSUME NEW g \in Groups, Lost(g) PROVE TypeOK'
  <2>1. faults' \in 0..MaxFaults /\ site' \in [Roots -> [Paths -> Versions]]
    BY <1>6, GroupsAssumption DEF Lost, TypeOK
  <2>2. QED BY <1>6, <2>1, FailTouches, RunTyped DEF Lost
<1>7. CASE UNCHANGED vars
  BY <1>7 DEF vars, TypeOK, Running, Pushed, Rollbacks, ToRollBack
<1>8. QED BY <1>1, <1>2, <1>3, <1>4, <1>5, <1>6, <1>7 DEF Next

(* Type correctness; in particular every deployment is of a commit that was *)
(* pushed before (TypeOK), also in Model B, which clones the branch late.   *)
THEOREM TypeCorrect == Spec => []TypeOK
<1>1. Init => TypeOK
  BY InitTyped
<1>2. TypeOK /\ [Next]_vars => TypeOK'
  BY NextTyped
<1>3. QED BY <1>1, <1>2, PTL DEF Spec
------------------------------------------------------------------------------
(* What a mirror leaves, and which commit it is.                            *)

\* No two runs that are under way mirror into one webroot.
RunsApart == \A g, h \in Groups : Running(g) /\ Running(h) /\ Root(g) = Root(h) => g = h
\* No two groups have one webroot.
OwnRoots == \A g, h \in Groups : Root(g) = Root(h) => g = h
Deletes == \A g \in Groups, c \in 1..Commits : Transfer[g][c] # "scp"

\* Every path of the run's transfer has been mirrored.
Whole(g) == \A p \in Transferred(g, run[g].commit, run[g].dir) : site[Root(g)][p] = run[g].dir[p]

\* What has been mirrored so far is the build's, all of it when the mirror has ended.
Delivered(g) ==
  /\ At(g, "upload") => \A p \in Transferred(g, run[g].commit, run[g].dir) \ run[g].todo :
                            site[Root(g)][p] = run[g].dir[p]
  /\ At(g, "verify") => run[g].mode = "execute" /\ Whole(g)

\* The directory is a build of the run's commit.
Genuine(g) ==
  /\ At(g, "upload") \/ At(g, "verify") \/ run[g].status = "ok"
       => run[g].dir \in Outputs(g, run[g].commit)
  /\ run[g].status = "ok" => run[g].plan = "deploy"

\* A push starts g: what waits is the head, and so is the run when nothing waits.
Current(g) ==
  g \in OnPush =>
    /\ pending[g] \in Pushed => pending[g].commit = head
    /\ pending[g] = NoRequest /\ run[g].plan = "deploy" /\ run[g].status \in {"running", "ok"}
         => run[g].commit = head /\ head > 0

Inv(g) == Delivered(g) /\ Genuine(g) /\ Current(g)
IInv == TypeOK /\ \A g \in Groups : Inv(g)

LEMMA Untouched ==
  ASSUME NEW h \in Groups, Inv(h), run'[h] = run[h],
         Running(h) => site'[Root(h)] = site[Root(h)],
         pending'[h] = pending[h], head' = head
  PROVE  Inv(h)'
BY DEF Inv, Delivered, Whole, Genuine, Current, At, Running, Pushed

\* It is enough to look at the group whose run makes the step.
LEMMA OnlyOne ==
  ASSUME IInv, NEW g \in Groups, UNCHANGED <<head, pending>>,
         \A h \in Groups \ {g} :
           run'[h] = run[h] /\ (Running(h) => site'[Root(h)] = site[Root(h)]),
         Inv(g)'
  PROVE  \A h \in Groups : Inv(h)'
BY Untouched DEF IInv

LEMMA FailedInv ==
  ASSUME IInv, NEW g \in Groups, Fail(g), UNCHANGED <<head, site, pending>>
  PROVE  \A h \in Groups : Inv(h)'
<1>1. Touches(g) /\ run'[g].status = "failed"
  BY FailTouches DEF IInv
<1>2. Inv(g)'
  BY <1>1 DEF Inv, Delivered, Whole, Genuine, Current, At, Running, IInv, Pushed
<1>3. QED BY <1>1, <1>2, OnlyOne DEF Touches

LEMMA InitInv == Init => \A g \in Groups : Inv(g)
<1> SUFFICES ASSUME Init, NEW g \in Groups PROVE Inv(g)
  OBVIOUS
<1>1. run[g].status = "idle" /\ pending[g] = NoRequest
  BY DEF Init
<1>2. NoRequest \notin Pushed
  BY RequestAssumption, SitesAssumption DEF Init, Pushed
<1>3. QED BY <1>1, <1>2 DEF Inv, Delivered, Whole, Genuine, Current, At, Running

LEMMA NextInv ==
  ASSUME RunsApart, IInv, [Next]_vars PROVE \A g \in Groups : Inv(g)'
<1> USE DEF IInv
<1>1. CASE Push
  <2> SUFFICES ASSUME NEW h \in Groups PROVE Inv(h)'
    OBVIOUS
  <2>1. Delivered(h)' /\ Genuine(h)'
    BY <1>1 DEF Push, Inv, Delivered, Whole, Genuine, At, Running
  <2>2. Current(h)'
    <3>1. CASE h \in OnPush
      <4>1. /\ pending'[h] = Deploy(head', PushMode(h)) /\ head' \in 0..Commits
            /\ pending'[h] # NoRequest
        BY <1>1, <3>1, RequestAssumption, SitesAssumption
           DEF Push, TypeOK, Deploy, PushMode, Modes
      <4>2. QED BY <4>1 DEF Current, Deploy, Pushed
    <3>2. QED BY <3>1 DEF Current
  <2>3. QED BY <2>1, <2>2 DEF Inv
<1>2. ASSUME NEW g \in Groups, NEW mode \in Modes, Dispatch(g, mode)
      PROVE  \A h \in Groups : Inv(h)'
  <2>1. pending'[g] = Deploy(head, mode) /\ pending'[g] # NoRequest
    BY <1>2, RequestAssumption DEF Dispatch, TypeOK, Deploy
  <2>2. Inv(g)'
    BY <1>2, <2>1 DEF Dispatch, Inv, Delivered, Whole, Genuine, Current, At, Running, Deploy
  <2>3. QED BY <1>2, <2>2, Untouched DEF Dispatch, TypeOK
<1>3. ASSUME NEW g \in Groups, RequestRollback(g) PROVE \A h \in Groups : Inv(h)'
  <2>1. /\ pending'[g] = [plan |-> "rollback", commit |-> 0, mode |-> "dry_run"]
        /\ pending'[g] # NoRequest
    BY <1>3, RequestAssumption, SitesAssumption DEF RequestRollback, ToRollBack, TypeOK, Modes
  <2>2. Inv(g)'
    BY <1>3, <2>1 DEF RequestRollback, ToRollBack, Inv, Delivered, Whole, Genuine, Current, At, Running, Pushed
  <2>3. QED BY <1>3, <2>2, Untouched DEF RequestRollback, ToRollBack, TypeOK, Modes
<1>4. ASSUME NEW g \in Groups, Start(g) PROVE \A h \in Groups : Inv(h)'
  <2>1. /\ run'[g] = [status |-> "running", plan |-> pending[g].plan,
                     commit |-> pending[g].commit, mode |-> pending[g].mode,
                     step |-> "checkout", dir |-> Nothing, todo |-> {}]
        /\ pending'[g] = NoRequest
        /\ pending[g] \in Pushed \cup Rollbacks
    BY <1>4 DEF Start, TypeOK
  <2>2. Delivered(g)' /\ Genuine(g)'
    BY <2>1 DEF Delivered, Whole, Genuine, At, Running
  <2>3. CASE pending[g] \in Pushed
    <3>1. pending[g].commit \in 1..head
      BY <2>3 DEF Pushed
    <3>2. g \in OnPush => run'[g].commit = head' /\ head' > 0
      BY <1>4, <2>1, <2>3, <3>1 DEF Start, Inv, Current, TypeOK
    <3>3. NoRequest \notin Pushed'
      BY <1>4, RequestAssumption, SitesAssumption DEF Start, Pushed, TypeOK
    <3>4. QED BY <2>1, <2>2, <3>2, <3>3, <1>4, Untouched DEF Start, Inv, Current, TypeOK
  <2>4. CASE pending[g] \in Rollbacks
    <3>1. run'[g].plan = "rollback"
      BY <2>1, <2>4 DEF Rollbacks, ToRollBack
    <3>2. NoRequest \notin Pushed'
      BY <1>4, RequestAssumption, SitesAssumption DEF Start, Pushed, TypeOK
    <3>3. QED BY <2>1, <2>2, <3>1, <3>2, <1>4, Untouched DEF Start, Inv, Current, TypeOK
  <2>5. QED BY <2>1, <2>3, <2>4
<1>5. ASSUME NEW g \in Groups, Step(g) PROVE \A h \in Groups : Inv(h)'
  <2>0. run[g] \in Runs /\ run \in [Groups -> Runs] /\ Inv(g)
    BY DEF TypeOK, Runs
  <2>1. CASE Rollback(g)
    BY <2>1, FailedInv DEF Rollback
  <2>2. CASE Checkout(g)
    <3>1. run' = [run EXCEPT ![g] = [run[g] EXCEPT !.step = "build",
                   !.commit = IF Workflow[g] = "registry" THEN head ELSE @]]
      BY <2>2 DEF Checkout
    <3>2. run[g].commit \in 1..head
      BY <2>2 DEF Checkout, At, TypeOK
    <3>3. Delivered(g)' /\ Genuine(g)'
      BY <2>0, <2>2, <3>1 DEF Checkout, Delivered, Whole, Genuine, At, Running, Runs
    <3>4. Current(g)'
      BY <2>0, <2>2, <3>1, <3>2 DEF Checkout, Inv, Current, At, Running, Runs, TypeOK, Pushed
    <3>5. QED BY <2>0, <2>2, <3>1, <3>3, <3>4, OnlyOne DEF Checkout, Inv
  <2>3. CASE Build(g)
    <3>1. CASE Fail(g)
      BY <2>3, <3>1, FailedInv DEF Build
    <3>2. ASSUME NEW dir \in Outputs(g, run[g].commit),
                 run' = [run EXCEPT ![g].step = "upload", ![g].dir = dir,
                                    ![g].todo = Transferred(g, run[g].commit, dir)]
          PROVE  \A h \in Groups : Inv(h)'
      <4>0. run[g].commit \in 1..head
        BY <2>3 DEF Build, At, TypeOK
      <4>1. run[g].commit \in 1..Commits
        BY <4>0, SitesAssumption DEF TypeOK
      <4>2. dir \in [Paths -> Versions]
        BY <4>1, <3>2, OutputsTyped
      <4>3. /\ Touches(g)
            /\ run'[g] = [run[g] EXCEPT !.step = "upload", !.dir = dir,
                                        !.todo = Transferred(g, run[g].commit, dir)]
        BY <2>3, <3>2, <4>2, BuildTouches DEF Build
      <4>4. run'[g].todo = Transferred(g, run'[g].commit, run'[g].dir)
        BY <2>0, <4>3 DEF Runs
      <4>5. Delivered(g)' /\ Genuine(g)'
        BY <2>0, <2>3, <3>2, <4>3, <4>4 DEF Build, Delivered, Whole, Genuine, At, Running, Runs
      <4>6. Current(g)'
        BY <2>0, <2>3, <4>3 DEF Build, Inv, Current, At, Running, Runs, Pushed
      <4>7. QED BY <2>3, <4>3, <4>5, <4>6, OnlyOne DEF Build, Inv, Touches
    <3>3. QED BY <2>3, <3>1, <3>2 DEF Build
  <2>4. CASE Mirror(g)
    <3>1. PICK p \in run[g].todo :
            /\ site' = [site EXCEPT ![Root(g)][p] = run[g].dir[p]]
            /\ run' = [run EXCEPT ![g].todo = @ \ {p}]
      BY <2>4 DEF Mirror
    <3>2. run' = [run EXCEPT ![g] = [run[g] EXCEPT !.todo = @ \ {p}]] /\ Root(g) \in Roots
      BY <3>1 DEF Roots
    <3>3. \A h \in Groups \ {g} :
            run'[h] = run[h] /\ (Running(h) => site'[Root(h)] = site[Root(h)])
      BY <2>0, <2>4, <3>1, <3>2 DEF RunsApart, Mirror, At, TypeOK, Roots
    <3>4. /\ site'[Root(g)][p] = run[g].dir[p]
          /\ \A q \in Paths : q # p => site'[Root(g)][q] = site[Root(g)][q]
      BY <2>0, <3>1, <3>2 DEF TypeOK, Runs
    <3>5. Delivered(g)' /\ Genuine(g)'
      BY <2>0, <2>4, <3>2, <3>4 DEF Mirror, Inv, Delivered, Whole, Genuine, At, Running, Runs
    <3>6. Current(g)'
      BY <2>0, <2>4, <3>2 DEF Mirror, Inv, Current, At, Running, Runs, Pushed
    <3>7. QED BY <2>4, <3>3, <3>5, <3>6, OnlyOne DEF Mirror, Inv
  <2>5. CASE Mirrored(g)
    <3>1. Whole(g)
      BY <2>0, <2>5 DEF Mirrored, Inv, Delivered, Whole
    <3>2. run' = [run EXCEPT ![g] = [run[g] EXCEPT !.step = "verify"]]
      BY <2>5 DEF Mirrored
    <3>3. run[g].plan = "deploy" /\ run[g].dir \in Outputs(g, run[g].commit)
      BY <2>0, <2>5 DEF Mirrored, Inv, Genuine, At, TypeOK
    <3>4. Delivered(g)' /\ Genuine(g)'
      BY <2>0, <2>5, <3>1, <3>2, <3>3 DEF Mirrored, Delivered, Whole, Genuine, At, Running, Runs
    <3>5. Current(g)'
      BY <2>0, <2>5, <3>2 DEF Mirrored, Inv, Current, At, Running, Runs, Pushed
    <3>6. QED BY <2>0, <2>5, <3>2, <3>4, <3>5, OnlyOne DEF Mirrored, Inv
  <2>6. CASE Verify(g)
    <3>1. CASE Fail(g)
      BY <2>6, <3>1, FailedInv DEF Verify
    <3>2. CASE run' = [run EXCEPT ![g].status = "ok"]
      <4>1. run' = [run EXCEPT ![g] = [run[g] EXCEPT !.status = "ok"]]
        BY <3>2
      <4>2. run[g].plan = "deploy"
        BY <2>6 DEF Verify, At, TypeOK
      <4>3. Delivered(g)' /\ Genuine(g)'
        BY <2>0, <2>6, <4>1, <4>2 DEF Verify, Inv, Delivered, Whole, Genuine, At, Running, Runs
      <4>4. Current(g)'
        BY <2>0, <2>6, <4>1 DEF Verify, Inv, Current, At, Running, Runs, Pushed
      <4>5. QED BY <2>0, <2>6, <4>1, <4>3, <4>4, OnlyOne DEF Verify, Inv
    <3>3. QED BY <2>6, <3>1, <3>2 DEF Verify
  <2>7. CASE PrintPlan(g)
    <3>1. run' = [run EXCEPT ![g] = [run[g] EXCEPT !.status = "ok"]]
      BY <2>7 DEF PrintPlan
    <3>2. run[g].plan = "deploy"
      BY <2>7 DEF PrintPlan, At, TypeOK
    <3>3. Delivered(g)' /\ Genuine(g)'
      BY <2>0, <2>7, <3>1, <3>2 DEF PrintPlan, Inv, Delivered, Whole, Genuine, At, Running, Runs
    <3>4. Current(g)'
      BY <2>0, <2>7, <3>1 DEF PrintPlan, Inv, Current, At, Running, Runs, Pushed
    <3>5. QED BY <2>0, <2>7, <3>1, <3>3, <3>4, OnlyOne DEF PrintPlan, Inv
  <2>8. CASE UploadRefused(g)
    BY <2>8, FailedInv DEF UploadRefused
  <2>9. QED BY <1>5, <2>1, <2>2, <2>3, <2>4, <2>5, <2>6, <2>7, <2>8 DEF Step
<1>6. ASSUME NEW g \in Groups, Lost(g) PROVE \A h \in Groups : Inv(h)'
  BY <1>6, FailedInv DEF Lost
<1>7. CASE UNCHANGED vars
  BY <1>7, Untouched DEF vars
<1>8. QED BY <1>1, <1>2, <1>3, <1>4, <1>5, <1>6, <1>7 DEF Next

(* What waits for a group that pushes start is the head, and a webroot has  *)
(* what its run has mirrored: the invariant of the proofs.                  *)
LEMMA Invariant == Spec /\ []RunsApart => []IInv
<1>1. Init => IInv
  BY InitTyped, InitInv DEF IInv
<1>2. RunsApart /\ IInv /\ [Next]_vars => IInv'
  BY NextTyped, NextInv DEF IInv
<1>3. QED BY <1>1, <1>2, PTL DEF Spec

\* A run that really publishes ends after its mirror, and its end changes no file.
LEMMA EndsWhole ==
  ASSUME IInv, Next, NEW g \in Groups,
         Running(g), run'[g].status = "ok", run'[g].mode = "execute"
  PROVE  /\ Whole(g) /\ run[g].commit \in 1..Commits
         /\ site' = site /\ run'[g].dir = run[g].dir /\ run'[g].commit = run[g].commit
<1>0. run \in [Groups -> Runs] /\ run[g] \in Runs /\ run[g].status = "running"
  BY DEF IInv, TypeOK, Runs, Running
<1>1. CASE Push
  BY <1>0, <1>1 DEF Push
<1>2. ASSUME NEW h \in Groups, NEW mode \in Modes, Dispatch(h, mode) PROVE FALSE
  BY <1>0, <1>2 DEF Dispatch
<1>3. ASSUME NEW h \in Groups, RequestRollback(h) \/ Start(h) \/ Lost(h) PROVE FALSE
  <2>1. CASE RequestRollback(h)
    BY <1>0, <2>1 DEF RequestRollback
  <2>2. CASE Start(h)
    BY <1>0, <2>2 DEF Start, Running
  <2>3. CASE Lost(h)
    BY <1>0, <2>3 DEF Lost, Fail, Runs
  <2>4. QED BY <1>3, <2>1, <2>2, <2>3
<1>4. ASSUME NEW h \in Groups, Rollback(h) \/ Checkout(h) \/ UploadRefused(h) \/ Mirror(h)
               \/ Mirrored(h)
      PROVE  FALSE
  <2>1. CASE Rollback(h)
    BY <1>0, <2>1 DEF Rollback, Fail, Runs
  <2>2. CASE Checkout(h)
    <3>1. PICK c : run' = [run EXCEPT ![h] = [run[h] EXCEPT !.step = "build", !.commit = c]]
      BY <2>2 DEF Checkout
    <3>2. run'[g].status = run[g].status
      BY <1>0, <3>1 DEF Runs
    <3>3. QED BY <1>0, <3>2
  <2>3. CASE Mirror(h)
    BY <1>0, <2>3 DEF Mirror, Runs
  <2>4. CASE UploadRefused(h)
    BY <1>0, <2>4 DEF UploadRefused, Fail, Runs
  <2>5. CASE Mirrored(h)
    <3>1. run' = [run EXCEPT ![h] = [run[h] EXCEPT !.step = "verify"]]
      BY <2>5 DEF Mirrored
    <3>2. QED BY <1>0, <3>1 DEF Runs
  <2>6. QED BY <1>4, <2>1, <2>2, <2>3, <2>4, <2>5
<1>5. ASSUME NEW h \in Groups, Build(h) PROVE FALSE
  <2>1. CASE Fail(h)
    BY <1>0, <2>1 DEF Fail, Runs
  <2>2. ASSUME NEW dir, NEW todo,
               run' = [run EXCEPT ![h] = [run[h] EXCEPT !.step = "upload", !.dir = dir,
                                                        !.todo = todo]]
        PROVE  FALSE
    BY <1>0, <2>2 DEF Runs
  <2>3. Fail(h) \/ \E dir :
          run' = [run EXCEPT ![h] = [run[h] EXCEPT !.step = "upload", !.dir = dir,
                                                   !.todo = Transferred(h, run[h].commit, dir)]]
    BY <1>5 DEF Build
  <2>4. QED BY <2>1, <2>2, <2>3
<1>6. ASSUME NEW h \in Groups, PrintPlan(h) PROVE FALSE
  <2>1. run' = [run EXCEPT ![h] = [run[h] EXCEPT !.status = "ok"]] /\ run[h].mode = "dry_run"
    BY <1>6 DEF PrintPlan
  <2>2. QED BY <1>0, <2>1 DEF Runs
<1>7. ASSUME NEW h \in Groups, Verify(h)
      PROVE  /\ Whole(g) /\ run[g].commit \in 1..Commits
             /\ site' = site /\ run'[g].dir = run[g].dir /\ run'[g].commit = run[g].commit
  <2>1. PICK status \in {"ok", "failed"} :
          run' = [run EXCEPT ![h] = [run[h] EXCEPT !.status = status]]
    BY <1>7 DEF Verify, Fail
  <2>2. h = g /\ run'[g].dir = run[g].dir /\ run'[g].commit = run[g].commit
    BY <1>0, <2>1 DEF Runs
  <2>3. Whole(g)
    BY <1>7, <2>2 DEF Verify, IInv, Inv, Delivered
  <2>4. run[g].commit \in 1..Commits
    <3>1. run[g].step = "verify" /\ head \in 0..Commits
      BY <1>7, <2>2 DEF Verify, At, IInv, TypeOK
    <3>2. run[g].commit \in 1..head
      BY <3>1 DEF IInv, TypeOK
    <3>3. QED BY <3>1, <3>2, SitesAssumption
  <2>5. QED BY <1>7, <2>2, <2>3, <2>4 DEF Verify
<1>8. QED BY <1>1, <1>2, <1>3, <1>4, <1>5, <1>6, <1>7 DEF Next, Step

\* A step at which a run that really publishes succeeds leaves the whole of its build.
BuildDelivered ==
  [][\A g \in Groups : Running(g) /\ run'[g].status = "ok" /\ run'[g].mode = "execute"
       => \A p \in Paths : run[g].dir[p] # Missing
                             => site'[Root(g)][p] = run[g].dir[p]]_vars

(* Whatever the transfer, scp included, a run that succeeds has delivered   *)
(* every file of its build as it was built (executor.mjs:177-199),          *)
(* however many runs into the webroot were cut short before, provided that  *)
(* no two runs mirror into one webroot at a time.                           *)
THEOREM MirrorsDeliver == Spec /\ []RunsApart => BuildDelivered
<1>1. IInv /\ [Next]_vars
        => [\A g \in Groups : Running(g) /\ run'[g].status = "ok" /\ run'[g].mode = "execute"
              => \A p \in Paths : run[g].dir[p] # Missing
                                    => site'[Root(g)][p] = run[g].dir[p]]_vars
  BY EndsWhole DEF Whole, Transferred
<1>2. QED BY <1>1, Invariant, PTL DEF Spec, BuildDelivered

(* With transfers that delete, a successful run leaves exactly what it      *)
(* built (FinishedRunIsExact), whatever was cut short before and whoever    *)
(* else publishes into the webroot at other times.                          *)
THEOREM MirrorsExact ==
  ASSUME Deletes PROVE Spec /\ []RunsApart => FinishedRunIsExact
<1> DEFINE Ends(g) == Running(g) /\ run'[g].status = "ok" /\ run'[g].mode = "execute"
                        => site'[Root(g)] = run[g].dir
<1>1. IInv /\ [Next]_vars => [\A g \in Groups : Ends(g)]_vars
  <2> SUFFICES ASSUME IInv, Next, NEW g \in Groups,
                      Running(g), run'[g].status = "ok", run'[g].mode = "execute"
               PROVE  site'[Root(g)] = run[g].dir
    BY DEF vars
  <2>1. Whole(g) /\ run[g].commit \in 1..Commits /\ site' = site
    BY EndsWhole
  <2>2. \A p \in Paths : site[Root(g)][p] = run[g].dir[p]
    BY <2>1 DEF Whole, Transferred, Deletes
  <2>3. site[Root(g)] \in [Paths -> Versions] /\ run[g].dir \in [Paths -> Versions]
    BY DEF IInv, TypeOK, Roots
  <2>4. QED BY <2>1, <2>2, <2>3
<1>2. QED BY <1>1, Invariant, PTL DEF Spec, FinishedRunIsExact
------------------------------------------------------------------------------
(* At rest, where every group has a webroot of its own.                     *)

\* A webroot keeps what the group's last successful run delivered.
Kept == \A g \in Groups : run[g].status = "ok" /\ run[g].mode = "execute" => Whole(g)

LEMMA KeptStays ==
  ASSUME OwnRoots, IInv, Kept, [Next]_vars PROVE Kept'
<1> SUFFICES ASSUME NEW g \in Groups, run'[g].status = "ok", run'[g].mode = "execute"
             PROVE  Whole(g)'
  BY DEF Kept
<1>0. run \in [Groups -> Runs] /\ run[g] \in Runs
  BY DEF IInv, TypeOK, Runs
<1>1. CASE UNCHANGED vars
  BY <1>1 DEF vars, Kept, Whole
<1>2. ASSUME Next, Running(g) PROVE Whole(g)'
  BY <1>2, EndsWhole DEF Whole
<1>3. ASSUME Next, ~Running(g), run'[g] = run[g], site'[Root(g)] = site[Root(g)]
      PROVE  Whole(g)'
  BY <1>3 DEF Kept, Whole
<1>4. ASSUME Next, ~Running(g) PROVE run'[g] = run[g] /\ site'[Root(g)] = site[Root(g)]
  <2>1. CASE Push
    BY <2>1 DEF Push
  <2>2. ASSUME NEW h \in Groups, NEW mode \in Modes, Dispatch(h, mode) \/ RequestRollback(h)
        PROVE  run'[g] = run[g] /\ site'[Root(g)] = site[Root(g)]
    BY <2>2 DEF Dispatch, RequestRollback
  <2>3. ASSUME NEW h \in Groups, Start(h)
        PROVE  run'[g] = run[g] /\ site'[Root(g)] = site[Root(g)]
    BY <1>0, <2>3 DEF Start
  <2>4. ASSUME NEW h \in Groups, Mirror(h)
        PROVE  run'[g] = run[g] /\ site'[Root(g)] = site[Root(g)]
    <3>1. h # g /\ Root(h) # Root(g)
      BY <1>4, <2>4 DEF Mirror, At, OwnRoots
    <3>2. run'[g] = run[g]
      BY <1>0, <2>4, <3>1 DEF Mirror
    <3>3. site'[Root(g)] = site[Root(g)]
      BY <2>4, <3>1 DEF Mirror, IInv, TypeOK, Roots
    <3>4. QED BY <3>2, <3>3
  <2>5. ASSUME NEW h \in Groups,
               Rollback(h) \/ Checkout(h) \/ Build(h) \/ PrintPlan(h) \/ UploadRefused(h)
                 \/ Mirrored(h) \/ Verify(h) \/ Lost(h)
        PROVE  run'[g] = run[g] /\ site'[Root(g)] = site[Root(g)]
    <3>1. h # g /\ site' = site
      BY <1>4, <2>5 DEF Rollback, Checkout, Build, PrintPlan, UploadRefused, Mirrored, Verify, Lost, At
    <3>2. run'[g] = run[g]
      BY <1>0, <2>5, <3>1
         DEF Rollback, Checkout, Build, PrintPlan, UploadRefused, Mirrored, Verify, Lost, Fail
    <3>3. QED BY <3>1, <3>2
  <2>6. QED BY <1>4, <2>1, <2>2, <2>3, <2>4, <2>5 DEF Next, Step, Modes
<1>5. QED BY <1>1, <1>2, <1>3, <1>4

LEMMA KeptInvariant ==
  ASSUME OwnRoots PROVE Spec => [](IInv /\ Kept)
<1>1. Init => Kept
  BY DEF Init, Kept
<1>2. RunsApart
  BY DEF OwnRoots, RunsApart
<1>3. IInv /\ [Next]_vars => IInv'
  BY <1>2, NextTyped, NextInv DEF IInv
<1>4. Init => IInv
  BY InitTyped, InitInv DEF IInv
<1>5. IInv /\ Kept /\ [Next]_vars => Kept'
  BY KeptStays
<1>6. QED BY <1>1, <1>3, <1>4, <1>5, PTL DEF Spec

\* At rest after a success the last commit's build is in the webroot, at least.
HeadServed ==
  \A g \in OnPush :
    run[g].status = "ok" /\ run[g].mode = "execute" /\ pending[g] = NoRequest
      => /\ head > 0
         /\ \E dir \in Outputs(g, head) :
              \A p \in Paths : dir[p] # Missing => site[Root(g)][p] = dir[p]

(* After a success and with nothing waiting, every file of the last         *)
(* commit's build is in the webroot, whatever the transfer: scp may leave   *)
(* files of earlier builds, never an old one in place of a new one.         *)
THEOREM HeadServedAtRest ==
  ASSUME OwnRoots PROVE Spec => []HeadServed
<1>1. IInv /\ Kept => HeadServed
  BY GroupsAssumption
     DEF IInv, Inv, Kept, Whole, Transferred, Genuine, Current, HeadServed
<1>2. QED BY <1>1, KeptInvariant, PTL

(* With transfers that delete it is exactly the last commit's build         *)
(* (RestMeansHead).                                                         *)
THEOREM HeadAtRest ==
  ASSUME OwnRoots, Deletes PROVE Spec => []RestMeansHead
<1>1. IInv /\ Kept => RestMeansHead
  <2> SUFFICES ASSUME IInv, Kept, NEW g \in OnPush, run[g].status = "ok",
                      run[g].mode = "execute", pending[g] = NoRequest
               PROVE  Published(g)
    BY DEF RestMeansHead
  <2>1. g \in Groups
    BY GroupsAssumption
  <2>2. run[g].commit \in 1..Commits
    BY <2>1, SitesAssumption DEF IInv, Inv, Genuine, Current, TypeOK
  <2>3. \A p \in Paths : site[Root(g)][p] = run[g].dir[p]
    BY <2>1, <2>2 DEF Kept, Whole, Transferred, Deletes
  <2>4. site[Root(g)] \in [Paths -> Versions] /\ run[g].dir \in [Paths -> Versions]
    BY <2>1 DEF IInv, TypeOK, Roots
  <2>5. site[Root(g)] = run[g].dir
    BY <2>3, <2>4
  <2>6. QED BY <2>1, <2>5 DEF IInv, Inv, Genuine, Current, Published
<1>2. QED BY <1>1, KeptInvariant, PTL
==============================================================================
