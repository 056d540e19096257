--------------------------- MODULE BlueGreenProofs ---------------------------
(****************************************************************************)
(* Theorems about BlueGreen, for every list of services, every set of       *)
(* images and any number of runners and of lost commands.                   *)
(****************************************************************************)
EXTENDS BlueGreen, TLAPS

LEMMA ColorFacts ==
  ASSUME TypeOK
  PROVE  /\ Active \in Colors /\ Target \in Colors /\ Old \in Colors
         /\ Target # Active /\ Old = Active
         /\ \A r \in Runners : ColorOf(r) \in Colors
BY DEF TypeOK, Active, Target, Old, ColorOf, Colors, Absent
------------------------------------------------------------------------------
(* Type correctness.                                                        *)

Runs == [Runners -> [status : {"idle", "running", "ok", "failed"},
                     plan : {"deploy", "rollback"}, step : Steps,
                     image : Images \cup {NoImage}]]

\* What the end of a command does to the run and to the fault counter.
LEMMA StopTyped ==
  ASSUME TypeOK, NEW r \in Runners, Stop(r)
  PROVE  run' \in Runs
BY DEF TypeOK, Stop, Runs

LEMMA FaultTyped ==
  ASSUME TypeOK, Fault
  PROVE  faults' \in 0..MaxFaults
BY ModeAssumption DEF TypeOK, Fault

LEMMA ExitTyped ==
  ASSUME TypeOK, NEW r \in Runners, NEW step \in Steps, Exit(r, step)
  PROVE  run' \in Runs /\ faults' \in 0..MaxFaults
BY StopTyped, FaultTyped DEF TypeOK, Exit, Continue, Runs

LEMMA FinishTyped ==
  ASSUME TypeOK, NEW r \in Runners, Finish(r)
  PROVE  run' \in Runs /\ faults' \in 0..MaxFaults
BY StopTyped, FaultTyped DEF TypeOK, Finish, Runs

LEMMA InitTyped == Init => TypeOK
<1> SUFFICES ASSUME Init PROVE TypeOK
  OBVIOUS
<1>1. conf \in [ServiceSet -> Colors \cup {Absent}] /\ loaded = conf
  BY DEF Init, NoSite
<1>2. /\ file \in [Colors -> Images \cup {NoImage}]
      /\ up \in [Colors -> Images \cup {NoImage}]
  BY DEF Init
<1>3. run \in Runs
  BY DEF Init, Runs, Steps
<1>4. faults \in 0..MaxFaults
  BY ModeAssumption DEF Init
<1>5. QED BY <1>1, <1>2, <1>3, <1>4 DEF Init, TypeOK, Runs

LEMMA NextTyped == TypeOK /\ [Next]_vars => TypeOK'
<1> SUFFICES ASSUME TypeOK, [Next]_vars PROVE TypeOK'
  OBVIOUS
<1> USE StopTyped, FaultTyped, ExitTyped, FinishTyped, ColorFacts
    DEF Runs, nginx, containers
<1>1. ASSUME NEW q \in Requests, Request(q) PROVE TypeOK'
  BY <1>1 DEF Request, TypeOK
<1>2. ASSUME NEW r \in Runners, StartPending(r) PROVE TypeOK'
  BY <1>2 DEF StartPending, TypeOK, Begin, Requests, Steps
<1>3. ASSUME NEW r \in Runners, NEW q \in Requests, StartNow(r, q) PROVE TypeOK'
  BY <1>3 DEF StartNow, TypeOK, Begin, Requests, Steps
<1>4. ASSUME NEW r \in Runners, DetermineActive(r) PROVE TypeOK'
  BY <1>4 DEF DetermineActive, TypeOK, Steps, Colors
<1>5. ASSUME NEW r \in Runners, WriteComposeBlue(r) PROVE TypeOK'
  BY <1>5 DEF WriteComposeBlue, TypeOK, WriteCompose, At, Running, Steps, Colors
<1>6. ASSUME NEW r \in Runners, WriteComposeGreen(r) PROVE TypeOK'
  BY <1>6 DEF WriteComposeGreen, TypeOK, WriteCompose, At, Running, Steps, Colors
<1>7. ASSUME NEW r \in Runners, ComposePullTarget(r) PROVE TypeOK'
  BY <1>7 DEF ComposePullTarget, TypeOK, Steps, Colors
<1>8. ASSUME NEW r \in Runners, ComposeUpTarget(r) PROVE TypeOK'
  BY <1>8 DEF ComposeUpTarget, TypeOK, Steps, Colors
<1>9. ASSUME NEW r \in Runners, Migrate(r) PROVE TypeOK'
  BY <1>9 DEF Migrate, TypeOK, Steps, Colors
<1>10. ASSUME NEW r \in Runners, HealthCheckTarget(r) PROVE TypeOK'
  BY <1>10 DEF HealthCheckTarget, TypeOK, Steps, Colors
<1>11. ASSUME NEW r \in Runners, BootstrapNginx(r) PROVE TypeOK'
  <2>1. conf' \in [ServiceSet -> Colors \cup {Absent}]
    BY <1>11 DEF BootstrapNginx, TypeOK
  <2>2. loaded' \in [ServiceSet -> Colors \cup {Absent}]
    BY <1>11, <2>1 DEF BootstrapNginx, TypeOK
  <2>3. enabled' \in BOOLEAN /\ cert' \in BOOLEAN
    BY <1>11, ModeAssumption DEF BootstrapNginx, TypeOK
  <2>4. run' \in Runs /\ faults' \in 0..MaxFaults
    <3>1. "switch_ports" \in Steps
      BY DEF Steps
    <3>2. CASE Fault /\ run' = [run EXCEPT ![r].step = "switch_ports"]
      BY <3>1, <3>2 DEF TypeOK
    <3>3. CASE Fault /\ Stop(r)
      BY <3>3
    <3>4. CASE Exit(r, "switch_ports")
      BY <3>1, <3>4
    <3>5. QED BY <1>11, <3>2, <3>3, <3>4 DEF BootstrapNginx
  <2>5. QED BY <1>11, <2>1, <2>2, <2>3, <2>4 DEF BootstrapNginx, TypeOK
<1>12. ASSUME NEW r \in Runners, SwitchPorts(r) PROVE TypeOK'
  BY <1>12 DEF SwitchPorts, TypeOK, Steps, Colors
<1>13. ASSUME NEW r \in Runners, NginxReload(r) PROVE TypeOK'
  BY <1>13 DEF NginxReload, TypeOK, Steps, Colors
<1>14. ASSUME NEW r \in Runners, WriteActiveMarker(r) PROVE TypeOK'
  BY <1>14 DEF WriteActiveMarker, TypeOK, Steps, Colors
<1>15. ASSUME NEW r \in Runners, VerifyLive(r) PROVE TypeOK'
  BY <1>15 DEF VerifyLive, TypeOK, Steps, Colors
<1>16. ASSUME NEW r \in Runners, ComposeDownOld(r) PROVE TypeOK'
  BY <1>16 DEF ComposeDownOld, TypeOK, Steps, Colors
<1>17. ASSUME NEW r \in Runners, ComposeUpOld(r) PROVE TypeOK'
  BY <1>17 DEF ComposeUpOld, TypeOK, Steps, Colors
<1>18. ASSUME NEW r \in Runners, CommandLost(r) PROVE TypeOK'
  BY <1>18 DEF CommandLost, TypeOK
<1>19. ASSUME NEW r \in Runners, UpCutShort(r) PROVE TypeOK'
  BY <1>19 DEF UpCutShort, TypeOK
<1>20. ASSUME NEW r \in Runners, BootstrapCutShort(r) PROVE TypeOK'
  BY <1>20 DEF BootstrapCutShort, TypeOK
<1>21. ASSUME NEW r \in Runners, SwitchCutShort(r) PROVE TypeOK'
  BY <1>21 DEF SwitchCutShort, TypeOK
<1>22. CASE ReloadElsewhere
  BY <1>22 DEF ReloadElsewhere, TypeOK
<1>23. CASE UNCHANGED vars
  BY <1>23 DEF vars, TypeOK
<1>24. QED
  BY <1>1, <1>2, <1>3, <1>4, <1>5, <1>6, <1>7, <1>8, <1>9, <1>10, <1>11,
     <1>12, <1>13, <1>14, <1>15, <1>16, <1>17, <1>18, <1>19, <1>20, <1>21,
     <1>22, <1>23 DEF Next, Command, CutShort

(* Marker, conf, routes, compose files, containers and runs stay within     *)
(* their types; in particular the marker is only ever a colour: TypeOK.     *)
THEOREM TypeCorrect == Spec => []TypeOK
<1>1. Init => TypeOK
  BY InitTyped
<1>2. TypeOK /\ [Next]_vars => TypeOK'
  BY NextTyped
<1>3. QED BY <1>1, <1>2, PTL DEF Spec
------------------------------------------------------------------------------
(* When runs do not overlap. The concurrency group sees to it; without one  *)
(* it depends on when the workflows are dispatched.                         *)

OneAtATime == ~Grouped => \A r, o \in Runners : Running(r) /\ Running(o) => r = o

\* No run was lost between switch_ports and nginx_reload: a reload by somebody else, at
\* another time, loads what nginx has loaded already.
SiteLoaded ==
  SharedNginx /\ enabled /\ (\A r \in Runners : ~At(r, "nginx_reload")) => loaded = conf

(* Deployments. The invariant follows a run from the health check to the    *)
(* marker: what was found ready is still ready, because no other run can    *)
(* touch it and because the marker, read again by every command, has not    *)
(* changed in between.                                                      *)

Deploying ==
  /\ \A r, o \in Runners : Running(r) /\ Running(o) => r = o
  /\ pending # NoRequest => pending.plan = "deploy"
  /\ \A r \in Runners :
       Running(r) => run[r].plan = "deploy" /\ run[r].step # "compose_up_old"

Checked ==
  \A r \in Runners :
    /\ At(r, "health_check_target") => up[Target] \in migrated
    /\ \A step \in {"bootstrap_nginx_if_missing", "switch_ports", "nginx_reload",
                    "write_active_marker"} : At(r, step) => Ready(Target)
    /\ At(r, "nginx_reload") => conf = [s \in ServiceSet |-> Target]
    /\ At(r, "write_active_marker") => \A s \in ServiceSet : loaded[s] \in {Absent, Target}

Served ==
  /\ ~enabled => loaded = NoSite
  /\ \A s \in ServiceSet : loaded[s] = Active /\ up[Active] # NoImage => Ready(Active)

IInv == TypeOK /\ Deploying /\ Checked /\ Served

\* After this step of r only r can be running, and it is at `step`.
Leads(r, step) ==
  \A o \in Runners : run'[o].status = "running" =>
    o = r /\ run'[o].step = step /\ run'[o].plan = "deploy"

LEMMA StopLeads ==
  ASSUME TypeOK, Deploying, NEW r \in Runners, Running(r), Stop(r), NEW step
  PROVE  Leads(r, step)
BY DEF TypeOK, Deploying, Running, Stop, Leads

LEMMA StepLeads ==
  ASSUME TypeOK, Deploying, NEW r \in Runners, Running(r), NEW step,
         run' = [run EXCEPT ![r].step = step]
  PROVE  Leads(r, step)
BY DEF TypeOK, Deploying, Running, Leads

LEMMA ExitLeads ==
  ASSUME TypeOK, Deploying, NEW r \in Runners, Running(r), NEW step, Exit(r, step)
  PROVE  Leads(r, step)
BY StopLeads, StepLeads DEF Exit, Continue

LEMMA FinishLeads ==
  ASSUME TypeOK, Deploying, NEW r \in Runners, Running(r), Finish(r), NEW step
  PROVE  Leads(r, step)
<1>1. CASE run' = [run EXCEPT ![r].status = "ok"]
  BY <1>1 DEF TypeOK, Deploying, Running, Leads
<1>2. QED BY <1>1, StopLeads DEF Finish

LEMMA LeadsDeploying ==
  ASSUME Deploying, NEW r \in Runners, NEW step, Leads(r, step),
         step # "compose_up_old", UNCHANGED pending
  PROVE  Deploying'
BY DEF Deploying, Leads, Running

LEMMA SameColors ==
  ASSUME UNCHANGED marker
  PROVE  Active' = Active /\ Target' = Target
BY DEF Active, Target

\* Served survives when the routes, the marker, the containers and what has been
\* migrated only change away from the live colour.
LEMMA ServedKept ==
  ASSUME TypeOK, Served, UNCHANGED <<marker, loaded, enabled>>,
         up'[Active] \in {up[Active], NoImage}, migrated \subseteq migrated'
  PROVE  Served'
BY SameColors DEF Served, Ready, Answering

LEMMA InitInv == Init => IInv
BY InitTyped DEF Init, IInv, Deploying, Checked, Served, Running, At, NoSite, Active, Absent

LEMMA NextInv ==
  ASSUME IInv, [Next]_vars, OneAtATime, OneAtATime', SiteLoaded, Plans = {"deploy"}
  PROVE  IInv'
<1> USE SameColors, ColorFacts DEF nginx, containers
<1>0. TypeOK /\ Deploying /\ Checked /\ Served /\ TypeOK'
  BY NextTyped DEF IInv
<1>1. ASSUME NEW q \in Requests, Request(q) PROVE IInv'
  <2>1. Deploying'
    BY <1>0, <1>1 DEF Request, Requests, Deploying, Running
  <2>2. Checked' /\ Served'
    BY <1>0, <1>1 DEF Request, Checked, Served, At, Running, Ready, Answering
  <2>3. QED BY <1>0, <2>1, <2>2 DEF IInv
<1>2. ASSUME NEW r \in Runners, StartPending(r) PROVE IInv'
  <2>1. pending.plan = "deploy"
    BY <1>0, <1>2 DEF StartPending, Deploying
  <2>2. Leads(r, "determine_active")
    BY <1>0, <1>2, <2>1 DEF StartPending, Begin, Leads, Running, TypeOK
  <2>3. Deploying'
    BY <1>2, <2>2 DEF StartPending, Deploying, Leads, Running
  <2>4. Checked'
    BY <2>2 DEF Checked, Leads, At, Running
  <2>5. Served'
    BY <1>0, <1>2, ServedKept DEF StartPending
  <2>6. QED BY <1>0, <2>3, <2>4, <2>5 DEF IInv
<1>3. ASSUME NEW r \in Runners, NEW q \in Requests, StartNow(r, q) PROVE IInv'
  <2>1. /\ run'[r].status = "running" /\ run'[r].plan = "deploy"
        /\ run'[r].step = "determine_active"
    BY <1>0, <1>3 DEF StartNow, Begin, TypeOK, Requests
  <2>2. Leads(r, "determine_active")
    BY <1>3, <2>1 DEF StartNow, OneAtATime, Running, Leads
  <2>3. Deploying'
    BY <1>0, <1>3, <2>2, LeadsDeploying DEF StartNow
  <2>4. Checked'
    BY <2>2 DEF Checked, Leads, At, Running
  <2>5. Served'
    BY <1>0, <1>3, ServedKept DEF StartNow, TypeOK
  <2>6. QED BY <1>0, <2>3, <2>4, <2>5 DEF IInv
<1>4. ASSUME NEW r \in Runners, DetermineActive(r) PROVE IInv'
  <2>1. Leads(r, "write_compose_blue")
    BY <1>0, <1>4, ExitLeads DEF DetermineActive, At, Deploying
  <2>2. Deploying'
    BY <1>0, <1>4, <2>1, LeadsDeploying DEF DetermineActive
  <2>3. Checked'
    BY <2>1 DEF Checked, Leads, At, Running
  <2>4. Served'
    BY <1>0, <1>4, ServedKept DEF DetermineActive, TypeOK
  <2>5. QED BY <1>0, <2>2, <2>3, <2>4 DEF IInv
<1>5. ASSUME NEW r \in Runners, WriteComposeBlue(r) PROVE IInv'
  <2>1. Leads(r, "write_compose_green")
    BY <1>0, <1>5, ExitLeads DEF WriteComposeBlue, WriteCompose, At
  <2>2. Deploying'
    BY <1>0, <1>5, <2>1, LeadsDeploying DEF WriteComposeBlue, WriteCompose
  <2>3. Checked'
    BY <2>1 DEF Checked, Leads, At, Running
  <2>4. Served'
    BY <1>0, <1>5, ServedKept DEF WriteComposeBlue, WriteCompose, TypeOK
  <2>5. QED BY <1>0, <2>2, <2>3, <2>4 DEF IInv
<1>6. ASSUME NEW r \in Runners, WriteComposeGreen(r) PROVE IInv'
  <2>1. Leads(r, "compose_pull_target")
    BY <1>0, <1>6, ExitLeads DEF WriteComposeGreen, WriteCompose, At
  <2>2. Deploying'
    BY <1>0, <1>6, <2>1, LeadsDeploying DEF WriteComposeGreen, WriteCompose
  <2>3. Checked'
    BY <2>1 DEF Checked, Leads, At, Running
  <2>4. Served'
    BY <1>0, <1>6, ServedKept DEF WriteComposeGreen, WriteCompose, TypeOK
  <2>5. QED BY <1>0, <2>2, <2>3, <2>4 DEF IInv
<1>7. ASSUME NEW r \in Runners, ComposePullTarget(r) PROVE IInv'
  <2>1. Leads(r, "compose_up_target")
    BY <1>0, <1>7, ExitLeads DEF ComposePullTarget, At
  <2>2. Deploying'
    BY <1>0, <1>7, <2>1, LeadsDeploying DEF ComposePullTarget
  <2>3. Checked'
    BY <2>1 DEF Checked, Leads, At, Running
  <2>4. Served'
    BY <1>0, <1>7, ServedKept DEF ComposePullTarget, TypeOK
  <2>5. QED BY <1>0, <2>2, <2>3, <2>4 DEF IInv
<1>8. ASSUME NEW r \in Runners, ComposeUpTarget(r) PROVE IInv'
  <2>1. Leads(r, "migrate")
    BY <1>0, <1>8, ExitLeads DEF ComposeUpTarget, At
  <2>2. Deploying'
    BY <1>0, <1>8, <2>1, LeadsDeploying DEF ComposeUpTarget
  <2>3. Checked'
    BY <2>1 DEF Checked, Leads, At, Running
  <2>4. Served'
    BY <1>0, <1>8, ServedKept DEF ComposeUpTarget, TypeOK
  <2>5. QED BY <1>0, <2>2, <2>3, <2>4 DEF IInv
<1>9. ASSUME NEW r \in Runners, Migrate(r) PROVE IInv'
  <2>1. Leads(r, "health_check_target")
    BY <1>0, <1>9, ExitLeads, StopLeads DEF Migrate, At
  <2>2. Deploying'
    BY <1>0, <1>9, <2>1, LeadsDeploying DEF Migrate
  <2>3. Checked'
    <3>1. CASE up[Target] = NoImage
      <4>1. Leads(r, "verify_live")
        BY <1>0, <1>9, <3>1, StopLeads DEF Migrate, At
      <4>2. QED BY <4>1 DEF Checked, Leads, At, Running
    <3>2. CASE up[Target] # NoImage
      <4>1. (up[Target] \in migrated)'
        BY <1>9, <3>2 DEF Migrate
      <4>2. QED BY <2>1, <4>1 DEF Checked, Leads, At, Running
    <3>3. QED BY <3>1, <3>2
  <2>4. Served'
    BY <1>0, <1>9, ServedKept DEF Migrate, TypeOK
  <2>5. QED BY <1>0, <2>2, <2>3, <2>4 DEF IInv
<1>10. ASSUME NEW r \in Runners, HealthCheckTarget(r) PROVE IInv'
  <2>1. Leads(r, "bootstrap_nginx_if_missing")
    BY <1>0, <1>10, ExitLeads, StopLeads DEF HealthCheckTarget, At
  <2>2. Deploying'
    BY <1>0, <1>10, <2>1, LeadsDeploying DEF HealthCheckTarget
  <2>3. Checked'
    <3>1. CASE Answering(Target, Decisive)
      <4>1. Ready(Target)'
        BY <1>0, <1>10, <3>1 DEF HealthCheckTarget, Checked, Ready, Answering
      <4>2. QED BY <2>1, <4>1 DEF Checked, Leads, At, Running
    <3>2. CASE ~Answering(Target, Decisive)
      <4>1. Leads(r, "verify_live")
        BY <1>0, <1>10, <3>2, StopLeads DEF HealthCheckTarget, At
      <4>2. QED BY <4>1 DEF Checked, Leads, At, Running
    <3>3. QED BY <3>1, <3>2
  <2>4. Served'
    BY <1>0, <1>10, ServedKept DEF HealthCheckTarget, TypeOK
  <2>5. QED BY <1>0, <2>2, <2>3, <2>4 DEF IInv
<1>11. ASSUME NEW r \in Runners, BootstrapNginx(r) PROVE IInv'
  <2>1. Leads(r, "switch_ports")
    BY <1>0, <1>11, ExitLeads, StopLeads, StepLeads DEF BootstrapNginx, At
  <2>2. Deploying'
    BY <1>0, <1>11, <2>1, LeadsDeploying DEF BootstrapNginx
  <2>3. Checked'
    BY <1>0, <1>11, <2>1 DEF BootstrapNginx, Checked, Leads, At, Running, Ready, Answering
  <2>4. Served'
    <3>1. UNCHANGED <<marker, up, migrated>>
      BY <1>11 DEF BootstrapNginx
    <3>2. ~enabled' => loaded' = NoSite
      BY <1>0, <1>11 DEF BootstrapNginx, Served
    <3>3. \A s \in ServiceSet : loaded'[s] = loaded[s] \/ loaded'[s] = Target
      BY <1>0, <1>11 DEF BootstrapNginx
    <3>4. QED BY <1>0, <3>1, <3>2, <3>3 DEF Served, Ready, Answering
  <2>5. QED BY <1>0, <2>2, <2>3, <2>4 DEF IInv
<1>12. ASSUME NEW r \in Runners, SwitchPorts(r) PROVE IInv'
  <2>1. Leads(r, "nginx_reload")
    BY <1>0, <1>12, ExitLeads, StopLeads DEF SwitchPorts, At
  <2>2. Deploying'
    BY <1>0, <1>12, <2>1, LeadsDeploying DEF SwitchPorts
  <2>3. Checked'
    <3>1. Ready(Target) /\ UNCHANGED <<marker, up, migrated>>
      BY <1>0, <1>12 DEF SwitchPorts, Checked
    <3>2. ColorOf(r) = Target
      BY <1>0, <1>12 DEF SwitchPorts, At, Deploying, ColorOf
    <3>3. At(r, "nginx_reload")' => conf' = [s \in ServiceSet |-> Target]
      BY <1>0, <1>12, <3>2 DEF SwitchPorts, At, Running, Stop, TypeOK
    <3>4. QED BY <2>1, <3>1, <3>3 DEF Checked, Leads, At, Running, Ready, Answering
  <2>4. Served'
    BY <1>0, <1>12, ServedKept DEF SwitchPorts
  <2>5. QED BY <1>0, <2>2, <2>3, <2>4 DEF IInv
<1>13. ASSUME NEW r \in Runners, NginxReload(r) PROVE IInv'
  <2>1. Leads(r, "write_active_marker")
    BY <1>0, <1>13, ExitLeads DEF NginxReload, At
  <2>2. Deploying'
    BY <1>0, <1>13, <2>1, LeadsDeploying DEF NginxReload
  <2>3. UNCHANGED <<marker, enabled, up, migrated>>
    BY <1>13 DEF NginxReload
  <2>4. IF enabled THEN loaded' = [s \in ServiceSet |-> Target] ELSE loaded' = loaded
    BY <1>0, <1>13 DEF NginxReload, Checked
  <2>5. Checked'
    <3>1. Ready(Target)
      BY <1>0, <1>13 DEF NginxReload, Checked
    <3>2. \A s \in ServiceSet : loaded'[s] \in {Absent, Target}
      BY <1>0, <2>4 DEF Served, NoSite
    <3>3. QED BY <2>1, <2>3, <3>1, <3>2 DEF Checked, Leads, At, Running, Ready, Answering
  <2>6. Served'
    BY <1>0, <2>3, <2>4 DEF Served, Ready, Answering
  <2>7. QED BY <1>0, <2>2, <2>5, <2>6 DEF IInv
<1>14. ASSUME NEW r \in Runners, WriteActiveMarker(r) PROVE IInv'
  <2>1. Leads(r, "verify_live")
    BY <1>0, <1>14, ExitLeads DEF WriteActiveMarker, At
  <2>2. Deploying'
    BY <1>0, <1>14, <2>1, LeadsDeploying DEF WriteActiveMarker
  <2>3. Checked'
    BY <2>1 DEF Checked, Leads, At, Running
  <2>4. Served'
    <3>1. Ready(Target) /\ ColorOf(r) = Target
      BY <1>0, <1>14 DEF WriteActiveMarker, Checked, At, Deploying, ColorOf
    <3>2. Active' = Target
      BY <1>0, <1>14, <3>1 DEF WriteActiveMarker, Active, Colors, Absent
    <3>3. UNCHANGED <<loaded, enabled, up, migrated>>
      BY <1>14 DEF WriteActiveMarker
    <3>4. Ready(Active)'
      BY <3>1, <3>2, <3>3 DEF Ready, Answering
    <3>5. QED BY <1>0, <3>3, <3>4 DEF Served
  <2>5. QED BY <1>0, <2>2, <2>3, <2>4 DEF IInv
<1>15. ASSUME NEW r \in Runners, VerifyLive(r) PROVE IInv'
  <2>1. Leads(r, "compose_down_old")
    BY <1>0, <1>15, ExitLeads, StopLeads DEF VerifyLive, At, Deploying
  <2>2. Deploying'
    BY <1>0, <1>15, <2>1, LeadsDeploying DEF VerifyLive
  <2>3. Checked'
    BY <2>1 DEF Checked, Leads, At, Running
  <2>4. Served'
    BY <1>0, <1>15, ServedKept DEF VerifyLive, TypeOK
  <2>5. QED BY <1>0, <2>2, <2>3, <2>4 DEF IInv
<1>16. ASSUME NEW r \in Runners, ComposeDownOld(r) PROVE IInv'
  <2>1. Leads(r, "verify_live")
    BY <1>0, <1>16, FinishLeads DEF ComposeDownOld, At
  <2>2. Deploying'
    BY <1>0, <1>16, <2>1, LeadsDeploying DEF ComposeDownOld
  <2>3. Checked'
    BY <2>1 DEF Checked, Leads, At, Running
  <2>4. Served'
    BY <1>0, <1>16, ServedKept DEF ComposeDownOld, TypeOK
  <2>5. QED BY <1>0, <2>2, <2>3, <2>4 DEF IInv
<1>17. ASSUME NEW r \in Runners, ComposeUpOld(r) PROVE IInv'
  BY <1>0, <1>17 DEF ComposeUpOld, At, Deploying
<1>18. ASSUME NEW r \in Runners, CommandLost(r) PROVE IInv'
  <2>1. Leads(r, "verify_live")
    BY <1>0, <1>18, StopLeads DEF CommandLost, At
  <2>2. Deploying'
    BY <1>0, <1>18, <2>1, LeadsDeploying DEF CommandLost
  <2>3. Checked'
    BY <2>1 DEF Checked, Leads, At, Running
  <2>4. Served'
    BY <1>0, <1>18, ServedKept DEF CommandLost
  <2>5. QED BY <1>0, <2>2, <2>3, <2>4 DEF IInv
<1>19. ASSUME NEW r \in Runners, UpCutShort(r) PROVE IInv'
  <2>1. Leads(r, "verify_live")
    BY <1>0, <1>19, StopLeads DEF UpCutShort, At
  <2>2. Deploying'
    BY <1>0, <1>19, <2>1, LeadsDeploying DEF UpCutShort
  <2>3. Checked'
    BY <2>1 DEF Checked, Leads, At, Running
  <2>4. Served'
    <3>1. ~At(r, "compose_up_old")
      BY <1>0 DEF At, Deploying
    <3>2. QED BY <1>0, <1>19, <3>1, ServedKept DEF UpCutShort, TypeOK
  <2>5. QED BY <1>0, <2>2, <2>3, <2>4 DEF IInv
<1>20. ASSUME NEW r \in Runners, BootstrapCutShort(r) PROVE IInv'
  <2>1. Leads(r, "verify_live")
    BY <1>0, <1>20, StopLeads DEF BootstrapCutShort, At
  <2>2. Deploying'
    BY <1>0, <1>20, <2>1, LeadsDeploying DEF BootstrapCutShort
  <2>3. Checked'
    BY <2>1 DEF Checked, Leads, At, Running
  <2>4. Served'
    BY <1>0, <1>20, ServedKept DEF BootstrapCutShort
  <2>5. QED BY <1>0, <2>2, <2>3, <2>4 DEF IInv
<1>21. ASSUME NEW r \in Runners, SwitchCutShort(r) PROVE IInv'
  <2>1. Leads(r, "verify_live")
    BY <1>0, <1>21, StopLeads DEF SwitchCutShort, At
  <2>2. Deploying'
    BY <1>0, <1>21, <2>1, LeadsDeploying DEF SwitchCutShort
  <2>3. Checked'
    BY <2>1 DEF Checked, Leads, At, Running
  <2>4. Served'
    BY <1>0, <1>21, ServedKept DEF SwitchCutShort
  <2>5. QED BY <1>0, <2>2, <2>3, <2>4 DEF IInv
<1>22. CASE ReloadElsewhere
  <2>1. /\ UNCHANGED <<marker, conf, enabled, up, migrated, run, pending>>
        /\ enabled /\ loaded' = conf
    BY <1>22 DEF ReloadElsewhere
  <2>2. loaded' = loaded \/ (loaded' = [s \in ServiceSet |-> Target] /\ Ready(Target))
    BY <1>0, <1>22, <2>1 DEF ReloadElsewhere, SiteLoaded, Checked
  <2>3. Deploying'
    BY <1>0, <2>1 DEF Deploying, Running
  <2>4. Checked'
    <3>1. \A s \in ServiceSet : loaded'[s] \in {loaded[s], Target}
      BY <2>2
    <3>2. QED BY <1>0, <2>1, <3>1 DEF Checked, At, Running, Ready, Answering
  <2>5. Served'
    BY <1>0, <2>1, <2>2 DEF Served, Ready, Answering
  <2>6. QED BY <1>0, <2>3, <2>4, <2>5 DEF IInv
<1>23. CASE UNCHANGED vars
  <2>1. Deploying'
    BY <1>0, <1>23 DEF vars, Deploying, Running
  <2>2. Checked'
    BY <1>0, <1>23 DEF vars, Checked, At, Running, Ready, Answering
  <2>3. Served'
    BY <1>0, <1>23 DEF vars, Served, Ready, Answering
  <2>4. QED BY <1>0, <2>1, <2>2, <2>3 DEF IInv
<1>24. QED
  BY <1>1, <1>2, <1>3, <1>4, <1>5, <1>6, <1>7, <1>8, <1>9, <1>10, <1>11,
     <1>12, <1>13, <1>14, <1>15, <1>16, <1>17, <1>18, <1>19, <1>20, <1>21,
     <1>22, <1>23 DEF Next, Command, CutShort
------------------------------------------------------------------------------
(* The five things a step of a deployment can do to marker, traffic and     *)
(* containers.                                                              *)

Switched ==
  /\ Ready(Target)
  /\ loaded' = [s \in ServiceSet |-> Target]
  /\ UNCHANGED <<marker, up>>

Recorded ==
  /\ Ready(Target)
  /\ \A s \in ServiceSet : loaded[s] \in {Absent, Target}
  /\ marker' = Target
  /\ UNCHANGED <<loaded, up>>

Replaced ==
  /\ \E i \in Images \cup {NoImage} : up' = [up EXCEPT ![Target] = i]
  /\ UNCHANGED <<marker, loaded>>

Retired ==
  /\ \E r \in Runners : At(r, "compose_down_old")
  /\ up' = [up EXCEPT ![Old] = NoImage]
  /\ UNCHANGED <<marker, loaded>>

LEMMA Effects ==
  ASSUME IInv, [Next]_vars, SiteLoaded
  PROVE  Switched \/ Recorded \/ Replaced \/ Retired \/ UNCHANGED <<marker, loaded, up>>
<1> DEFINE Goal == Switched \/ Recorded \/ Replaced \/ Retired
                     \/ UNCHANGED <<marker, loaded, up>>
<1> USE DEF nginx, containers
<1>0. TypeOK /\ Deploying /\ Checked /\ Served
  BY DEF IInv
<1>1. ASSUME NEW r \in Runners, BootstrapNginx(r) PROVE Goal
  <2>1. UNCHANGED <<marker, up>> /\ Ready(Target)
    BY <1>0, <1>1 DEF BootstrapNginx, Checked
  <2>2. loaded' = loaded \/ loaded' = [s \in ServiceSet |-> Target]
    BY <1>1 DEF BootstrapNginx
  <2>3. QED BY <2>1, <2>2 DEF Switched
<1>2. ASSUME NEW r \in Runners, NginxReload(r) PROVE Goal
  BY <1>0, <1>2 DEF NginxReload, Checked, Switched
<1>3. ASSUME NEW r \in Runners, WriteActiveMarker(r) PROVE Goal
  <2>1. ColorOf(r) = Target
    BY <1>0, <1>3 DEF WriteActiveMarker, At, Deploying, ColorOf
  <2>2. QED BY <1>0, <1>3, <2>1 DEF WriteActiveMarker, Checked, Recorded
<1>4. ASSUME NEW r \in Runners, ComposeUpTarget(r) PROVE Goal
  BY <1>0, <1>4, ColorFacts DEF ComposeUpTarget, TypeOK, Replaced
<1>5. ASSUME NEW r \in Runners, ComposeDownOld(r) PROVE Goal
  BY <1>5 DEF ComposeDownOld, Retired
<1>6. ASSUME NEW r \in Runners, ComposeUpOld(r) PROVE Goal
  BY <1>0, <1>6 DEF ComposeUpOld, At, Deploying
<1>7. ASSUME NEW r \in Runners, UpCutShort(r) PROVE Goal
  BY <1>0, <1>7 DEF UpCutShort, At, Deploying, Replaced
<1>8. CASE UNCHANGED <<marker, loaded, up>>
  BY <1>8
<1>9. CASE ReloadElsewhere
  BY <1>0, <1>9 DEF ReloadElsewhere, SiteLoaded, Checked, Switched
<1>10. ASSUME NEW r \in Runners, Command(r) PROVE Goal
  BY <1>1, <1>2, <1>3, <1>4, <1>5, <1>6, <1>8, <1>10
     DEF Command, DetermineActive, WriteComposeBlue, WriteComposeGreen, WriteCompose,
         ComposePullTarget, Migrate, HealthCheckTarget, SwitchPorts, VerifyLive
<1>11. ASSUME NEW r \in Runners, CutShort(r) PROVE Goal
  BY <1>7, <1>8, <1>11 DEF CutShort, CommandLost, BootstrapCutShort, SwitchCutShort
<1>12. QED
  BY <1>8, <1>9, <1>10, <1>11 DEF Next, vars, Request, StartPending, StartNow

LEMMA InvAlways ==
  ASSUME Plans = {"deploy"}
  PROVE  Spec /\ []OneAtATime /\ []SiteLoaded => []IInv
<1>1. Init => IInv
  BY InitInv
<1>2. IInv /\ OneAtATime /\ OneAtATime' /\ SiteLoaded /\ [Next]_vars => IInv'
  BY NextInv
<1>3. QED BY <1>1, <1>2, PTL DEF Spec

(* Deployments that run one after the other, on an nginx that loads nothing *)
(* half switched: whatever else fails, while marker and traffic agree the   *)
(* serving containers run an image that was migrated and answers:           *)
(* ServedImageReady.                                                        *)
THEOREM ServedImageIsReady ==
  ASSUME Plans = {"deploy"}
  PROVE  Spec /\ []OneAtATime /\ []SiteLoaded => []ServedImageReady
<1>1. IInv => ServedImageReady
  BY ColorFacts DEF IInv, Served, ServedImageReady, InSync, Colors, Absent
<1>2. QED BY <1>1, InvAlways, PTL

(* The same deployments move traffic only to a colour that is ready at that *)
(* moment, although every command finds out the colour for itself:          *)
(* SwitchOnlyToReady.                                                       *)
THEOREM TrafficMovesToReady ==
  ASSUME Plans = {"deploy"}
  PROVE  Spec /\ []OneAtATime /\ []SiteLoaded => SwitchOnlyToReady
<1> DEFINE A == \A s \in ServiceSet : loaded'[s] # loaded[s] => Ready(loaded'[s])
<1>1. IInv /\ SiteLoaded /\ [Next]_vars => [A]_vars
  BY Effects DEF Switched, Recorded, Replaced, Retired
<1>2. QED BY <1>1, InvAlways, PTL DEF Spec, SwitchOnlyToReady

(* And none of their commands but compose_down_old replaces the containers  *)
(* that serve, while marker and traffic agree: LiveColourUntouched.         *)
THEOREM LiveContainersKept ==
  ASSUME Plans = {"deploy"}
  PROVE  Spec /\ []OneAtATime /\ []SiteLoaded => LiveColourUntouched
<1> DEFINE A == \A s \in ServiceSet :
                  /\ InSync
                  /\ loaded[s] # Absent
                  /\ up'[loaded[s]] # up[loaded[s]]
                  => \E r \in Runners : At(r, "compose_down_old")
<1>1. IInv /\ SiteLoaded /\ [Next]_vars => [A]_vars
  <2> SUFFICES ASSUME IInv, SiteLoaded, [Next]_vars, NEW s \in ServiceSet, InSync, loaded[s] # Absent,
                      up'[loaded[s]] # up[loaded[s]]
               PROVE  \E r \in Runners : At(r, "compose_down_old")
    OBVIOUS
  <2>1. loaded[s] = Active /\ Target # Active /\ Active \in Colors /\ up \in [Colors -> Images \cup {NoImage}]
    BY ColorFacts DEF IInv, InSync, TypeOK
  <2>2. ~Replaced
    BY <2>1 DEF Replaced
  <2>3. QED BY <2>2, Effects DEF Switched, Recorded, Retired
<1>2. QED BY <1>1, InvAlways, PTL DEF Spec, LiveColourUntouched

(* The commands of these deployments and their failures, with reloads by    *)
(* others in between, implement the promise of Cutover: KeepsPromise.       *)
THEOREM DeploymentsImplementCutover ==
  ASSUME Plans = {"deploy"}
  PROVE  Spec /\ []OneAtATime /\ []SiteLoaded => KeepsPromise
<1>1. Init => Promise!Init
  BY DEF Init, Promise!Init, NoSite, Absent, Colors, Promise!Colors
<1>2. IInv /\ SiteLoaded /\ [Next]_vars => [Promise!Next]_(Promise!vars)
  <2> SUFFICES ASSUME IInv, SiteLoaded, [Next]_vars PROVE [Promise!Next]_(Promise!vars)
    OBVIOUS
  <2>1. /\ Target \in Promise!Colors /\ Old \in Promise!Colors
        /\ Promise!Idle(Target)
    BY ColorFacts DEF IInv, Promise!Colors, Colors, Promise!Idle, Active, Absent
  <2>2. CASE Switched
    <3>1. up[Target] \in {i \in Images : Decisive \in Answers[i]}
      BY <2>2, ColorFacts DEF Switched, Ready, Answering, IInv, TypeOK
    <3>2. Promise!CutOver(Target)
      BY <2>1, <2>2, <3>1 DEF Switched, Promise!CutOver
    <3>3. QED BY <2>1, <3>2 DEF Promise!Next
  <2>3. CASE Recorded
    <3>1. up[Target] \in {i \in Images : Decisive \in Answers[i]}
      BY <2>3, ColorFacts DEF Recorded, Ready, Answering, IInv, TypeOK
    <3>2. Promise!Record(Target)
      BY <2>1, <2>3, <3>1 DEF Recorded, Promise!Record, Absent
    <3>3. QED BY <2>1, <3>2 DEF Promise!Next
  <2>4. CASE Replaced
    <3>1. Promise!Replace(Target)
      BY <2>1, <2>4 DEF Replaced, Promise!Replace
    <3>2. QED BY <2>1, <3>1 DEF Promise!Next
  <2>5. CASE Retired
    <3>1. Promise!Retire(Old)
      BY <2>5 DEF Retired, Promise!Retire
    <3>2. QED BY <2>1, <3>1 DEF Promise!Next
  <2>6. CASE UNCHANGED <<marker, loaded, up>>
    BY <2>6 DEF Promise!vars
  <2>7. QED BY <2>2, <2>3, <2>4, <2>5, <2>6, Effects
<1>3. QED BY <1>1, <1>2, InvAlways, PTL DEF Spec, KeepsPromise, Promise!Spec
------------------------------------------------------------------------------
(* Deployments and rollbacks that run one after the other, on an nginx that *)
(* others may reload.                                                       *)

RollbackSteps == {"determine_active", "compose_up_old", "switch_ports", "nginx_reload",
                  "write_active_marker", "verify_live"}

\* What the commands before the one that r is at have achieved.
Placed(r) ==
  /\ run[r].plan = "rollback" => run[r].step \in RollbackSteps
  /\ run[r].step \in {"nginx_reload", "write_active_marker"}
       => \A s \in ServiceSet : conf[s] = ColorOf(r)
  /\ run[r].step = "write_active_marker"
       => \A s \in ServiceSet : loaded[s] \in {Absent, ColorOf(r)}
  /\ run[r].step \in {"verify_live", "compose_down_old"}
       => \A s \in ServiceSet : conf[s] = marker /\ loaded[s] \in {Absent, marker}
  /\ run[r].plan = "rollback"
       /\ run[r].step \in {"switch_ports", "nginx_reload", "write_active_marker"}
       => up[Old] # NoImage
  /\ run[r].plan = "rollback" /\ run[r].step = "verify_live"
       => marker \in Colors /\ up[marker] # NoImage

Sequence ==
  /\ \A r, o \in Runners : Running(r) /\ Running(o) => r = o
  /\ ~enabled => loaded = NoSite
  /\ \A r \in Runners : Running(r) => Placed(r)

\* After this step of r only r can be running, with its plan, and it is at `step`.
MovesTo(r, step) ==
  \A o \in Runners : run'[o].status = "running" =>
    o = r /\ run'[o].step = step /\ run'[o].plan = run[r].plan

LEMMA StepMoves ==
  ASSUME TypeOK, Sequence, NEW r \in Runners, Running(r), NEW step,
         \/ run' = [run EXCEPT ![r].step = step]
         \/ run' = [run EXCEPT ![r].status = "failed"]
         \/ run' = [run EXCEPT ![r].status = "ok"]
  PROVE  MovesTo(r, step)
BY DEF TypeOK, Sequence, Running, MovesTo

LEMMA ExitMoves ==
  ASSUME TypeOK, Sequence, NEW r \in Runners, Running(r), NEW step,
         Exit(r, step) \/ Finish(r) \/ Stop(r)
  PROVE  MovesTo(r, step)
BY StepMoves DEF Exit, Continue, Finish, Stop

\* A step of r keeps the invariant when what it says of r at `step` holds afterwards.
LEMMA MoveKeeps ==
  ASSUME NEW r \in Runners, NEW step, MovesTo(r, step), (~enabled => loaded = NoSite)',
         Running(r)' => Placed(r)'
  PROVE  Sequence'
BY DEF Sequence, MovesTo, Running

\* Nothing is said of a run at one of the other steps of a deployment.
LEMMA PlainMove ==
  ASSUME NEW r \in Runners, (~enabled => loaded = NoSite)',
         NEW step \in {"determine_active", "write_compose_blue", "write_compose_green",
                       "compose_pull_target", "compose_up_target", "migrate",
                       "health_check_target", "bootstrap_nginx_if_missing", "switch_ports"},
         MovesTo(r, step), run[r].plan # "rollback"
  PROVE  Sequence'
BY MoveKeeps DEF Placed, MovesTo, Running

\* A run that stops leaves nobody running.
LEMMA StopKeeps ==
  ASSUME TypeOK, Sequence, NEW r \in Runners, Running(r), (~enabled => loaded = NoSite)',
         \/ run' = [run EXCEPT ![r].status = "failed"]
         \/ run' = [run EXCEPT ![r].status = "ok"]
  PROVE  Sequence'
<1>1. ~Running(r)' /\ MovesTo(r, "determine_active")
  BY StepMoves DEF TypeOK, Running
<1>2. QED BY <1>1, MoveKeeps

LEMMA InitSequence == Init => Sequence
BY DEF Init, Sequence, Running

LEMMA NextSequence ==
  ASSUME TypeOK, Sequence, [Next]_vars, OneAtATime'
  PROVE  Sequence'
<1> USE SameColors, ColorFacts DEF nginx, containers
<1>0. TypeOK'
  BY NextTyped
<1>1. ASSUME NEW q \in Requests, Request(q) PROVE Sequence'
  BY <1>1 DEF Request, Sequence, Running, Placed, ColorOf, Old
<1>2. ASSUME NEW r \in Runners, NEW q, Begin(r, q),
             \A o \in Runners : run'[o].status = "running" => r = o,
             UNCHANGED <<marker, nginx, containers>>
      PROVE  Sequence'
  <2>1. \A o \in Runners : run'[o].status = "running" => o = r /\ run'[o].step = "determine_active"
    BY <1>2 DEF Begin, Running, TypeOK
  <2>2. (~enabled => loaded = NoSite)'
    BY <1>2 DEF Sequence
  <2>3. Running(r)' => Placed(r)'
    BY <2>1 DEF Running, Placed, RollbackSteps
  <2>4. QED BY <2>1, <2>2, <2>3 DEF Sequence, Running
<1>3. ASSUME NEW r \in Runners, StartPending(r) PROVE Sequence'
  <2>1. \A o \in Runners : run'[o].status = "running" => r = o
    BY <1>3 DEF StartPending, Begin, Running, TypeOK
  <2>2. QED BY <1>2, <1>3, <2>1 DEF StartPending
<1>4. ASSUME NEW r \in Runners, NEW q \in Requests, StartNow(r, q) PROVE Sequence'
  <2>1. run'[r].status = "running"
    BY <1>4 DEF StartNow, Begin, TypeOK
  <2>2. \A o \in Runners : run'[o].status = "running" => r = o
    BY <1>4, <2>1 DEF StartNow, OneAtATime, Running
  <2>3. QED BY <1>2, <1>4, <2>2 DEF StartNow
<1>5. ASSUME NEW r \in Runners, DetermineActive(r) PROVE Sequence'
  <2>1. (~enabled => loaded = NoSite)' /\ Running(r)
    BY <1>5 DEF DetermineActive, At, Sequence
  <2>2. CASE run[r].plan = "deploy"
    BY <1>5, <2>1, <2>2, ExitMoves, PlainMove DEF DetermineActive
  <2>3. CASE run[r].plan # "deploy"
    <3>1. MovesTo(r, "compose_up_old")
      BY <1>5, <2>1, <2>3, ExitMoves DEF DetermineActive
    <3>2. Running(r)' => Placed(r)'
      BY <3>1 DEF MovesTo, Running, Placed, RollbackSteps
    <3>3. QED BY <2>1, <3>1, <3>2, MoveKeeps
  <2>4. QED BY <2>2, <2>3
<1>6. ASSUME NEW r \in Runners,
             \/ WriteComposeBlue(r) \/ WriteComposeGreen(r) \/ ComposePullTarget(r)
             \/ ComposeUpTarget(r) \/ Migrate(r) \/ HealthCheckTarget(r) \/ BootstrapNginx(r)
      PROVE  Running(r) /\ run[r].plan # "rollback"
  BY <1>6 DEF WriteComposeBlue, WriteComposeGreen, ComposePullTarget, ComposeUpTarget, Migrate,
              HealthCheckTarget, BootstrapNginx, At, Sequence, Placed, RollbackSteps
<1>7. ASSUME NEW r \in Runners, WriteComposeBlue(r) PROVE Sequence'
  BY <1>6, <1>7, ExitMoves, PlainMove DEF WriteComposeBlue, WriteCompose, Sequence
<1>8. ASSUME NEW r \in Runners, WriteComposeGreen(r) PROVE Sequence'
  BY <1>6, <1>8, ExitMoves, PlainMove DEF WriteComposeGreen, WriteCompose, Sequence
<1>9. ASSUME NEW r \in Runners, ComposePullTarget(r) PROVE Sequence'
  BY <1>6, <1>9, ExitMoves, PlainMove DEF ComposePullTarget, Sequence
<1>10. ASSUME NEW r \in Runners, ComposeUpTarget(r) PROVE Sequence'
  BY <1>6, <1>10, ExitMoves, PlainMove DEF ComposeUpTarget, Sequence
<1>11. ASSUME NEW r \in Runners, Migrate(r) PROVE Sequence'
  BY <1>6, <1>11, ExitMoves, PlainMove DEF Migrate, Sequence
<1>12. ASSUME NEW r \in Runners, HealthCheckTarget(r) PROVE Sequence'
  BY <1>6, <1>12, ExitMoves, PlainMove DEF HealthCheckTarget, Sequence
<1>13. ASSUME NEW r \in Runners, BootstrapNginx(r) PROVE Sequence'
  <2>1. (~enabled => loaded = NoSite)'
    BY <1>13 DEF BootstrapNginx, Sequence
  <2>2. MovesTo(r, "switch_ports")
    BY <1>6, <1>13, ExitMoves, StepMoves DEF BootstrapNginx
  <2>3. QED BY <1>6, <1>13, <2>1, <2>2, PlainMove
<1>14. ASSUME NEW r \in Runners, SwitchPorts(r) PROVE Sequence'
  <2>1. (~enabled => loaded = NoSite)' /\ Running(r)
    BY <1>14 DEF SwitchPorts, At, Sequence
  <2>2. CASE conf = NoSite
    BY <1>14, <2>1, <2>2, StopKeeps DEF SwitchPorts, Stop
  <2>3. CASE conf # NoSite
    <3>1. MovesTo(r, "nginx_reload")
      BY <1>14, <2>1, <2>3, ExitMoves DEF SwitchPorts
    <3>2. /\ \A s \in ServiceSet : conf'[s] = ColorOf(r)
          /\ UNCHANGED <<marker, up>>
      BY <1>14, <2>3 DEF SwitchPorts
    <3>3. run[r].plan = "rollback" => up[Old] # NoImage
      BY <1>14 DEF SwitchPorts, At, Sequence, Placed
    <3>4. Running(r)' => Placed(r)'
      BY <3>1, <3>2, <3>3 DEF MovesTo, Running, Placed, RollbackSteps, ColorOf, Old
    <3>5. QED BY <2>1, <3>1, <3>4, MoveKeeps
  <2>4. QED BY <2>2, <2>3
<1>15. ASSUME NEW r \in Runners, NginxReload(r) PROVE Sequence'
  <2>1. Running(r) /\ MovesTo(r, "write_active_marker")
    BY <1>15, ExitMoves DEF NginxReload, At
  <2>2. /\ \A s \in ServiceSet : conf[s] = ColorOf(r)
        /\ run[r].plan = "rollback" => up[Old] # NoImage
    BY <1>15 DEF NginxReload, At, Sequence, Placed
  <2>3. /\ UNCHANGED <<marker, conf, enabled, up>>
        /\ loaded' = IF enabled THEN conf ELSE loaded
    BY <1>15 DEF NginxReload
  <2>4. \A s \in ServiceSet : loaded'[s] \in {Absent, ColorOf(r)}
    BY <2>2, <2>3 DEF Sequence, NoSite
  <2>5. Running(r)' => Placed(r)'
    BY <2>1, <2>2, <2>3, <2>4 DEF MovesTo, Running, Placed, RollbackSteps, ColorOf, Old
  <2>6. (~enabled => loaded = NoSite)'
    BY <2>3 DEF Sequence
  <2>7. QED BY <2>1, <2>5, <2>6, MoveKeeps
<1>16. ASSUME NEW r \in Runners, WriteActiveMarker(r) PROVE Sequence'
  <2>1. Running(r) /\ MovesTo(r, "verify_live")
    BY <1>16, ExitMoves DEF WriteActiveMarker, At
  <2>2. /\ \A s \in ServiceSet : conf[s] = ColorOf(r) /\ loaded[s] \in {Absent, ColorOf(r)}
        /\ run[r].plan = "rollback" => up[Old] # NoImage
    BY <1>16 DEF WriteActiveMarker, At, Sequence, Placed
  <2>3. marker' = ColorOf(r) /\ UNCHANGED <<conf, loaded, enabled, up>>
    BY <1>16 DEF WriteActiveMarker
  <2>4. run[r].plan = "rollback" => ColorOf(r) = Old /\ Old \in Colors
    BY DEF ColorOf
  <2>5. Running(r)' => Placed(r)'
    BY <2>1, <2>2, <2>3, <2>4 DEF MovesTo, Running, Placed, RollbackSteps
  <2>6. (~enabled => loaded = NoSite)'
    BY <2>3 DEF Sequence
  <2>7. QED BY <2>1, <2>5, <2>6, MoveKeeps
<1>17. ASSUME NEW r \in Runners, VerifyLive(r) PROVE Sequence'
  <2>1. Running(r) /\ UNCHANGED <<marker, conf, loaded, enabled, up>>
    BY <1>17 DEF VerifyLive, At
  <2>2. (~enabled => loaded = NoSite)'
    BY <2>1 DEF Sequence
  <2>3. CASE run[r].plan = "deploy"
    <3>1. MovesTo(r, "compose_down_old")
      BY <1>17, <2>1, <2>3, ExitMoves DEF VerifyLive
    <3>2. \A s \in ServiceSet : conf[s] = marker /\ loaded[s] \in {Absent, marker}
      BY <1>17 DEF VerifyLive, At, Sequence, Placed
    <3>3. Running(r)' => Placed(r)'
      BY <2>1, <2>3, <3>1, <3>2 DEF MovesTo, Running, Placed
    <3>4. QED BY <2>2, <3>1, <3>3, MoveKeeps
  <2>4. CASE run[r].plan # "deploy"
    BY <1>17, <2>1, <2>2, <2>4, StopKeeps DEF VerifyLive, Finish, Stop
  <2>5. QED BY <2>3, <2>4
<1>18. ASSUME NEW r \in Runners, ComposeDownOld(r) PROVE Sequence'
  BY <1>18, StopKeeps DEF ComposeDownOld, At, Finish, Stop, Sequence
<1>19. ASSUME NEW r \in Runners, ComposeUpOld(r) PROVE Sequence'
  <2>1. Running(r) /\ (~enabled => loaded = NoSite)'
    BY <1>19 DEF ComposeUpOld, At, Sequence
  <2>2. CASE file[Old] = NoImage
    BY <1>19, <2>1, <2>2, StopKeeps DEF ComposeUpOld, Stop
  <2>3. CASE file[Old] # NoImage
    <3>1. MovesTo(r, "switch_ports")
      BY <1>19, <2>1, <2>3, ExitMoves DEF ComposeUpOld
    <3>2. up'[Old] # NoImage /\ UNCHANGED marker
      BY <1>19, <2>3 DEF ComposeUpOld, TypeOK
    <3>3. Running(r)' => Placed(r)'
      BY <3>1, <3>2 DEF MovesTo, Running, Placed, RollbackSteps, Old
    <3>4. QED BY <2>1, <3>1, <3>3, MoveKeeps
  <2>4. QED BY <2>2, <2>3
<1>20. ASSUME NEW r \in Runners, CutShort(r) PROVE Sequence'
  BY <1>20, StopKeeps
     DEF CutShort, CommandLost, UpCutShort, BootstrapCutShort, SwitchCutShort, At, Stop, Sequence
<1>21. CASE ReloadElsewhere
  BY <1>21 DEF ReloadElsewhere, Sequence, Running, Placed, ColorOf, Old
<1>22. CASE UNCHANGED vars
  BY <1>22 DEF vars, Sequence, Running, Placed, ColorOf, Old
<1>23. QED
  BY <1>1, <1>3, <1>4, <1>5, <1>7, <1>8, <1>9, <1>10, <1>11, <1>12, <1>13, <1>14, <1>15,
     <1>16, <1>17, <1>18, <1>19, <1>20, <1>21, <1>22 DEF Next, Command

LEMMA SequenceAlways == Spec /\ []OneAtATime => [](TypeOK /\ Sequence)
<1>1. Init => TypeOK /\ Sequence
  BY InitTyped, InitSequence
<1>2. TypeOK /\ Sequence /\ OneAtATime' /\ [Next]_vars => (TypeOK /\ Sequence)'
  BY NextTyped, NextSequence
<1>3. QED BY <1>1, <1>2, PTL DEF Spec

\* The two commands that can end a run with status "ok", and from where.
LEMMA OnlyTheLastEnds ==
  ASSUME TypeOK, Sequence, [Next]_vars, NEW r \in Runners, Running(r), run'[r].status = "ok"
  PROVE  \/ VerifyLive(r) /\ run[r].plan = "rollback"
         \/ ComposeDownOld(r)
<1> USE DEF TypeOK, Running
<1>1. ASSUME NEW o \in Runners, NEW step, Exit(o, step) \/ Stop(o) PROVE FALSE
  BY <1>1 DEF Exit, Continue, Stop
<1>2. ASSUME NEW o \in Runners, BootstrapNginx(o) PROVE FALSE
  BY <1>1, <1>2 DEF BootstrapNginx
<1>3. ASSUME NEW o \in Runners, VerifyLive(o) PROVE o = r /\ run[r].plan = "rollback"
  BY <1>1, <1>3 DEF VerifyLive, Finish, At
<1>4. ASSUME NEW o \in Runners, ComposeDownOld(o) PROVE o = r
  BY <1>4 DEF ComposeDownOld, Finish, Stop
<1>5. ASSUME NEW o \in Runners, StartPending(o) PROVE FALSE
  BY <1>5 DEF StartPending, Begin
<1>6. ASSUME NEW o \in Runners, NEW q \in Requests, StartNow(o, q) PROVE FALSE
  BY <1>6 DEF StartNow, Begin
<1>7. ASSUME NEW o \in Runners, CutShort(o) PROVE FALSE
  BY <1>1, <1>7 DEF CutShort, CommandLost, UpCutShort, BootstrapCutShort, SwitchCutShort
<1>8. CASE UNCHANGED run
  BY <1>8
<1>9. ASSUME NEW o \in Runners, Command(o), ~VerifyLive(o), ~ComposeDownOld(o),
             ~BootstrapNginx(o)
      PROVE  FALSE
  BY <1>1, <1>9
     DEF Command, DetermineActive, WriteComposeBlue, WriteComposeGreen, WriteCompose,
         ComposePullTarget, ComposeUpTarget, Migrate, HealthCheckTarget, SwitchPorts,
         NginxReload, WriteActiveMarker, ComposeUpOld
<1>10. QED
  BY <1>2, <1>3, <1>4, <1>5, <1>6, <1>7, <1>8, <1>9
     DEF Next, vars, Request, ReloadElsewhere

(* One after the other, in whatever order and cut short wherever: the       *)
(* marker only ever moves to where the traffic is: MarkerFollowsTraffic.    *)
THEOREM MarkerIsLast ==
  Spec /\ []OneAtATime => MarkerFollowsTraffic
<1> DEFINE A == marker' # marker => \A s \in ServiceSet : loaded[s] \in {Absent, marker'}
<1>1. TypeOK /\ Sequence /\ [Next]_vars => [A]_vars
  <2> SUFFICES ASSUME TypeOK, Sequence, [Next]_vars, marker' # marker
               PROVE  \A s \in ServiceSet : loaded[s] \in {Absent, marker'}
    OBVIOUS
  <2>1. PICK r \in Runners : WriteActiveMarker(r)
    BY DEF Next, vars, Command, CutShort, Request, StartPending, StartNow, DetermineActive,
           WriteComposeBlue, WriteComposeGreen, WriteCompose, ComposePullTarget,
           ComposeUpTarget, Migrate, HealthCheckTarget, BootstrapNginx, SwitchPorts,
           NginxReload, VerifyLive, ComposeDownOld, ComposeUpOld, CommandLost, UpCutShort,
           BootstrapCutShort, SwitchCutShort, ReloadElsewhere
  <2>2. QED BY <2>1 DEF WriteActiveMarker, At, Sequence, Placed
<1>2. QED BY <1>1, SequenceAlways, PTL DEF Spec, MarkerFollowsTraffic

(* A run that ends well has brought conf, nginx and marker together, and    *)
(* repaired what earlier ones left behind: CompletedRunAgrees.              *)
THEOREM CompletedRunsAgree ==
  Spec /\ []OneAtATime => CompletedRunAgrees
<1> DEFINE A == \A r \in Runners : Running(r) /\ run'[r].status = "ok" =>
                  \A s \in ServiceSet : conf[s] = marker /\ loaded[s] \in {Absent, marker}
<1>1. TypeOK /\ Sequence /\ [Next]_vars => [A]_vars
  <2> SUFFICES ASSUME TypeOK, Sequence, [Next]_vars,
                      NEW r \in Runners, Running(r), run'[r].status = "ok"
               PROVE  \A s \in ServiceSet : conf[s] = marker /\ loaded[s] \in {Absent, marker}
    OBVIOUS
  <2>1. run[r].step \in {"verify_live", "compose_down_old"}
    BY OnlyTheLastEnds DEF VerifyLive, ComposeDownOld, At
  <2>2. QED BY <2>1 DEF Sequence, Placed
<1>2. QED BY <1>1, SequenceAlways, PTL DEF Spec, CompletedRunAgrees

(* A rollback that ends well leaves the colour that serves running:         *)
(* RollbackLeavesLiveUp.                                                    *)
THEOREM RollbackRestoresLive ==
  Spec /\ []OneAtATime => RollbackLeavesLiveUp
<1> DEFINE A == \A r \in Runners :
                  Running(r) /\ run[r].plan = "rollback" /\ run'[r].status = "ok"
                  => \A s \in ServiceSet : loaded[s] # Absent => up'[loaded[s]] # NoImage
<1>1. TypeOK /\ Sequence /\ [Next]_vars => [A]_vars
  <2> SUFFICES ASSUME TypeOK, Sequence, [Next]_vars, NEW r \in Runners, Running(r),
                      run[r].plan = "rollback", run'[r].status = "ok",
                      NEW s \in ServiceSet, loaded[s] # Absent
               PROVE  up'[loaded[s]] # NoImage
    OBVIOUS
  <2>1. VerifyLive(r)
    BY OnlyTheLastEnds DEF ComposeDownOld, At, Sequence, Placed, RollbackSteps
  <2>2. /\ loaded[s] = marker /\ up[marker] # NoImage
        /\ UNCHANGED up
    BY <2>1 DEF VerifyLive, At, Sequence, Placed, containers
  <2>3. QED BY <2>2
<1>2. QED BY <1>1, SequenceAlways, PTL DEF Spec, RollbackLeavesLiveUp
------------------------------------------------------------------------------
(* What the hypotheses stand for.                                           *)

\* deploy-service.yml: the concurrency group runs one workflow at a time.
LEMMA GroupRunsOneAtATime ==
  ASSUME Grouped
  PROVE  Spec => []OneAtATime
<1>1. OneAtATime
  BY DEF OneAtATime
<1>2. QED BY <1>1, PTL

\* A VPS of its own: nobody else reloads nginx.
LEMMA OwnNginxLoaded ==
  ASSUME ~SharedNginx
  PROVE  Spec => []SiteLoaded
<1>1. SiteLoaded
  BY DEF SiteLoaded
<1>2. QED BY <1>1, PTL

\* What nginx would load is what it has loaded, but between switch_ports and nginx_reload.
Loaded == enabled /\ (\A r \in Runners : ~At(r, "nginx_reload")) => loaded = conf

LEMMA NextLoaded ==
  ASSUME TypeOK, Sequence, Loaded, [Next]_vars, OneAtATime', MaxFaults = 0
  PROVE  Loaded'
<1> USE DEF nginx
<1>1. ~Fault
  BY DEF TypeOK, Fault
<1>2. ASSUME NEW r \in Runners, Running(r), run[r].step # "nginx_reload",
             UNCHANGED <<conf, enabled, loaded>>
      PROVE  Loaded'
  <2>1. \A o \in Runners : ~At(o, "nginx_reload")
    BY <1>2 DEF Sequence, At
  <2>2. QED BY <1>2, <2>1 DEF Loaded
<1>3. ASSUME NEW r \in Runners, NEW q, Begin(r, q), ~Running(r),
             \A o \in Runners : run'[o].status = "running" => r = o, UNCHANGED nginx
      PROVE  Loaded'
  <2>1. \A o \in Runners : o # r => run'[o] = run[o]
    BY <1>3 DEF Begin, TypeOK
  <2>2. \A o \in Runners : ~At(o, "nginx_reload")
    BY <1>3, <2>1 DEF At, Running
  <2>3. QED BY <1>3, <2>2 DEF Loaded
<1>4. ASSUME NEW r \in Runners, StartPending(r) PROVE Loaded'
  <2>1. \A o \in Runners : run'[o].status = "running" => r = o
    BY <1>4 DEF StartPending, Begin, Running, TypeOK
  <2>2. QED BY <1>3, <1>4, <2>1 DEF StartPending
<1>5. ASSUME NEW r \in Runners, NEW q \in Requests, StartNow(r, q) PROVE Loaded'
  <2>1. run'[r].status = "running"
    BY <1>5 DEF StartNow, Begin, TypeOK
  <2>2. \A o \in Runners : run'[o].status = "running" => r = o
    BY <1>5, <2>1 DEF StartNow, OneAtATime, Running
  <2>3. QED BY <1>3, <1>5, <2>2 DEF StartNow
<1>6. ASSUME NEW r \in Runners, BootstrapNginx(r) PROVE Loaded'
  <2>1. CASE UNCHANGED nginx
    BY <1>2, <1>6, <2>1 DEF BootstrapNginx, At
  <2>2. QED BY <1>1, <1>6, <2>1 DEF BootstrapNginx, Loaded
<1>7. ASSUME NEW r \in Runners, SwitchPorts(r) PROVE Loaded'
  <2>1. CASE UNCHANGED conf
    BY <1>2, <1>7, <2>1 DEF SwitchPorts, At
  <2>2. CASE Exit(r, "nginx_reload")
    <3>1. run'[r].status = "running" /\ run'[r].step = "nginx_reload"
      BY <1>1, <1>7, <2>2 DEF Exit, Continue, SwitchPorts, At, Running, TypeOK
    <3>2. QED BY <3>1 DEF Loaded, At, Running
  <2>3. QED BY <1>7, <2>1, <2>2 DEF SwitchPorts
<1>8. ASSUME NEW r \in Runners, NginxReload(r) PROVE Loaded'
  BY <1>8 DEF NginxReload, Loaded
<1>9. ASSUME NEW r \in Runners, Command(r), ~BootstrapNginx(r), ~SwitchPorts(r),
             ~NginxReload(r)
      PROVE  Loaded'
  BY <1>2, <1>9
     DEF Command, DetermineActive, WriteComposeBlue, WriteComposeGreen, WriteCompose,
         ComposePullTarget, ComposeUpTarget, Migrate, HealthCheckTarget, WriteActiveMarker,
         VerifyLive, ComposeDownOld, ComposeUpOld, At
<1>10. ASSUME NEW r \in Runners, CutShort(r) PROVE FALSE
  BY <1>1, <1>10 DEF CutShort, CommandLost, UpCutShort, BootstrapCutShort, SwitchCutShort
<1>11. CASE ReloadElsewhere
  BY <1>11 DEF ReloadElsewhere, Loaded
<1>12. CASE UNCHANGED <<run, nginx>>
  BY <1>12 DEF Loaded, At, Running
<1>13. QED
  BY <1>4, <1>5, <1>6, <1>7, <1>8, <1>9, <1>10, <1>11, <1>12 DEF Next, vars, Request

(* A VPS whose nginx other projects, certbot and reboots reload all the     *)
(* time: as long as no command is lost, a reload elsewhere changes nothing, *)
(* so the theorems about deployments hold there too.                        *)
THEOREM ReloadsElsewhereHarmless ==
  ASSUME MaxFaults = 0
  PROVE  Spec /\ []OneAtATime => []SiteLoaded
<1>1. Init => Loaded
  BY DEF Init, Loaded
<1>2. TypeOK /\ Sequence /\ Loaded /\ OneAtATime' /\ [Next]_vars => Loaded'
  BY NextLoaded
<1>3. Loaded => SiteLoaded
  BY DEF Loaded, SiteLoaded
<1>4. QED BY <1>1, <1>2, <1>3, SequenceAlways, PTL DEF Spec
------------------------------------------------------------------------------
(* One colour at a time.                                                    *)

OneColour == \A s, t \in ServiceSet : loaded[s] = loaded[t]

LEMMA NextOneColour ==
  ASSUME TypeOK, Sequence, OneColour, [Next]_vars, SiteLoaded
  PROVE  OneColour'
<1> USE DEF nginx
<1>1. CASE UNCHANGED loaded
  BY <1>1 DEF OneColour
<1>2. ASSUME NEW r \in Runners, BootstrapNginx(r) PROVE OneColour'
  <2>1. loaded' = loaded \/ loaded' = [s \in ServiceSet |-> Target]
    BY <1>2 DEF BootstrapNginx
  <2>2. QED BY <1>1, <2>1 DEF OneColour
<1>3. ASSUME NEW r \in Runners, NginxReload(r) PROVE OneColour'
  BY <1>1, <1>3 DEF NginxReload, At, Sequence, Placed, OneColour
<1>4. CASE ReloadElsewhere
  <2>1. CASE \E r \in Runners : At(r, "nginx_reload")
    BY <1>4, <2>1 DEF ReloadElsewhere, At, Sequence, Placed, OneColour
  <2>2. QED BY <1>1, <1>4, <2>1 DEF ReloadElsewhere, SiteLoaded
<1>5. ASSUME NEW r \in Runners, Command(r), ~BootstrapNginx(r), ~NginxReload(r)
      PROVE  UNCHANGED loaded
  BY <1>5
     DEF Command, DetermineActive, WriteComposeBlue, WriteComposeGreen, WriteCompose,
         ComposePullTarget, ComposeUpTarget, Migrate, HealthCheckTarget, SwitchPorts,
         WriteActiveMarker, VerifyLive, ComposeDownOld, ComposeUpOld
<1>6. ASSUME NEW r \in Runners, CutShort(r) PROVE UNCHANGED loaded
  BY <1>6 DEF CutShort, CommandLost, UpCutShort, BootstrapCutShort, SwitchCutShort
<1>7. QED
  BY <1>1, <1>2, <1>3, <1>4, <1>5, <1>6 DEF Next, vars, Request, StartPending, StartNow

(* nginx never serves some services of a project from one colour and others *)
(* from the other, although switch_ports edits one line per service and may *)
(* be cut short between two of them: deployments and rollbacks that run one *)
(* after the other (executor.mjs:335-361).                                  *)
THEOREM NeverMixed == Spec /\ []OneAtATime /\ []SiteLoaded => []OneColour
<1>1. Init => OneColour
  BY DEF Init, NoSite, OneColour
<1>2. TypeOK /\ Sequence /\ OneColour /\ SiteLoaded /\ [Next]_vars => OneColour'
  BY NextOneColour
<1>3. QED BY <1>1, <1>2, SequenceAlways, PTL DEF Spec
------------------------------------------------------------------------------
(* What the cutover promises.                                               *)

\* All traffic goes to one colour; when that is the one on record and it runs, it runs an
\* image that traffic may be sent to.
OneReadyColour ==
  /\ \E c \in Colors \cup {Absent} : loaded = [s \in ServiceSet |-> c]
  /\ up \in [Colors -> Images \cup {NoImage}]
  /\ marker \in Colors \cup {Absent}
  /\ \A s \in ServiceSet : loaded[s] = Active =>
       up[Active] \in {i \in Images : Decisive \in Answers[i]} \cup {NoImage}

(* Whatever implements Cutover never splits the traffic of a project and    *)
(* serves it from an image that answers while the record is right:          *)
(* KeepsPromise is as strong as the properties it stands for.               *)
THEOREM CutoverKeepsTrafficTogether == KeepsPromise => []OneReadyColour
<1> DEFINE Good == {i \in Images : Decisive \in Answers[i]}
<1>1. Promise!Init => OneReadyColour
  BY DEF Promise!Init, OneReadyColour, Active, Promise!Colors, Colors, Absent
<1>2. ASSUME OneReadyColour, NEW c \in Colors, Promise!Replace(c) PROVE OneReadyColour'
  <2>1. Active' = Active /\ c # Active /\ loaded' = loaded /\ marker' = marker
    BY <1>2 DEF Promise!Replace, Promise!Idle, Active, Promise!Colors, Colors, Absent
  <2>2. up' \in [Colors -> Images \cup {NoImage}] /\ up'[Active] = up[Active]
    BY <1>2, <2>1 DEF Promise!Replace, OneReadyColour, Active, Promise!Colors, Colors, Absent
  <2>3. QED BY <1>2, <2>1, <2>2 DEF OneReadyColour, Colors
<1>3. ASSUME OneReadyColour, NEW c \in Colors, Promise!CutOver(c) PROVE OneReadyColour'
  <2>1. Active' = Active /\ c # Active /\ up' = up /\ marker' = marker
    BY <1>3 DEF Promise!CutOver, Promise!Idle, Active, Promise!Colors, Colors, Absent
  <2>2. loaded' = [s \in ServiceSet |-> c]
    BY <1>3 DEF Promise!CutOver
  <2>3. QED BY <1>3, <2>1, <2>2 DEF OneReadyColour, Colors
<1>4. ASSUME OneReadyColour, NEW c \in Colors, Promise!Record(c) PROVE OneReadyColour'
  <2>1. Active' = c /\ marker' = c /\ up' = up /\ loaded' = loaded /\ up[c] \in Good
    BY <1>4 DEF Promise!Record, Active, Promise!Colors, Colors, Absent
  <2>2. QED BY <1>4, <2>1 DEF OneReadyColour, Colors
<1>5. ASSUME OneReadyColour, NEW c \in Colors, Promise!Retire(c) PROVE OneReadyColour'
  <2>1. /\ Active' = Active /\ loaded' = loaded /\ marker' = marker
        /\ up' \in [Colors -> Images \cup {NoImage}]
        /\ up'[Active] \in {up[Active], NoImage}
    BY <1>5 DEF Promise!Retire, OneReadyColour, Active, Promise!Colors, Colors, Absent
  <2>2. QED BY <1>5, <2>1 DEF OneReadyColour, Colors
<1>6. ASSUME OneReadyColour, UNCHANGED Promise!vars PROVE OneReadyColour'
  BY <1>6 DEF Promise!vars, OneReadyColour, Active
<1>7. OneReadyColour /\ [Promise!Next]_(Promise!vars) => OneReadyColour'
  BY <1>2, <1>3, <1>4, <1>5, <1>6 DEF Promise!Next, Promise!Colors, Colors
<1>8. QED BY <1>1, <1>7, PTL DEF KeepsPromise, Promise!Spec
==============================================================================
