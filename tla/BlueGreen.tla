------------------------------ MODULE BlueGreen ------------------------------
(****************************************************************************)
(* Blue/green deployment of one project on one VPS: the step plans of       *)
(* engine/drivers/docker-vps.mjs, executed command by command over ssh by   *)
(* engine/executor.mjs, started by the GitHub workflows.                    *)
(*                                                                          *)
(* What is kept: the order of the commands; that every command is an ssh    *)
(* call of its own, which reads the marker file again to learn the colours; *)
(* that a run stops at the first non-zero exit status; what each command    *)
(* leaves on the VPS, also when it is cut short.                            *)
(*                                                                          *)
(* Simplifications:                                                         *)
(*  - A colour's containers come up and go down together; a compose command *)
(*    that is cut short may leave the colour without containers.            *)
(*  - Services are those with a domain: only they are health-checked, have  *)
(*    a server block in the nginx conf and are verified live.               *)
(*  - Commands that do not touch the modelled state (mkdir, docker network, *)
(*    the database container, env files) are the step determine_active.     *)
(*  - The project declares database.migrate, so the plan has that step.     *)
(****************************************************************************)
EXTENDS Naturals, Sequences

CONSTANTS
  Services,     \* the services with a domain, in the order of the config
  Images,       \* the images that may be deployed
  NoImage,      \* "no container" / "no compose file yet"
  Answers,      \* Answers[i]: the services that answer their health path under i
  NoRequest,    \* no run is pending in the concurrency group
  Runners,      \* workflow runs that may exist at the same time
  Plans,        \* the plans the operators ask for: "deploy", "rollback"
  Grouped,      \* TRUE: deploy-service.yml (concurrency group); FALSE: deploy.yml
  Ssl,          \* TRUE: some service asks for a certificate
  SharedNginx,  \* TRUE: others reload nginx too (another project, certbot, a reboot)
  MaxFaults     \* bound on the commands whose run or answer is lost

Absent == "absent"
Colors == {"blue", "green"}
Steps == {"determine_active", "write_compose_blue", "write_compose_green",
          "compose_pull_target", "compose_up_target", "migrate",
          "health_check_target", "bootstrap_nginx_if_missing", "switch_ports",
          "nginx_reload", "write_active_marker", "verify_live",
          "compose_down_old", "compose_up_old"}

ServiceSet == {Services[i] : i \in 1..Len(Services)}

\* The probes of health_check_target and verify_live are joined by ";" and each
\* ends in a subshell's exit, so the command's status is the last probe's.
Decisive == Services[Len(Services)]

ASSUME ServicesAssumption == Services \in Seq(ServiceSet) /\ Len(Services) > 0
ASSUME ImagesAssumption == NoImage \notin Images /\ Answers \in [Images -> SUBSET ServiceSet]
ASSUME ModeAssumption ==
  /\ Plans \subseteq {"deploy", "rollback"}
  /\ Grouped \in BOOLEAN /\ Ssl \in BOOLEAN /\ SharedNginx \in BOOLEAN
  /\ MaxFaults \in Nat

VARIABLES
  marker,    \* content of <project>/active_env
  conf,      \* conf[s]: the colour whose port `set $<s>_port` names in the conf file
  enabled,   \* the conf is linked into sites-enabled
  loaded,    \* loaded[s]: the colour nginx routes s to, as of its last reload
  cert,      \* certbot has put a certificate into the conf
  file,      \* file[c]: the image named in <project>/<c>/docker-compose.app.yml
  up,        \* up[c]: the image the containers of <project>-<c> run
  migrated,  \* the images whose migrations have been run on the database
  run,       \* run[r]: what runner r executes; step is the command it is at
  pending,   \* the one request waiting in the concurrency group
  faults     \* commands lost so far

nginx == <<conf, enabled, loaded, cert>>
containers == <<file, up, migrated>>
vars == <<marker, nginx, containers, run, pending, faults>>

Requests ==
  [plan : Plans \cap {"deploy"}, image : Images]
    \cup [plan : Plans \cap {"rollback"}, image : {NoImage}]

NoSite == [s \in ServiceSet |-> Absent]
------------------------------------------------------------------------------
(* The colours, as `readColors` computes them at the start of a command.    *)

Active == IF marker = Absent THEN "blue" ELSE marker
\* Variant: the test of ACTIVE turned round.
LiveAsTarget == IF Active = "blue" THEN "blue" ELSE "green"

Target == IF Active = "blue" THEN "green" ELSE "blue"
Old == IF Active = "blue" THEN "blue" ELSE "green"

\* Variant: the colour variables of the two plans swapped.
SwappedColorOf(r) == IF run[r].plan = "deploy" THEN Old ELSE Target

ColorOf(r) == IF run[r].plan = "deploy" THEN Target ELSE Old

Answering(c, s) == up[c] # NoImage /\ s \in Answers[up[c]]

(* nginx reaches a service that answers. Without a certificate of its own   *)
(* an https probe (curl -k) may still be answered by another site.          *)
Reached(s) == loaded[s] # Absent /\ Answering(loaded[s], s)

Running(r) == run[r].status = "running"
At(r, step) == Running(r) /\ run[r].step = step

(* The exit status the runner sees: 0 and on to the next command, or the    *)
(* status is lost with the connection and the run stops.                    *)
Fault == faults < MaxFaults /\ faults' = faults + 1
Continue(r, step) == run' = [run EXCEPT ![r].step = step] /\ UNCHANGED faults
Stop(r) == run' = [run EXCEPT ![r].status = "failed"]
Exit(r, step) == Continue(r, step) \/ (Stop(r) /\ Fault)
Finish(r) ==
  \/ run' = [run EXCEPT ![r].status = "ok"] /\ UNCHANGED faults
  \/ Stop(r) /\ Fault

Init ==
  /\ marker = Absent
  /\ conf = NoSite /\ loaded = NoSite
  /\ enabled = FALSE /\ cert = FALSE
  /\ file = [c \in Colors |-> NoImage]
  /\ up = [c \in Colors |-> NoImage]
  /\ migrated = {}
  /\ run = [r \in Runners |-> [status |-> "idle", plan |-> "deploy",
                               step |-> "determine_active", image |-> NoImage]]
  /\ pending = NoRequest
  /\ faults = 0
------------------------------------------------------------------------------
(* Starting a run.                                                          *)

Begin(r, q) ==
  run' = [run EXCEPT ![r] = [status |-> "running", plan |-> q.plan,
                             step |-> "determine_active", image |-> q.image]]

\* A workflow is dispatched; a newer request replaces the one that is pending.
Request(q) ==
  /\ Grouped
  /\ pending' = q
  /\ UNCHANGED <<marker, nginx, containers, run, faults>>

\* The concurrency group lets its pending run start when no other is running.
StartPending(r) ==
  /\ Grouped
  /\ pending # NoRequest
  /\ \A o \in Runners : ~Running(o)
  /\ Begin(r, pending)
  /\ pending' = NoRequest
  /\ UNCHANGED <<marker, nginx, containers, faults>>

\* Without a group every dispatched run starts at once.
StartNow(r, q) ==
  /\ ~Grouped
  /\ ~Running(r)
  /\ Begin(r, q)
  /\ UNCHANGED <<marker, nginx, containers, pending, faults>>
------------------------------------------------------------------------------
(* The commands of planDeploy and planRollback, in order.                   *)

DetermineActive(r) ==
  /\ At(r, "determine_active")
  /\ Exit(r, IF run[r].plan = "deploy" THEN "write_compose_blue" ELSE "compose_up_old")
  /\ UNCHANGED <<marker, nginx, containers, pending>>

\* Both colours' compose files get the new image, the idle one's and the live one's.
WriteCompose(r, c, next) ==
  /\ file' = [file EXCEPT ![c] = run[r].image]
  /\ Exit(r, next)
  /\ UNCHANGED <<marker, nginx, up, migrated, pending>>

WriteComposeBlue(r) ==
  At(r, "write_compose_blue") /\ WriteCompose(r, "blue", "write_compose_green")

WriteComposeGreen(r) ==
  At(r, "write_compose_green") /\ WriteCompose(r, "green", "compose_pull_target")

ComposePullTarget(r) ==
  /\ At(r, "compose_pull_target")
  /\ Exit(r, "compose_up_target")
  /\ UNCHANGED <<marker, nginx, containers, pending>>

ComposeUpTarget(r) ==
  /\ At(r, "compose_up_target")
  /\ up' = [up EXCEPT ![Target] = file[Target]]
  /\ Exit(r, "migrate")
  /\ UNCHANGED <<marker, nginx, file, migrated, pending>>

\* docker exec in the target backend: fails when that container does not run.
Migrate(r) ==
  /\ At(r, "migrate")
  /\ IF up[Target] = NoImage
       THEN Stop(r) /\ UNCHANGED <<migrated, faults>>
       ELSE migrated' = migrated \cup {up[Target]} /\ Exit(r, "health_check_target")
  /\ UNCHANGED <<marker, nginx, file, up, pending>>

\* Variant: the probe's exit status is dropped.
HealthCheckIgnored(r) ==
  /\ At(r, "health_check_target")
  /\ Exit(r, "bootstrap_nginx_if_missing")
  /\ UNCHANGED <<marker, nginx, containers, pending>>

HealthCheckTarget(r) ==
  /\ At(r, "health_check_target")
  /\ IF Answering(Target, Decisive)
       THEN Exit(r, "bootstrap_nginx_if_missing")
       ELSE Stop(r) /\ UNCHANGED faults
  /\ UNCHANGED <<marker, nginx, containers, pending>>

\* Only when the conf file does not exist: write it, link it, reload, certbot. With
\* certificates to get, "|| echo" turns a failure of nginx or certbot into status 0.
BootstrapNginx(r) ==
  /\ At(r, "bootstrap_nginx_if_missing")
  /\ UNCHANGED <<marker, containers, pending>>
  /\ \/ /\ conf # NoSite
        /\ Exit(r, "switch_ports")
        /\ UNCHANGED nginx
     \/ /\ conf = NoSite
        /\ conf' = [s \in ServiceSet |-> Target]
        /\ enabled' = TRUE
        /\ \/ /\ loaded' = conf'
              /\ cert' = Ssl
              /\ Exit(r, "switch_ports")
           \/ /\ loaded' \in {loaded, conf'}
              /\ UNCHANGED cert
              /\ Fault
              /\ IF Ssl THEN run' = [run EXCEPT ![r].step = "switch_ports"] ELSE Stop(r)

\* Variant: only the first service's line is changed.
SwitchFirstPort(r) ==
  /\ At(r, "switch_ports")
  /\ conf # NoSite
  /\ conf' = [conf EXCEPT ![Services[1]] = ColorOf(r)]
  /\ Exit(r, "nginx_reload")
  /\ UNCHANGED <<marker, enabled, loaded, cert, containers, pending>>

\* sed of one `set $<s>_port` line per service; sed fails on a missing file.
SwitchPorts(r) ==
  /\ At(r, "switch_ports")
  /\ IF conf = NoSite
       THEN Stop(r) /\ UNCHANGED <<conf, faults>>
       ELSE /\ conf' = [s \in ServiceSet |-> ColorOf(r)]
            /\ Exit(r, "nginx_reload")
  /\ UNCHANGED <<marker, enabled, loaded, cert, containers, pending>>

\* Variant: nginx -t without the reload.
NginxTestOnly(r) ==
  /\ At(r, "nginx_reload")
  /\ Exit(r, "write_active_marker")
  /\ UNCHANGED <<marker, nginx, containers, pending>>

NginxReload(r) ==
  /\ At(r, "nginx_reload")
  /\ loaded' = IF enabled THEN conf ELSE loaded
  /\ Exit(r, "write_active_marker")
  /\ UNCHANGED <<marker, conf, enabled, cert, containers, pending>>

\* Variants: the colour variable is unset; an existing marker is kept.
WriteUnsetColor(r) ==
  /\ At(r, "write_active_marker")
  /\ marker' = ""
  /\ Exit(r, "verify_live")
  /\ UNCHANGED <<nginx, containers, pending>>

WriteMarkerOnce(r) ==
  /\ At(r, "write_active_marker")
  /\ marker' = IF marker = Absent THEN ColorOf(r) ELSE marker
  /\ Exit(r, "verify_live")
  /\ UNCHANGED <<nginx, containers, pending>>

WriteActiveMarker(r) ==
  /\ At(r, "write_active_marker")
  /\ marker' = ColorOf(r)
  /\ Exit(r, "verify_live")
  /\ UNCHANGED <<nginx, containers, pending>>

\* Rollback ends here; a deployment goes on to take the "old" colour down.
VerifyLive(r) ==
  /\ At(r, "verify_live")
  /\ \/ /\ Reached(Decisive) \/ (Ssl /\ ~cert)
        /\ IF run[r].plan = "deploy" THEN Exit(r, "compose_down_old") ELSE Finish(r)
     \/ /\ ~Reached(Decisive) \/ (Ssl /\ ~cert)
        /\ Stop(r) /\ UNCHANGED faults
  /\ UNCHANGED <<marker, nginx, containers, pending>>

ComposeDownOld(r) ==
  /\ At(r, "compose_down_old")
  /\ up' = [up EXCEPT ![Old] = NoImage]
  /\ Finish(r)
  /\ UNCHANGED <<marker, nginx, file, migrated, pending>>

\* Variant: the rollback does not bring the old colour up.
ComposeUpSkipped(r) ==
  /\ At(r, "compose_up_old")
  /\ Exit(r, "switch_ports")
  /\ UNCHANGED <<marker, nginx, containers, pending>>

\* `up -d` from the colour's compose file, as it is now; fails when there is none.
ComposeUpOld(r) ==
  /\ At(r, "compose_up_old")
  /\ IF file[Old] = NoImage
       THEN Stop(r) /\ UNCHANGED <<up, faults>>
       ELSE up' = [up EXCEPT ![Old] = file[Old]] /\ Exit(r, "switch_ports")
  /\ UNCHANGED <<marker, nginx, file, migrated, pending>>

Command(r) ==
  \/ DetermineActive(r)
  \/ WriteComposeBlue(r)
  \/ WriteComposeGreen(r)
  \/ ComposePullTarget(r)
  \/ ComposeUpTarget(r)
  \/ Migrate(r)
  \/ HealthCheckTarget(r)
  \/ BootstrapNginx(r)
  \/ SwitchPorts(r)
  \/ NginxReload(r)
  \/ WriteActiveMarker(r)
  \/ VerifyLive(r)
  \/ ComposeDownOld(r)
  \/ ComposeUpOld(r)
------------------------------------------------------------------------------
(* Commands that are lost or cut short, and the world outside.              *)

\* The command never ran, or failed before it changed anything.
CommandLost(r) ==
  /\ Running(r)
  /\ Stop(r)
  /\ Fault
  /\ UNCHANGED <<marker, nginx, containers, pending>>

\* compose removed the colour's containers and did not start the new ones.
UpCutShort(r) ==
  /\ \/ At(r, "compose_up_target") /\ up' = [up EXCEPT ![Target] = NoImage]
     \/ At(r, "compose_up_old") /\ up' = [up EXCEPT ![Old] = NoImage]
  /\ Stop(r)
  /\ Fault
  /\ UNCHANGED <<marker, nginx, file, migrated, pending>>

\* The conf file was written and the link to it was not.
BootstrapCutShort(r) ==
  /\ At(r, "bootstrap_nginx_if_missing")
  /\ conf = NoSite
  /\ conf' = [s \in ServiceSet |-> Target]
  /\ Stop(r)
  /\ Fault
  /\ UNCHANGED <<marker, enabled, loaded, cert, containers, pending>>

\* Only the first n services' lines were changed.
SwitchCutShort(r) ==
  /\ At(r, "switch_ports")
  /\ conf # NoSite
  /\ \E n \in 1..Len(Services) - 1 :
       conf' = [s \in ServiceSet |->
                  IF \E i \in 1..n : Services[i] = s THEN ColorOf(r) ELSE conf[s]]
  /\ Stop(r)
  /\ Fault
  /\ UNCHANGED <<marker, enabled, loaded, cert, containers, pending>>

CutShort(r) ==
  CommandLost(r) \/ UpCutShort(r) \/ BootstrapCutShort(r) \/ SwitchCutShort(r)

\* nginx is shared by the projects of the VPS: their deployments, certbot's renewals
\* and a reboot load this project's conf file too.
ReloadElsewhere ==
  /\ SharedNginx
  /\ enabled
  /\ loaded' = conf
  /\ UNCHANGED <<marker, conf, enabled, cert, containers, run, pending, faults>>

Next ==
  \/ \E q \in Requests : Request(q)
  \/ \E r \in Runners : StartPending(r)
  \/ \E r \in Runners, q \in Requests : StartNow(r, q)
  \/ \E r \in Runners : Command(r)
  \/ \E r \in Runners : CutShort(r)
  \/ ReloadElsewhere

Spec == Init /\ [][Next]_vars

\* A workflow run that has started executes its commands to the end, and GitHub starts
\* a pending run when the group is free. Nobody is obliged to request anything.
Fairness ==
  \A r \in Runners : WF_vars(Command(r)) /\ WF_vars(StartPending(r))

FairSpec == Spec /\ Fairness

\* The operators keep deploying an image that answers for as long as it takes.
Retries ==
  \A r \in Runners : \A i \in {i \in Images : Decisive \in Answers[i]} :
    SF_vars(StartNow(r, [plan |-> "deploy", image |-> i]))
RetrySpec == FairSpec /\ Retries
------------------------------------------------------------------------------
(* Properties.                                                              *)

TypeOK ==
  /\ marker \in Colors \cup {Absent}
  /\ conf \in [ServiceSet -> Colors \cup {Absent}]
  /\ loaded \in [ServiceSet -> Colors \cup {Absent}]
  /\ enabled \in BOOLEAN /\ cert \in BOOLEAN
  /\ file \in [Colors -> Images \cup {NoImage}]
  /\ up \in [Colors -> Images \cup {NoImage}]
  /\ migrated \subseteq Images
  /\ run \in [Runners -> [status : {"idle", "running", "ok", "failed"},
                          plan : {"deploy", "rollback"}, step : Steps,
                          image : Images \cup {NoImage}]]
  /\ pending \in Requests \cup {NoRequest}
  /\ faults \in 0..MaxFaults

(* The marker and the routes nginx has loaded name the same colour.         *)
InSync == \A s \in ServiceSet : loaded[s] \in {Absent, Active}

(* The containers of c run, their migrations have been applied, and the     *)
(* service whose probe decides the health check answers.                    *)
Ready(c) == Answering(c, Decisive) /\ up[c] \in migrated

(* Whatever moves a service to another colour moves it to one that is ready *)
(* at that moment: the colours that the commands read again and again from  *)
(* the marker are those of the health check (docker-vps.mjs:7-13).          *)
SwitchOnlyToReady ==
  [][\A s \in ServiceSet : loaded'[s] # loaded[s] => Ready(loaded'[s])]_vars

(* While marker and traffic agree, the containers that serve are replaced   *)
(* by no deployment command; compose_down_old is the one that stops them.   *)
LiveColourUntouched ==
  [][\A s \in ServiceSet :
       /\ InSync
       /\ loaded[s] # Absent
       /\ up'[loaded[s]] # up[loaded[s]]
       => \E r \in Runners : At(r, "compose_down_old")]_vars

(* Whenever marker and traffic agree and the serving containers run, they   *)
(* run an image that was migrated and answers, whatever failed before.      *)
ServedImageReady ==
  InSync => \A s \in ServiceSet :
              loaded[s] # Absent /\ up[loaded[s]] # NoImage => Ready(loaded[s])

(* The marker only ever moves to the colour that has all of the traffic     *)
(* (executor.mjs:372-377 after 359-361, each reading the marker afresh).    *)
MarkerFollowsTraffic ==
  [][marker' # marker => \A s \in ServiceSet : loaded[s] \in {Absent, marker'}]_vars

(* A run that ends successfully leaves conf file, nginx and marker agreeing *)
(* on one colour, also after earlier runs were interrupted anywhere.        *)
CompletedRunAgrees ==
  [][\A r \in Runners : Running(r) /\ run'[r].status = "ok" =>
       \A s \in ServiceSet : conf[s] = marker /\ loaded[s] \in {Absent, marker}]_vars

(* A rollback that ends successfully leaves the colour that serves running, *)
(* also the one an earlier deployment's compose_down_old had stopped.       *)
RollbackLeavesLiveUp ==
  [][\A r \in Runners :
       Running(r) /\ run[r].plan = "rollback" /\ run'[r].status = "ok"
       => \A s \in ServiceSet : loaded[s] # Absent => up'[loaded[s]] # NoImage]_vars

(* A marker that an interrupted run left behind the traffic catches up once *)
(* deployments are retried and no more commands are lost.                   *)
DriftHeals == ~InSync ~> InSync

\* Cutover over the routes nginx has loaded, the marker and the containers.
Promise == INSTANCE Cutover WITH
  Services <- ServiceSet,
  Good <- {i \in Images : Decisive \in Answers[i]},
  traffic <- loaded,
  recorded <- marker,
  image <- up

(* The commands of the deployments, lost and cut short anywhere, implement  *)
(* the atomic cutover (docker-vps.mjs:5-16).                                *)
KeepsPromise == Promise!Spec
------------------------------------------------------------------------------
(* What docs and comments say of the program.                               *)

(* docker-vps.mjs:16: a successful deployment brings the OLD colour down,   *)
(* so the colour that serves is running when the deployment ends.           *)
DeployLeavesLiveUp ==
  [][\A r \in Runners :
       Running(r) /\ run[r].plan = "deploy" /\ run'[r].status = "ok"
       => \A s \in ServiceSet : loaded[s] # Absent => up'[loaded[s]] # NoImage]_vars

(* docs/backend-lifecycle.md:68: rollback switches nginx back to the        *)
(* previous colour, so a rollback that records a colour records another.    *)
RollbackSwitchesBack ==
  [][\A r \in Runners :
       At(r, "write_active_marker") /\ run[r].plan = "rollback" /\ ~At(r, "write_active_marker")'
         /\ run'[r].status = "running"
       => marker' # marker]_vars
==============================================================================
