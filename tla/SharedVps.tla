------------------------------- MODULE SharedVps -------------------------------
(****************************************************************************)
(* Several projects on one VPS: the ports that registration has granted     *)
(* them (Allocation) are the ports that their deployments bind and that the *)
(* server blocks of the one nginx name (cli.mjs, drivers/docker-vps.mjs,    *)
(* nginx.mjs, compose.mjs). A request q is an environment of a project; its *)
(* deployments follow each other, those of others come in between.          *)
(*                                                                          *)
(* What BlueGreen has in detail is coarse here: both compose files are one  *)
(* step, images are left out, pull, migrations, links and certificates have *)
(* no effect, there are no rollbacks. A registration is one step, see       *)
(* RegisterWorkflow. What docker binds, and the lines of a conf, are kept.  *)
(*                                                                          *)
(* Names are strings: the role of a service follows from its name, which is *)
(* all that the schema of a config allows.                                  *)
(****************************************************************************)
EXTENDS Allocation, FiniteSets

CONSTANTS
  Requests,     \* [project, environment, services, database], database is a port or NoPort
  Block,        \* the port_block of the VPS, or NoBlock
  Recorded,     \* the records that the registry has at first
  NoConf,       \* there is no server block, no compose file
  MaxFaults     \* bound of lost commands, lost answers and images that do not answer

Projects == {q.project : q \in Requests}
Colors == {"blue", "green"}
Steps == {"database", "write_compose", "compose_up_target", "health_check_target",
          "bootstrap_nginx_if_missing", "switch_ports", "nginx_reload",
          "write_active_marker", "verify_live", "compose_down_old"}

Names(q) == {q.services[i].name : i \in Positions(q.services)}
WithDomain(q) == {q.services[i].name : i \in Where(q.services, "domain")}

\* The last of the services with a domain, whose probe decides.
Decisive(q) == LET d == Where(q.services, "domain")
               IN  q.services[CHOOSE i \in d : \A j \in d : j <= i].name

\* The lines of the conf: each block has its own port, the admin site the backend's too.
Lines(q) == {<<s, s>> : s \in WithDomain(q)} \cup {<<s, "backend">> : s \in WithDomain(q) \cap {"admin"}}

ASSUME RequestsAssumption ==
  \A q \in Requests :
    /\ q.services \in Seq({q.services[i] : i \in DOMAIN q.services})
    /\ \A i \in Positions(q.services) : q.services[i].port \in Nat
    /\ \A i, j \in Positions(q.services) : q.services[i].name = q.services[j].name => i = j
    /\ q.database \in Nat
ASSUME BlockAssumption ==
  Block # NoBlock => Block.start \in Nat \ {0} /\ Block.end \in Nat /\ Block.size \in Nat \ {0}
ASSUME PoolsAssumption ==
  \A name \in DOMAIN Pools : Pools[name] \in [start : Nat \ {0}, end : Nat]
ASSUME NoConfAssumption ==
  NoConf \notin Requests /\ \A q \in Requests : NoConf \notin
    [environment : {q.environment}, ports : [Lines(q) -> Nat]]
ASSUME FaultsAssumption == MaxFaults \in Nat

\* Records with a block each, as registrations leave them.
Proper(R) ==
  /\ \A r \in R :
       /\ \E k \in 0..Block.end : r.base = Block.start + k * Block.size
       /\ r.base + Block.size - 1 <= Block.end
       /\ \A x \in r.ports : /\ x.port \in r.base .. r.base + Half(Block) - 1
                             /\ x.green = x.port + Half(Block)
       /\ \A x, y \in r.ports : x.service = y.service \/ x.port = y.port => x = y
  /\ \A r, s \in R :
       r.base = s.base \/ (r.project = s.project /\ r.environment = s.environment) => r = s
ASSUME RecordedAssumption ==
  /\ \A r \in Recorded : \A x \in r.ports : x.port \in Nat /\ x.green \in Nat
  /\ Block # NoBlock => Proper(Recorded)

VARIABLES
  recs,         \* the records of the VPS in the registry
  marker,       \* marker[p]: the content of active_env, "absent" without it
  file,         \* file[p]: the request whose ports the compose files of p have
  containers,   \* what runs: [project, unit, service, environment, port]
  conf,         \* conf[p]: the nginx conf of p, [environment, ports]; ports[<<b, s>>] is the
                \* port in the line `set $<s>_port` of the server block of the service b
  loaded,       \* what nginx has read of it
  at,           \* at[q]: the command at which the run of q is, or how it ended
  faults

vars == <<recs, marker, file, containers, conf, loaded, at, faults>>

Init ==
  /\ recs = Recorded
  /\ marker = [p \in Projects |-> "absent"]
  /\ file = [p \in Projects |-> NoConf]
  /\ containers = {}
  /\ conf = [p \in Projects |-> NoConf] /\ loaded = conf
  /\ at = [q \in Requests |-> "idle"]
  /\ faults = 0
------------------------------------------------------------------------------
(* Ports and colours.                                                       *)

\* The entries of a service in the record of its project and environment.
Entries(q, s) ==
  {x \in UNION {r.ports : r \in {r \in recs : r.project = q.project /\ r.environment = q.environment}} :
     x.service = s}

\* Variant: the green port is the next one, whatever the record says.
NextPortOf(q, s, c) ==
  LET x == CHOOSE x \in Entries(q, s) : TRUE IN IF c = "blue" THEN x.port ELSE x.port + 1

\* A record without a green port means the next one.
PortOf(q, s, c) ==
  LET x == CHOOSE x \in Entries(q, s) : TRUE
  IN  IF c = "blue" THEN x.port ELSE IF x.green # NoPort THEN x.green ELSE x.port + 1

Target(q) == IF marker[q.project] \in {"absent", "blue"} THEN "green" ELSE "blue"
Old(q) == IF Target(q) = "green" THEN "blue" ELSE "green"

Bound(n) == \E k \in containers : k.port = n

Ended(q) == at[q] \in {"idle", "ok", "failed"}
Fault == faults < MaxFaults /\ faults' = faults + 1
Stop(q) == at' = [at EXCEPT ![q] = "failed"]
Continue(q, step) == at' = [at EXCEPT ![q] = step] /\ UNCHANGED faults
Exit(q, step) == Continue(q, step) \/ (Stop(q) /\ Fault)
------------------------------------------------------------------------------
(* Registration, and the start of a run.                                    *)

Register(q) ==
  /\ \E r \in Grants(recs, "vps", Block, q) : recs' = recs \cup {r}
  /\ UNCHANGED <<marker, file, containers, conf, loaded, at, faults>>

Registered(q) == \E r \in recs : r.project = q.project /\ r.environment = q.environment

\* What cli.mjs and planDeploy refuse: no port on record, nothing for nginx, an admin site
\* without a backend.
Deployable(q) ==
  /\ Registered(q) /\ \A s \in Names(q) : Entries(q, s) # {}
  /\ WithDomain(q) # {}
  /\ "admin" \in WithDomain(q) => "backend" \in Names(q)

Dispatch(q) ==
  /\ Ended(q)
  /\ at' = [at EXCEPT ![q] = IF ~Deployable(q) THEN "failed"
                             ELSE IF q.database = NoPort THEN "write_compose" ELSE "database"]
  /\ UNCHANGED <<recs, marker, file, containers, conf, loaded, faults>>
------------------------------------------------------------------------------
(* The commands.                                                            *)

\* docker compose up: the unit's containers of these services are replaced. A port that
\* somebody else has bound fails the command; some of the others may have started.
Up(q, wanted, next) ==
  LET Own(k) == \E w \in wanted : <<k.project, k.unit, k.service>> = <<w.project, w.unit, w.service>>
      rest == {k \in containers : ~Own(k)}
      free == {w \in wanted : \A k \in rest : k.port # w.port}
  IN  \E started \in SUBSET free :
        /\ \A w, x \in started : w.port = x.port => w = x
        /\ containers' = rest \cup started
        /\ \/ started = wanted /\ Exit(q, next)
           \/ started # wanted /\ free # wanted /\ Stop(q) /\ UNCHANGED faults
           \/ started # wanted /\ Stop(q) /\ Fault

Container(q, unit, s, n) ==
  [project |-> q.project, unit |-> unit, service |-> s, environment |-> q.environment, port |-> n]

\* The database of a project runs already, or is started.
Database(q) ==
  /\ at[q] = "database"
  /\ IF \E k \in containers : k.project = q.project /\ k.unit = "db"
       THEN Exit(q, "write_compose") /\ UNCHANGED containers
       ELSE Up(q, {Container(q, "db", "postgres", q.database)}, "write_compose")
  /\ UNCHANGED <<recs, marker, file, conf, loaded>>

\* The compose files are the project's, whatever the environment.
WriteCompose(q) ==
  /\ at[q] = "write_compose"
  /\ file' = [file EXCEPT ![q.project] = q]
  /\ Exit(q, "compose_up_target")
  /\ UNCHANGED <<recs, marker, containers, conf, loaded>>

ComposeUpTarget(q) ==
  /\ at[q] = "compose_up_target"
  /\ LET f == file[q.project]
     IN  Up(q, {Container(f, Target(q), s, PortOf(f, s, Target(q))) : s \in Names(f)},
            "health_check_target")
  /\ UNCHANGED <<recs, marker, file, conf, loaded>>

\* The probe asks the port, not the container.
HealthCheckTarget(q) ==
  /\ at[q] = "health_check_target"
  /\ IF Bound(PortOf(q, Decisive(q), Target(q)))
       THEN Exit(q, "bootstrap_nginx_if_missing")
       ELSE Stop(q) /\ UNCHANGED faults
  /\ UNCHANGED <<recs, marker, file, containers, conf, loaded>>

\* nginx reads the confs of all projects.
Reload == loaded' = conf'

BootstrapNginx(q) ==
  /\ at[q] = "bootstrap_nginx_if_missing"
  /\ IF conf[q.project] # NoConf
       THEN Exit(q, "switch_ports") /\ UNCHANGED <<conf, loaded>>
       ELSE /\ conf' = [conf EXCEPT ![q.project] =
                 [environment |-> q.environment,
                  ports |-> [l \in Lines(q) |-> PortOf(q, l[2], Target(q))]]]
            /\ \/ Reload /\ Exit(q, "switch_ports")
               \/ UNCHANGED loaded /\ Stop(q) /\ Fault
  /\ UNCHANGED <<recs, marker, file, containers>>

\* Variant: the pattern stops at the first line that it fits, the service's own.
SwitchOwnLines(q) ==
  /\ at[q] = "switch_ports" /\ conf[q.project] # NoConf
  /\ conf' = [conf EXCEPT ![q.project].ports =
       [l \in DOMAIN @ |-> IF l[1] = l[2] /\ l[2] \in Names(q) THEN PortOf(q, l[2], Target(q)) ELSE @[l]]]
  /\ Exit(q, "nginx_reload")
  /\ UNCHANGED <<recs, marker, file, containers, loaded>>

\* One sed per service, on every line that sets its port. When it is cut short only those
\* of some services have been changed.
SwitchPorts(q) ==
  /\ at[q] = "switch_ports"
  /\ IF conf[q.project] = NoConf
       THEN Stop(q) /\ UNCHANGED <<conf, faults>>
       ELSE \E done \in SUBSET Names(q) :
              /\ conf' = [conf EXCEPT ![q.project].ports =
                   [l \in DOMAIN @ |-> IF l[2] \in done THEN PortOf(q, l[2], Target(q)) ELSE @[l]]]
              /\ \/ done = Names(q) /\ Exit(q, "nginx_reload")
                 \/ done # Names(q) /\ Stop(q) /\ Fault
  /\ UNCHANGED <<recs, marker, file, containers, loaded>>

NginxReload(q) ==
  /\ at[q] = "nginx_reload"
  /\ UNCHANGED conf /\ Reload
  /\ Exit(q, "write_active_marker")
  /\ UNCHANGED <<recs, marker, file, containers>>

\* Variant: the colour variable is unset.
WriteUnsetColor(q) ==
  /\ at[q] = "write_active_marker"
  /\ marker' = [marker EXCEPT ![q.project] = ""]
  /\ Exit(q, "verify_live")
  /\ UNCHANGED <<recs, file, containers, conf, loaded>>

WriteActiveMarker(q) ==
  /\ at[q] = "write_active_marker"
  /\ marker' = [marker EXCEPT ![q.project] = Target(q)]
  /\ Exit(q, "verify_live")
  /\ UNCHANGED <<recs, file, containers, conf, loaded>>

\* A domain without a server block of its own may be answered by another's.
Verified(q) ==
  LET c == loaded[q.project]
      l == <<Decisive(q), Decisive(q)>>
  IN  IF c = NoConf \/ c.environment # q.environment \/ l \notin DOMAIN c.ports THEN BOOLEAN
      ELSE {Bound(c.ports[l])}

VerifyLive(q) ==
  /\ at[q] = "verify_live"
  /\ \/ TRUE \in Verified(q) /\ Exit(q, "compose_down_old")
     \/ FALSE \in Verified(q) /\ Stop(q) /\ UNCHANGED faults
  /\ UNCHANGED <<recs, marker, file, containers, conf, loaded>>

ComposeDownOld(q) ==
  /\ at[q] = "compose_down_old"
  /\ containers' = {k \in containers : ~(k.project = q.project /\ k.unit = Old(q)
                                           /\ k.service \in Names(file[q.project]))}
  /\ Exit(q, "ok")
  /\ UNCHANGED <<recs, marker, file, conf, loaded>>

Command(q) ==
  \/ Database(q) \/ WriteCompose(q) \/ ComposeUpTarget(q) \/ HealthCheckTarget(q)
  \/ BootstrapNginx(q) \/ SwitchPorts(q) \/ NginxReload(q) \/ WriteActiveMarker(q)
  \/ VerifyLive(q) \/ ComposeDownOld(q)

\* A command that never ran, or an image that does not answer.
CommandLost(q) ==
  /\ ~Ended(q) /\ Stop(q) /\ Fault
  /\ UNCHANGED <<recs, marker, file, containers, conf, loaded>>

\* certbot's renewals, a reboot, an operator.
ReloadElsewhere ==
  /\ loaded' = conf
  /\ UNCHANGED <<recs, marker, file, containers, conf, at, faults>>

Next ==
  \/ \E q \in Requests : Register(q) \/ Dispatch(q) \/ Command(q) \/ CommandLost(q)
  \/ ReloadElsewhere

Spec == Init /\ [][Next]_vars

\* Runs go on to their end, and a project is deployed again and again.
RetrySpec == Spec /\ \A q \in Requests : WF_vars(Command(q)) /\ SF_vars(Dispatch(q))
------------------------------------------------------------------------------
(* Properties.                                                              *)

ConfOf(p, c) ==
  c = NoConf \/ \E q \in Requests : q.project = p /\
                  c \in [environment : {q.environment}, ports : [Lines(q) -> Nat]]

(* The types; that no two containers have one port is docker's part.        *)
TypeOK ==
  /\ marker \in [Projects -> Colors \cup {"absent"}]
  /\ file \in [Projects -> Requests \cup {NoConf}]
  /\ \A p \in Projects : file[p] # NoConf => file[p].project = p
  /\ \A k \in containers : k.project \in Projects /\ k.unit \in Colors \cup {"db"} /\ k.port \in Nat
  /\ \A k, l \in containers : k.port = l.port => k = l
  /\ DOMAIN conf = Projects /\ DOMAIN loaded = Projects
  /\ \A p \in Projects : ConfOf(p, conf[p]) /\ ConfOf(p, loaded[p])
  /\ at \in [Requests -> Steps \cup {"idle", "ok", "failed"}]
  /\ faults \in 0..MaxFaults

(* What nginx routes a line to is, if anything listens there, a container   *)
(* of that service, project and environment, whatever the others register,  *)
(* deploy, lose or reload ("projects never collide", register.mjs:115-116). *)
OwnTraffic ==
  \A p \in Projects : loaded[p] # NoConf =>
    \A l \in DOMAIN loaded[p].ports, k \in containers :
      k.port = loaded[p].ports[l] =>
        k.project = p /\ k.environment = loaded[p].environment /\ k.service = l[2]

(* A run that ends well leaves all lines of its project at one colour, the  *)
(* marker's: those that bootstrap wrote as numbers of the first deployment, *)
(* the backend's port in the admin site, too (nginx.mjs:87-92).             *)
FinishedRunMovesAll ==
  [][\A q \in Requests : at[q] # "ok" /\ at'[q] = "ok" =>
       \A l \in DOMAIN loaded[q.project].ports :
         loaded[q.project].ports[l] = PortOf(q, l[2], marker[q.project])]_vars

(* A project that is registered can be deployed: no port that another one   *)
(* holds, and nothing a lost run has left behind, keeps it out for ever.    *)
NoOneShutOut ==
  \A q \in Requests : Deployable(q) ~> at[q] = "ok"
==============================================================================
