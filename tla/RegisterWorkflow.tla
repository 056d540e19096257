-------------------------- MODULE RegisterWorkflow --------------------------
(****************************************************************************)
(* The registry file and the jobs that register projects in it:             *)
(* .github/workflows/register-project.yml around `cli.mjs register`. A job  *)
(* checks out the registry, computes the new one from its copy and pushes   *)
(* the whole file; git refuses the push when main has moved. There is no    *)
(* concurrency group, so any number of jobs run at the same time.           *)
(* With SharedFile the jobs are `cli.mjs register --execute` processes on   *)
(* one registry file, which read it and later overwrite it.                 *)
(****************************************************************************)
EXTENDS Allocation

CONSTANTS
  Targets,      \* the ids of the registry's resources
  Kind,         \* Kind[t]: "vps" or "external"
  Block,        \* Block[t]: the port_block the registry starts with, or NoBlock
  Edits,        \* port_block values an operator may put into the registry later
  Requests,     \* the registrations that may be dispatched
  Projects, Environments, ServiceNames, Domains,   \* the names they may use
  NoRequest,    \* a job that has not been given one
  Jobs,         \* jobs that may exist at the same time
  SharedFile,   \* TRUE: processes on one file; FALSE: git
  MaxEdits,     \* bound on the edits of port_block
  MaxFaults     \* bound on the jobs that die

Blocks == [start : Nat \ {0}, end : Nat, size : Nat \ {0, 1}]

Services == [name : ServiceNames, exposure : {"domain", "port", "none"},
             domain : Domains, port : Nat]

ASSUME TargetsAssumption ==
  /\ Kind \in [Targets -> {"vps", "external"}]
  /\ Block \in [Targets -> Blocks \cup {NoBlock}]
  /\ Edits \subseteq Blocks
  /\ NoBlock \notin Blocks
ASSUME PoolsAssumption ==
  \A name \in DOMAIN Pools : Pools[name] \in [start : Nat \ {0}, end : Nat]
ASSUME RequestsAssumption ==
  /\ NoRequest \notin Requests
  /\ \A q \in Requests :
       /\ q.project \in Projects /\ q.environment \in Environments
       /\ q.services \in Seq(Services)
  /\ \A d \in Domains : Lower(d) \in Domains
ASSUME BoundsAssumption ==
  MaxEdits \in Nat /\ MaxFaults \in Nat /\ SharedFile \in BOOLEAN

Records == [project : Projects, environment : Environments, base : Nat,
            ports : SUBSET [service : ServiceNames, port : Nat \ {NoPort}, green : Nat],
            domains : SUBSET [service : ServiceNames, domain : Domains]]
Registries == [projects : [Targets -> SUBSET Records],
               block : [Targets -> Blocks \cup {NoBlock}]]

VARIABLES
  main,     \* the registry at the head of main: projects and port_block by target
  rev,      \* the number of commits on main so far
  job,      \* job[j]: phase, the request, the revision checked out, its copy of the file
  edits,    \* edits made so far
  faults    \* jobs that have died so far

vars == <<main, rev, job, edits, faults>>

NewRegistry == [projects |-> [t \in Targets |-> {}], block |-> Block]

Init ==
  /\ main = NewRegistry
  /\ rev = 0
  /\ job = [j \in Jobs |-> [phase |-> "idle", request |-> NoRequest, rev |-> 0,
                            copy |-> NewRegistry]]
  /\ edits = 0
  /\ faults = 0

Idle(j) == job[j].phase \notin {"checked_out", "registered"}

\* Variant: the copy is fresh and the revision it is pushed against is not.
CheckoutStale(j, q) ==
  /\ Idle(j)
  /\ job' = [job EXCEPT ![j] = [phase |-> "checked_out", request |-> q, rev |-> 0,
                                copy |-> main]]
  /\ UNCHANGED <<main, rev, edits, faults>>

\* The workflow is dispatched: actions/checkout.
Checkout(j, q) ==
  /\ Idle(j)
  /\ job' = [job EXCEPT ![j] = [phase |-> "checked_out", request |-> q, rev |-> rev,
                                copy |-> main]]
  /\ UNCHANGED <<main, rev, edits, faults>>

GrantsFor(reg, q) ==
  IF q.target \notin Targets THEN {}
  ELSE Grants(reg.projects[q.target], Kind[q.target], reg.block[q.target], q)

WithRecord(reg, t, record) ==
  [reg EXCEPT !.projects[t] = @ \cup {record}]

\* registerProject on the job's copy; when it throws the process exits with status 1.
Register(j) ==
  /\ job[j].phase = "checked_out"
  /\ LET q == job[j].request
         granted == GrantsFor(job[j].copy, q)
     IN  \/ /\ granted = {}
            /\ job' = [job EXCEPT ![j].phase = "failed"]
         \/ \E record \in granted :
              job' = [job EXCEPT ![j].phase = "registered",
                                 ![j].copy = WithRecord(@, q.target, record)]
  /\ UNCHANGED <<main, rev, edits, faults>>

\* Variant: git push --force.
PushForced(j) ==
  /\ ~SharedFile
  /\ job[j].phase = "registered"
  /\ main' = job[j].copy
  /\ rev' = rev + 1
  /\ job' = [job EXCEPT ![j].phase = "done"]
  /\ UNCHANGED <<edits, faults>>

\* git push is refused unless main is still the revision that was checked out. The job
\* may die after the push has taken effect.
Push(j) ==
  /\ ~SharedFile
  /\ job[j].phase = "registered"
  /\ job[j].rev = rev
  /\ main' = job[j].copy
  /\ rev' = rev + 1
  /\ \/ job' = [job EXCEPT ![j].phase = "done"] /\ UNCHANGED faults
     \/ /\ job' = [job EXCEPT ![j].phase = "failed"]
        /\ faults < MaxFaults /\ faults' = faults + 1
  /\ UNCHANGED edits

PushRejected(j) ==
  /\ ~SharedFile
  /\ job[j].phase = "registered"
  /\ job[j].rev # rev
  /\ job' = [job EXCEPT ![j].phase = "failed"]
  /\ UNCHANGED <<main, rev, edits, faults>>

\* writeFileSync of the computed registry, whatever the file holds by now.
WriteFile(j) ==
  /\ SharedFile
  /\ job[j].phase = "registered"
  /\ main' = job[j].copy
  /\ rev' = rev + 1
  /\ job' = [job EXCEPT ![j].phase = "done"]
  /\ UNCHANGED <<edits, faults>>

JobDies(j) ==
  /\ ~Idle(j)
  /\ faults < MaxFaults /\ faults' = faults + 1
  /\ job' = [job EXCEPT ![j].phase = "failed"]
  /\ UNCHANGED <<main, rev, edits>>

\* An operator commits another port_block for a vps.
EditBlock(t, b) ==
  /\ Kind[t] = "vps"
  /\ edits < MaxEdits /\ edits' = edits + 1
  /\ main.block[t] # b
  /\ main' = [main EXCEPT !.block[t] = b]
  /\ rev' = rev + 1
  /\ UNCHANGED <<job, faults>>

Next ==
  \/ \E j \in Jobs, q \in Requests : Checkout(j, q)
  \/ \E j \in Jobs : Register(j) \/ Push(j) \/ PushRejected(j) \/ WriteFile(j) \/ JobDies(j)
  \/ \E t \in Targets, b \in Edits : EditBlock(t, b)

Spec == Init /\ [][Next]_vars

\* A job that runs goes on to its end; a registration that did not make it into the
\* registry is dispatched again.
Missing(q) == ~AlreadyRegistered(main.projects[q.target], q)
Fairness ==
  /\ \A j \in Jobs : WF_vars(Register(j)) /\ WF_vars(Push(j)) /\ WF_vars(PushRejected(j))
  /\ \A q \in Requests : SF_vars(Missing(q) /\ \E j \in Jobs : Checkout(j, q))

RetrySpec == Spec /\ Fairness
------------------------------------------------------------------------------
(* Properties.                                                              *)

AllPorts(r) == ({p.port : p \in r.ports} \cup {p.green : p \in r.ports}) \ {NoPort}
DomainNames(r) == {d.domain : d \in r.domains}

TypeOK ==
  /\ main \in Registries
  /\ rev \in Nat /\ edits \in 0..MaxEdits /\ faults \in 0..MaxFaults
  /\ job \in [Jobs -> [phase : {"idle", "checked_out", "registered", "done", "failed"},
                       request : Requests \cup {NoRequest}, rev : Nat,
                       copy : Registries]]
  /\ \A j \in Jobs : job[j].rev <= rev /\ (~Idle(j) => job[j].request \in Requests)

(* No two projects of a target hold the same port, blue or green, however   *)
(* their registrations overlap (docs/registry-design.md:124-125).           *)
PortsDisjoint ==
  \A t \in Targets : \A a, b \in main.projects[t] :
    a # b => AllPorts(a) \cap AllPorts(b) = {}

(* Within a project no port is granted twice, to two services or to the two *)
(* colours of a service (docs/registry-design.md:126).                      *)
PortsDistinct ==
  \A t \in Targets : \A r \in main.projects[t] : \A p, q \in r.ports :
    /\ p.port # p.green
    /\ p # q => {p.port, p.green} \cap {q.port, q.green} \subseteq {NoPort}

(* A record, once in the registry, is never lost or changed by a later push *)
(* of a file that was computed from an older checkout.                      *)
NoGrantLost ==
  [][\A t \in Targets : main.projects[t] \subseteq main'.projects[t]]_vars

\* Ledger over the records at the head of main.
Promise == INSTANCE Ledger WITH
  held <- [t \in Targets |->
             {[holder |-> <<r.project, r.environment>>, ports |-> AllPorts(r),
               domains |-> DomainNames(r)] : r \in main.projects[t]}]

(* The jobs together implement an atomic ledger without conflicting holders *)
(* (register-project.yml:51-67 around register.mjs:63-152).                 *)
KeepsLedger == Promise!Spec

(* Registrations that are dispatched again when they lose the race, or die, *)
(* end up in the registry: what main still has room for gets there.         *)
RetriesRegisterAll ==
  <>[](\A q \in Requests : Missing(q) => GrantsFor(main, q) = {})
==============================================================================
