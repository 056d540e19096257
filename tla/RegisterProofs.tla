--------------------------- MODULE RegisterProofs ---------------------------
(****************************************************************************)
(* Theorems about RegisterWorkflow, for every registry, every set of        *)
(* requests and every number of jobs.                                       *)
(****************************************************************************)
EXTENDS RegisterWorkflow, TLAPS

------------------------------------------------------------------------------
(* What a registration grants.                                              *)

(* A record granted to a request is one of the records of the registry.     *)
LEMMA GrantsTyped ==
  ASSUME NEW recs \in SUBSET Records, NEW kind, NEW block \in Blocks \cup {NoBlock},
         NEW q \in Requests, NEW record \in Grants(recs, kind, block, q)
  PROVE  record \in Records
<1> DEFINE services == q.services
<1>1. /\ services \in Seq(Services)
      /\ q.project \in Projects /\ q.environment \in Environments
  BY RequestsAssumption
<1>2. \A i \in Positions(services) : services[i] \in Services
  BY <1>1 DEF Positions
<1>3. DomainsOf(services) \in SUBSET [service : ServiceNames, domain : Domains]
  BY <1>2, RequestsAssumption DEF DomainsOf, Domain, Where, Services
<1>4. ASSUME NEW base \in Nat,
             NEW ports \in SUBSET [service : ServiceNames, port : Nat \ {NoPort}, green : Nat]
      PROVE  Record(q, base, ports) \in Records
  BY <1>1, <1>3, <1>4 DEF Record, Records
<1>5. CASE record \in GrantsBlock(recs, block, q) /\ block # NoBlock
  <2>1. block \in Blocks
    BY <1>5
  <2>2. PICK b \in Lowest(FreeBases(recs, block)) :
          record = Record(q, b, PortsForBlock(b, block, services))
    BY <1>5 DEF GrantsBlock
  <2>3. b \in Nat /\ b >= block.start /\ block.start \in Nat \ {0}
    BY <2>1, <2>2 DEF Lowest, FreeBases, Blocks
  <2>4. Half(block) \in Nat
    BY <2>1 DEF Half, Blocks
  <2>5. ASSUME NEW i \in Positions(services)
        PROVE  /\ services[i].name \in ServiceNames
               /\ b + (i - 1) \in Nat \ {NoPort}
               /\ b + Half(block) + (i - 1) \in Nat
    <3>1. i \in Nat \ {0}
      BY <1>1 DEF Positions
    <3>2. QED BY <1>2, <2>3, <2>4, <3>1 DEF Services, NoPort
  <2>6. PortsForBlock(b, block, services)
          \in SUBSET [service : ServiceNames, port : Nat \ {NoPort}, green : Nat]
    BY <2>5 DEF PortsForBlock
  <2>7. QED BY <1>4, <2>2, <2>3, <2>6
<1>6. CASE record \in GrantsPool(recs, q)
  <2>1. PICK g \in PoolPorts(recs, services) :
          record = Record(q, NoPort,
                     {[service |-> services[i].name, port |-> g[i], green |-> NoPort]
                        : i \in DOMAIN g})
    BY <1>6 DEF GrantsPool
  <2>2. /\ DOMAIN g = Where(services, "port")
        /\ \A i \in Where(services, "port") :
             \/ g[i] = services[i].port /\ FixedPort(services, i)
             \/ g[i] \in Pool(services, i) /\ services[i].name \in DOMAIN Pools
    BY <2>1 DEF PoolPorts, Lowest
  <2>3. ASSUME NEW i \in DOMAIN g
        PROVE  services[i].name \in ServiceNames /\ g[i] \in Nat \ {NoPort}
    <3>1. i \in Positions(services)
      BY <2>2 DEF Where
    <3>2. CASE g[i] = services[i].port /\ FixedPort(services, i)
      BY <1>2, <3>1, <3>2 DEF FixedPort, Services
    <3>3. CASE g[i] \in Pool(services, i) /\ services[i].name \in DOMAIN Pools
      BY <1>2, <3>1, <3>3, PoolsAssumption DEF Pool, Services, NoPort
    <3>4. QED BY <2>2, <3>2, <3>3
  <2>4. QED
    <3>1. NoPort \in Nat
      BY DEF NoPort
    <3>2. {[service |-> services[i].name, port |-> g[i], green |-> NoPort] : i \in DOMAIN g}
            \in SUBSET [service : ServiceNames, port : Nat \ {NoPort}, green : Nat]
      BY <2>3, <3>1
    <3>3. QED BY <1>4, <2>1, <3>1, <3>2
<1>7. CASE record = Record(q, NoPort, {})
  BY <1>4, <1>7 DEF NoPort
<1>8. QED BY <1>5, <1>6, <1>7 DEF Grants

(* The ports of a block with base b lie in b..b+size-1.                      *)
LEMMA BlockPortsInBlock ==
  ASSUME NEW block \in Blocks, NEW base \in Nat, NEW q \in Requests,
         Len(q.services) <= Half(block)
  PROVE  AllPorts(Record(q, base, PortsForBlock(base, block, q.services)))
           \subseteq base .. base + block.size - 1
<1> DEFINE services == q.services
           ports == PortsForBlock(base, block, services)
<1>1. services \in Seq(Services)
  BY RequestsAssumption
<1>2. Half(block) \in Nat /\ 2 * Half(block) <= block.size /\ block.size \in Nat
  BY DEF Half, Blocks
<1>3. ASSUME NEW i \in Positions(services)
      PROVE  /\ base + (i - 1) \in base .. base + block.size - 1
             /\ base + Half(block) + (i - 1) \in base .. base + block.size - 1
  <2>1. i \in Nat \ {0} /\ i <= Half(block)
    BY <1>1, <1>2 DEF Positions
  <2>2. QED BY <1>2, <2>1
<1>4. \A p \in ports : /\ p.port \in base .. base + block.size - 1
                       /\ p.green \in base .. base + block.size - 1
  BY <1>3 DEF PortsForBlock
<1>5. QED BY <1>4 DEF AllPorts, Record

(* Two different numbers of whole blocks are at least a block apart.        *)
LEMMA BlocksApart ==
  ASSUME NEW size \in Nat, NEW k \in Nat, NEW m \in Nat, k < m
  PROVE  k * size + size <= m * size
<1> DEFINE d == m - k - 1
<1>1. d \in Nat /\ m = k + 1 + d
  OBVIOUS
<1>2. d * size \in Nat /\ k * size \in Nat
  BY <1>1
<1>3. m * size = k * size + size + d * size
  BY <1>1
<1>4. QED BY <1>2, <1>3
------------------------------------------------------------------------------
(* Type correctness.                                                        *)

LEMMA WithRecordTyped ==
  ASSUME NEW reg \in Registries, NEW t \in Targets, NEW record \in Records
  PROVE  WithRecord(reg, t, record) \in Registries
BY DEF WithRecord, Registries

LEMMA GrantsForTyped ==
  ASSUME NEW reg \in Registries, NEW q \in Requests, NEW record \in GrantsFor(reg, q)
  PROVE  q.target \in Targets /\ record \in Records
<1>1. q.target \in Targets
  BY DEF GrantsFor
<1>2. /\ reg.projects[q.target] \in SUBSET Records
      /\ reg.block[q.target] \in Blocks \cup {NoBlock}
  BY <1>1 DEF Registries
<1>3. QED BY <1>1, <1>2, GrantsTyped DEF GrantsFor

LEMMA InitTyped == Init => TypeOK
<1> SUFFICES ASSUME Init PROVE TypeOK
  OBVIOUS
<1>1. NewRegistry \in Registries
  BY TargetsAssumption DEF NewRegistry, Registries
<1>2. QED BY <1>1, BoundsAssumption DEF Init, TypeOK, Idle

LEMMA NextTyped == TypeOK /\ [Next]_vars => TypeOK'
<1> SUFFICES ASSUME TypeOK, [Next]_vars PROVE TypeOK'
  OBVIOUS
<1> USE BoundsAssumption
<1>1. ASSUME NEW j \in Jobs, NEW q \in Requests, Checkout(j, q) PROVE TypeOK'
  BY <1>1 DEF Checkout, TypeOK, Idle
<1>2. ASSUME NEW j \in Jobs, Register(j) PROVE TypeOK'
  <2> DEFINE q == job[j].request
  <2>1. job[j].copy \in Registries /\ q \in Requests
    BY <1>2 DEF Register, TypeOK, Idle
  <2>2. CASE job' = [job EXCEPT ![j].phase = "failed"]
    BY <1>2, <2>2 DEF Register, TypeOK, Idle
  <2>3. ASSUME NEW record \in GrantsFor(job[j].copy, q),
               job' = [job EXCEPT ![j].phase = "registered",
                                  ![j].copy = WithRecord(@, q.target, record)]
        PROVE  TypeOK'
    <3>1. PICK reg \in Registries : reg = WithRecord(job[j].copy, q.target, record)
      <4>1. q.target \in Targets /\ record \in Records
        BY <2>1, <2>3, GrantsForTyped
      <4>2. QED BY <2>1, <4>1, WithRecordTyped
    <3>2. job' = [job EXCEPT ![j] = [job[j] EXCEPT !.phase = "registered", !.copy = reg]]
      BY <2>3, <3>1
    <3>3. UNCHANGED <<main, rev, edits, faults>> /\ job[j].request \in Requests
      BY <1>2, <2>1 DEF Register
    <3>4. QED BY <3>2, <3>3 DEF TypeOK, Idle
  <2>4. QED BY <1>2, <2>2, <2>3 DEF Register
<1>3. ASSUME NEW j \in Jobs, Push(j) PROVE TypeOK'
  BY <1>3 DEF Push, TypeOK, Idle
<1>4. ASSUME NEW j \in Jobs, PushRejected(j) PROVE TypeOK'
  BY <1>4 DEF PushRejected, TypeOK, Idle
<1>5. ASSUME NEW j \in Jobs, WriteFile(j) PROVE TypeOK'
  BY <1>5 DEF WriteFile, TypeOK, Idle
<1>6. ASSUME NEW j \in Jobs, JobDies(j) PROVE TypeOK'
  BY <1>6 DEF JobDies, TypeOK, Idle
<1>7. ASSUME NEW t \in Targets, NEW b \in Edits, EditBlock(t, b) PROVE TypeOK'
  <2>1. b \in Blocks
    BY TargetsAssumption
  <2>2. main' \in Registries
    BY <1>7, <2>1 DEF EditBlock, TypeOK, Registries
  <2>3. QED BY <1>7, <2>2 DEF EditBlock, TypeOK, Idle
<1>8. CASE UNCHANGED vars
  BY <1>8 DEF TypeOK, Idle, vars
<1>9. QED BY <1>1, <1>2, <1>3, <1>4, <1>5, <1>6, <1>7, <1>8 DEF Next

(* The registry and every job's copy of it are well formed at all times,    *)
(* whatever the jobs do: TypeOK.                                            *)
THEOREM TypeCorrect == Spec => []TypeOK
<1>1. Init => TypeOK
  BY InitTyped
<1>2. TypeOK /\ [Next]_vars => TypeOK'
  BY NextTyped
<1>3. QED BY <1>1, <1>2, PTL DEF Spec
------------------------------------------------------------------------------
(* What a registration adds, and nothing else.                              *)

\* registerProject adds one record, of the request's project and environment, that the
\* registry did not have.
LEMMA GrantAddsOne ==
  ASSUME NEW reg \in Registries, NEW q \in Requests, NEW record \in GrantsFor(reg, q)
  PROVE  /\ q.target \in Targets /\ record \in Records
         /\ record \notin reg.projects[q.target]
         /\ record.project = q.project /\ record.environment = q.environment
         /\ record.domains = DomainsOf(q.services)
         /\ ~AlreadyRegistered(reg.projects[q.target], q)
         /\ DomainsFree(reg.projects[q.target], q.services)
<1>1. q.target \in Targets /\ record \in Records
  BY GrantsForTyped
<1>2. /\ ~AlreadyRegistered(reg.projects[q.target], q)
      /\ DomainsFree(reg.projects[q.target], q.services)
      /\ record.project = q.project /\ record.environment = q.environment
      /\ record.domains = DomainsOf(q.services)
  BY <1>1 DEF GrantsFor, Grants, GrantsBlock, GrantsPool, Record
<1>3. record \notin reg.projects[q.target]
  BY <1>2 DEF AlreadyRegistered
<1>4. QED BY <1>1, <1>2, <1>3

LEMMA WithRecordAddsOne ==
  ASSUME NEW reg \in Registries, NEW t \in Targets, NEW record \in Records
  PROVE  /\ WithRecord(reg, t, record).block = reg.block
         /\ WithRecord(reg, t, record).projects = [reg.projects EXCEPT ![t] = @ \cup {record}]
         /\ WithRecord(reg, t, record).projects[t] = reg.projects[t] \cup {record}
         /\ \A u \in Targets : u # t =>
              WithRecord(reg, t, record).projects[u] = reg.projects[u]
BY DEF WithRecord, Registries

\* What a step does to the copy of a job that goes on: it is main as it is, or gains a
\* granted record, or stays.
LEMMA StepOfACopy ==
  ASSUME TypeOK, Next, NEW j \in Jobs, job'[j] # job[j]
  PROVE  \/ \E q \in Requests : Checkout(j, q) /\ job'[j].copy = main
         \/ /\ Register(j)
            /\ \E record \in GrantsFor(job[j].copy, job[j].request) :
                 /\ job'[j].phase = "registered" /\ job'[j].rev = job[j].rev
                 /\ job'[j].copy = WithRecord(job[j].copy, job[j].request.target, record)
         \/ job'[j].phase \in {"done", "failed"} /\ job'[j].copy = job[j].copy
<1>1. ASSUME NEW o \in Jobs, NEW q \in Requests, Checkout(o, q)
      PROVE  o = j /\ job'[j].copy = main
  BY <1>1 DEF Checkout, TypeOK
<1>2. ASSUME NEW o \in Jobs, Register(o)
      PROVE  /\ o = j
             /\ \/ \E record \in GrantsFor(job[j].copy, job[j].request) :
                     /\ job'[j].phase = "registered" /\ job'[j].rev = job[j].rev
                     /\ job'[j].copy = WithRecord(job[j].copy, job[j].request.target, record)
                \/ job'[j].phase = "failed" /\ job'[j].copy = job[j].copy
  <2>1. o = j
    BY <1>2 DEF Register, TypeOK
  <2>2. CASE job' = [job EXCEPT ![j].phase = "failed"]
    BY <2>1, <2>2 DEF TypeOK
  <2>3. ASSUME NEW record \in GrantsFor(job[j].copy, job[j].request),
               job' = [job EXCEPT ![j].phase = "registered",
                                  ![j].copy = WithRecord(@, job[j].request.target, record)]
        PROVE  /\ job'[j].phase = "registered" /\ job'[j].rev = job[j].rev
               /\ job'[j].copy = WithRecord(job[j].copy, job[j].request.target, record)
    BY <2>3 DEF TypeOK
  <2>4. QED BY <1>2, <2>1, <2>2, <2>3 DEF Register
<1>3. ASSUME NEW o \in Jobs, Push(o) \/ PushRejected(o) \/ WriteFile(o) \/ JobDies(o)
      PROVE  job'[j].phase \in {"done", "failed"} /\ job'[j].copy = job[j].copy
  BY <1>3 DEF Push, PushRejected, WriteFile, JobDies, TypeOK
<1>4. ASSUME NEW t \in Targets, NEW b \in Edits, EditBlock(t, b) PROVE FALSE
  BY <1>4 DEF EditBlock
<1>5. QED BY <1>1, <1>2, <1>3, <1>4 DEF Next

\* What a step does to main: a job's copy becomes main, or an operator edits a block.
LEMMA StepOfMain ==
  ASSUME TypeOK, Next, main' # main
  PROVE  \/ \E j \in Jobs : (Push(j) \/ WriteFile(j)) /\ main' = job[j].copy
         \/ \E t \in Targets, b \in Edits :
              EditBlock(t, b) /\ main' = [main EXCEPT !.block[t] = b]
BY DEF Next, Checkout, Register, Push, PushRejected, WriteFile, JobDies, EditBlock
------------------------------------------------------------------------------
(* Every holder is entered once, and no domain is held twice.               *)

\* Two records of a registry have different holders and no domain in common.
Exclusive(reg) ==
  \A t \in Targets : \A a, b \in reg.projects[t] : a # b =>
    /\ <<a.project, a.environment>> # <<b.project, b.environment>>
    /\ DomainNames(a) \cap DomainNames(b) = {}

AllExclusive == Exclusive(main) /\ \A j \in Jobs : Exclusive(job[j].copy)

LEMMA WithRecordExclusive ==
  ASSUME NEW reg \in Registries, Exclusive(reg),
         NEW q \in Requests, NEW record \in GrantsFor(reg, q)
  PROVE  Exclusive(WithRecord(reg, q.target, record))
<1> DEFINE t == q.target
           recs == reg.projects[t]
<1>1. /\ t \in Targets /\ record \in Records
      /\ record.project = q.project /\ record.environment = q.environment
      /\ record.domains = DomainsOf(q.services)
      /\ ~AlreadyRegistered(recs, q) /\ DomainsFree(recs, q.services)
  BY GrantAddsOne
<1>2. ASSUME NEW r \in recs
      PROVE  /\ <<r.project, r.environment>> # <<record.project, record.environment>>
             /\ DomainNames(r) \cap DomainNames(record) = {}
  <2>1. <<r.project, r.environment>> # <<record.project, record.environment>>
    BY <1>1, <1>2 DEF AlreadyRegistered
  <2>2. \A d \in r.domains : d.domain \in UsedDomains(recs)
    BY <1>2 DEF UsedDomains
  <2>3. \A d \in record.domains : d.domain \notin UsedDomains(recs)
    BY <1>1 DEF DomainsOf, DomainsFree
  <2>4. QED BY <2>1, <2>2, <2>3 DEF DomainNames
<1>3. \A u \in Targets : WithRecord(reg, t, record).projects[u]
                           = IF u = t THEN recs \cup {record} ELSE reg.projects[u]
  <2>1. t \in Targets /\ record \in Records
    BY <1>1
  <2>2. ASSUME NEW u \in Targets, u = t
        PROVE  WithRecord(reg, t, record).projects[u] = recs \cup {record}
    BY <2>1, <2>2 DEF WithRecord, Registries
  <2>3. ASSUME NEW u \in Targets, u # t
        PROVE  WithRecord(reg, t, record).projects[u] = reg.projects[u]
    BY <2>1, <2>3 DEF WithRecord, Registries
  <2>4. QED BY <2>2, <2>3
<1>4. ASSUME NEW u \in Targets, NEW a \in WithRecord(reg, t, record).projects[u],
             NEW b \in WithRecord(reg, t, record).projects[u], a # b
      PROVE  /\ <<a.project, a.environment>> # <<b.project, b.environment>>
             /\ DomainNames(a) \cap DomainNames(b) = {}
  <2>1. CASE a \in reg.projects[u] /\ b \in reg.projects[u]
    BY <1>4, <2>1 DEF Exclusive
  <2>2. CASE u = t /\ a \in recs /\ b = record
    BY <1>2, <2>2
  <2>3. CASE u = t /\ a = record /\ b \in recs
    BY <1>2, <2>3
  <2>4. QED BY <1>3, <1>4, <2>1, <2>2, <2>3
<1>5. QED BY <1>4 DEF Exclusive

LEMMA NextExclusive ==
  ASSUME TypeOK, AllExclusive, [Next]_vars
  PROVE  AllExclusive'
<1>1. CASE UNCHANGED vars
  BY <1>1 DEF AllExclusive, Exclusive, vars
<1>2. CASE Next
  <2>1. ASSUME NEW j \in Jobs PROVE Exclusive(job'[j].copy)
    <3>1. CASE job'[j] = job[j]
      BY <3>1 DEF AllExclusive
    <3>2. CASE job'[j].copy = main \/ job'[j].copy = job[j].copy
      BY <3>2 DEF AllExclusive
    <3>3. ASSUME Register(j), NEW record \in GrantsFor(job[j].copy, job[j].request),
                 job'[j].copy = WithRecord(job[j].copy, job[j].request.target, record)
          PROVE  Exclusive(job'[j].copy)
      <4>1. job[j].copy \in Registries /\ job[j].request \in Requests
        BY <3>3 DEF Register, TypeOK, Idle
      <4>2. QED BY <3>3, <4>1, WithRecordExclusive DEF AllExclusive
    <3>4. QED BY <1>2, <3>1, <3>2, <3>3, StepOfACopy
  <2>2. Exclusive(main')
    <3>1. CASE main' = main
      BY <3>1 DEF AllExclusive
    <3>2. ASSUME NEW j \in Jobs, main' = job[j].copy PROVE Exclusive(main')
      BY <3>2 DEF AllExclusive
    <3>3. ASSUME NEW t \in Targets, NEW b, main' = [main EXCEPT !.block[t] = b]
          PROVE  Exclusive(main')
      BY <3>3 DEF AllExclusive, Exclusive, TypeOK, Registries
    <3>4. QED BY <1>2, <3>1, <3>2, <3>3, StepOfMain
  <2>3. QED BY <2>1, <2>2 DEF AllExclusive, Exclusive
<1>3. QED BY <1>1, <1>2

(* Whatever the jobs and the operators do, with git or on one file: no      *)
(* project+environment has two records on a target, so a registration that  *)
(* is dispatched again is not granted a second time, and no domain is held  *)
(* by two projects (register.mjs:74-93).                                    *)
THEOREM HoldersAndDomainsUnique == Spec => []Exclusive(main)
<1>1. Init => TypeOK /\ AllExclusive
  BY InitTyped DEF Init, NewRegistry, AllExclusive, Exclusive
<1>2. TypeOK /\ AllExclusive /\ [Next]_vars => (TypeOK /\ AllExclusive)'
  BY NextTyped, NextExclusive
<1>3. AllExclusive => Exclusive(main)
  BY DEF AllExclusive
<1>4. QED BY <1>1, <1>2, <1>3, PTL DEF Spec
------------------------------------------------------------------------------
(* Nothing is lost when git refuses the push of an old checkout, or when    *)
(* the processes that share one file do not overlap.                        *)

\* The processes on one file run one after the other.
OneAtATime == SharedFile => \A j, k \in Jobs : ~Idle(j) /\ ~Idle(k) => j = k

\* A job whose copy will become main when it gets that far.
Current(j) == SharedFile \/ job[j].rev = rev

\* Its copy has the records of main as it is, and the one that was granted.
CopiesCurrent ==
  \A j \in Jobs : Current(j) =>
    /\ job[j].phase = "checked_out" => job[j].copy.projects = main.projects
    /\ job[j].phase = "registered" =>
         \E t \in Targets : \E record \in Records \ main.projects[t] :
           job[j].copy.projects = [main.projects EXCEPT ![t] = @ \cup {record}]

LEMMA NextCurrent ==
  ASSUME TypeOK, CopiesCurrent, OneAtATime, OneAtATime', [Next]_vars
  PROVE  CopiesCurrent'
<1>1. CASE UNCHANGED vars
  BY <1>1 DEF CopiesCurrent, Current, vars
<1>2. ASSUME Next, main'.projects = main.projects, NEW j \in Jobs, Current(j)'
      PROVE  /\ job'[j].phase = "checked_out" => job'[j].copy.projects = main'.projects
             /\ job'[j].phase = "registered" =>
                  \E t \in Targets : \E record \in Records \ main'.projects[t] :
                    job'[j].copy.projects = [main'.projects EXCEPT ![t] = @ \cup {record}]
  <2>1. job'[j].rev = job[j].rev /\ job'[j].phase \notin {"done", "failed"} => Current(j)
    <3>1. rev \in Nat /\ rev' >= rev /\ job[j].rev \in Nat /\ job[j].rev <= rev
      <4>1. rev' = rev \/ rev' = rev + 1
        BY <1>2 DEF Next, Checkout, Register, Push, PushRejected, WriteFile, JobDies, EditBlock
      <4>2. rev \in Nat /\ job[j].rev \in Nat /\ job[j].rev <= rev
        BY DEF TypeOK
      <4>3. QED BY <4>1, <4>2
    <3>2. QED BY <1>2, <3>1 DEF Current
  <2>2. CASE job'[j] = job[j]
    BY <1>2, <2>1, <2>2 DEF CopiesCurrent
  <2>3. ASSUME NEW q \in Requests, Checkout(j, q), job'[j].copy = main
        PROVE  job'[j].phase = "checked_out" /\ job'[j].copy.projects = main'.projects
    BY <1>2, <2>3 DEF Checkout, TypeOK
  <2>4. ASSUME Register(j), NEW record \in GrantsFor(job[j].copy, job[j].request),
               job'[j].phase = "registered", job'[j].rev = job[j].rev,
               job'[j].copy = WithRecord(job[j].copy, job[j].request.target, record)
        PROVE  \E t \in Targets : \E new \in Records \ main'.projects[t] :
                 job'[j].copy.projects = [main'.projects EXCEPT ![t] = @ \cup {new}]
    <3>1. /\ job[j].phase = "checked_out" /\ job[j].copy \in Registries
          /\ job[j].request \in Requests
      BY <2>4 DEF Register, TypeOK, Idle
    <3>2. job[j].copy.projects = main'.projects
      BY <1>2, <2>1, <2>4, <3>1 DEF CopiesCurrent
    <3>3. /\ job[j].request.target \in Targets
          /\ record \in Records \ main'.projects[job[j].request.target]
      BY <2>4, <3>1, <3>2, GrantAddsOne
    <3>4. QED BY <2>4, <3>1, <3>2, <3>3, WithRecordAddsOne
  <2>5. QED BY <1>2, <2>2, <2>3, <2>4, StepOfACopy
<1>3. ASSUME NEW j \in Jobs, Push(j) PROVE CopiesCurrent'
  <2>1. rev' = rev + 1 /\ ~SharedFile /\ \A o \in Jobs : job'[o].rev = job[o].rev
    BY <1>3 DEF Push, TypeOK
  <2>2. \A o \in Jobs : job'[o].rev # rev'
    BY <2>1 DEF TypeOK
  <2>3. QED BY <2>1, <2>2 DEF CopiesCurrent, Current
<1>4. ASSUME NEW j \in Jobs, WriteFile(j) PROVE CopiesCurrent'
  <2>1. SharedFile /\ ~Idle(j) /\ job' = [job EXCEPT ![j].phase = "done"]
    BY <1>4 DEF WriteFile, Idle
  <2>2. \A o \in Jobs : job'[o].phase \notin {"checked_out", "registered"}
    BY <2>1 DEF OneAtATime, Idle, TypeOK
  <2>3. QED BY <2>2 DEF CopiesCurrent
<1>5. ASSUME Next, ~\E j \in Jobs : Push(j) \/ WriteFile(j)
      PROVE  main'.projects = main.projects
  BY <1>5, StepOfMain DEF TypeOK, Registries
<1>6. QED
  <2>1. ASSUME Next, ~\E j \in Jobs : Push(j) \/ WriteFile(j) PROVE CopiesCurrent'
    BY <1>2, <1>5, <2>1 DEF CopiesCurrent
  <2>2. QED BY <1>1, <1>3, <1>4, <2>1

\* A registry that becomes main has the records of main and one more.
LEMMA CopyEnters ==
  ASSUME TypeOK, CopiesCurrent, NEW j \in Jobs, Push(j) \/ WriteFile(j)
  PROVE  \E t \in Targets : \E record \in Records \ main.projects[t] :
           main'.projects = [main.projects EXCEPT ![t] = @ \cup {record}]
BY DEF Push, WriteFile, CopiesCurrent, Current

\* The records of main only grow.
LEMMA RecordsStay ==
  ASSUME TypeOK, CopiesCurrent, [Next]_vars
  PROVE  \A t \in Targets : main.projects[t] \subseteq main'.projects[t]
<1> DEFINE Kept == \A t \in Targets : main.projects[t] \subseteq main'.projects[t]
<1>1. CASE main' = main
  BY <1>1
<1>2. ASSUME NEW j \in Jobs, Push(j) \/ WriteFile(j) PROVE Kept
  <2>1. PICK t \in Targets, record \in Records :
          main'.projects = [main.projects EXCEPT ![t] = @ \cup {record}]
    BY <1>2, CopyEnters
  <2>2. QED BY <2>1 DEF TypeOK, Registries
<1>3. ASSUME NEW t \in Targets, NEW b, main' = [main EXCEPT !.block[t] = b] PROVE Kept
  BY <1>3 DEF TypeOK, Registries
<1>4. QED BY <1>1, <1>2, <1>3, StepOfMain DEF vars

LEMMA InitCurrent == Init => CopiesCurrent
BY DEF Init, CopiesCurrent

(* A record that has reached main stays there: with git however jobs that   *)
(* started from older checkouts overlap, on one file as long as the         *)
(* processes run one after the other: NoGrantLost.                          *)
THEOREM NothingLost == Spec /\ []OneAtATime => NoGrantLost
<1> DEFINE Kept == \A t \in Targets : main.projects[t] \subseteq main'.projects[t]
<1>1. Init => TypeOK /\ CopiesCurrent
  BY InitTyped, InitCurrent
<1>2. TypeOK /\ CopiesCurrent /\ OneAtATime /\ OneAtATime' /\ [Next]_vars
        => (TypeOK /\ CopiesCurrent)'
  BY NextTyped, NextCurrent
<1>3. TypeOK /\ CopiesCurrent /\ [Next]_vars => [Kept]_vars
  BY RecordsStay
<1>4. QED BY <1>1, <1>2, <1>3, PTL DEF Spec, NoGrantLost
------------------------------------------------------------------------------
(* A job that ends well has registered its project for good.                *)

\* The registry has the record that q asks for.
Entered(reg, q) == q.target \in Targets /\ AlreadyRegistered(reg.projects[q.target], q)

DoneIsRegistered == \A j \in Jobs : job[j].phase = "done" => Entered(main, job[j].request)

GrantedIsInCopy ==
  \A j \in Jobs : job[j].phase = "registered" => Entered(job[j].copy, job[j].request)

LEMMA NextGranted ==
  ASSUME TypeOK, GrantedIsInCopy, [Next]_vars
  PROVE  GrantedIsInCopy'
<1>1. CASE UNCHANGED vars
  BY <1>1 DEF GrantedIsInCopy, vars
<1>2. ASSUME Next, NEW j \in Jobs, job'[j].phase = "registered"
      PROVE  Entered(job'[j].copy, job'[j].request)
  <2>1. CASE job'[j] = job[j]
    BY <1>2, <2>1 DEF GrantedIsInCopy
  <2>2. ASSUME Register(j), NEW record \in GrantsFor(job[j].copy, job[j].request),
               job'[j].copy = WithRecord(job[j].copy, job[j].request.target, record)
        PROVE  Entered(job'[j].copy, job'[j].request)
    <3>1. /\ job[j].copy \in Registries /\ job[j].request \in Requests
          /\ job'[j].request = job[j].request
      BY <2>2 DEF Register, TypeOK, Idle
    <3>2. PICK q \in Requests : q = job[j].request
      BY <3>1
    <3>3. /\ q.target \in Targets /\ record \in Records
          /\ record.project = q.project /\ record.environment = q.environment
      BY <2>2, <3>1, <3>2, GrantAddsOne
    <3>4. record \in job'[j].copy.projects[q.target]
      BY <2>2, <3>1, <3>2, <3>3 DEF WithRecord, Registries
    <3>5. QED BY <3>1, <3>2, <3>3, <3>4 DEF Entered, AlreadyRegistered
  <2>3. ASSUME NEW q \in Requests, Checkout(j, q) PROVE FALSE
    BY <1>2, <2>3 DEF Checkout, TypeOK
  <2>4. QED BY <1>2, <2>1, <2>2, <2>3, StepOfACopy
<1>3. QED BY <1>1, <1>2 DEF GrantedIsInCopy

LEMMA NextDone ==
  ASSUME TypeOK, CopiesCurrent, GrantedIsInCopy, DoneIsRegistered, [Next]_vars
  PROVE  DoneIsRegistered'
<1>1. ASSUME NEW q, Entered(main, q) PROVE Entered(main', q)
  BY <1>1, RecordsStay DEF Entered, AlreadyRegistered
<1>2. ASSUME NEW j \in Jobs, job'[j].phase = "done" PROVE Entered(main', job'[j].request)
  <2>1. CASE job[j].phase = "done" /\ job'[j].request = job[j].request
    BY <1>1, <2>1 DEF DoneIsRegistered
  <2>2. CASE Push(j) \/ WriteFile(j)
    BY <2>2 DEF Push, WriteFile, GrantedIsInCopy, TypeOK
  <2>3. CASE UNCHANGED vars
    BY <1>2, <2>1, <2>3 DEF vars
  <2>4. ASSUME Next, job'[j] # job[j], ~Push(j), ~WriteFile(j) PROVE FALSE
    <3>1. ASSUME NEW o \in Jobs, NEW q \in Requests, Checkout(o, q) PROVE FALSE
      BY <1>2, <2>4, <3>1 DEF Checkout, TypeOK
    <3>2. ASSUME NEW o \in Jobs, Register(o) PROVE FALSE
      BY <1>2, <2>4, <3>2 DEF Register, TypeOK
    <3>3. ASSUME NEW o \in Jobs, PushRejected(o) \/ JobDies(o) PROVE FALSE
      BY <1>2, <2>4, <3>3 DEF PushRejected, JobDies, TypeOK
    <3>4. ASSUME NEW o \in Jobs, o # j, Push(o) \/ WriteFile(o) PROVE FALSE
      BY <2>4, <3>4 DEF Push, WriteFile, TypeOK
    <3>5. ASSUME NEW t \in Targets, NEW b \in Edits, EditBlock(t, b) PROVE FALSE
      BY <2>4, <3>5 DEF EditBlock
    <3>6. QED BY <2>4, <3>1, <3>2, <3>3, <3>4, <3>5 DEF Next
  <2>5. QED BY <1>2, <2>1, <2>2, <2>3, <2>4
<1>3. QED BY <1>2 DEF DoneIsRegistered

(* A job that reports success has registered its project, and the record is *)
(* still there at any later time, whatever other jobs have pushed since     *)
(* (register-project.yml:51-67): DoneIsRegistered.                          *)
THEOREM SuccessIsRegistered == Spec /\ []OneAtATime => []DoneIsRegistered
<1> DEFINE Inv == TypeOK /\ CopiesCurrent /\ GrantedIsInCopy /\ DoneIsRegistered
<1>1. Init => Inv
  BY InitTyped, InitCurrent DEF Init, GrantedIsInCopy, DoneIsRegistered
<1>2. Inv /\ OneAtATime /\ OneAtATime' /\ [Next]_vars => Inv'
  BY NextTyped, NextCurrent, NextGranted, NextDone
<1>3. QED BY <1>1, <1>2, PTL DEF Spec
------------------------------------------------------------------------------
(* No two projects of a target hold the same port.                          *)

\* r holds ports of a whole block only, one of those that block is divided into.
InABlock(r, block) ==
  \E k \in Nat : /\ r.base = block.start + k * block.size
                 /\ AllPorts(r) \subseteq r.base .. r.base + block.size - 1

\* A block that is divided from now on does not cut through the ports of r.
Fits(r, block) == InABlock(r, block) \/ AllPorts(r) \cap (block.start .. block.end) = {}

Separate(kind, block, recs) ==
  /\ \A a, b \in recs : a # b => AllPorts(a) \cap AllPorts(b) = {}
  /\ IF kind # "external" /\ block # NoBlock
       THEN \A r \in recs : Fits(r, block)
       ELSE \A r \in recs : \A p \in r.ports : p.green = NoPort

SeparateRegistry(reg) == \A t \in Targets : Separate(Kind[t], reg.block[t], reg.projects[t])

AllSeparate == SeparateRegistry(main) /\ \A j \in Jobs : SeparateRegistry(job[j].copy)

LEMMA DifferentBlocksDisjoint ==
  ASSUME NEW block \in Blocks, NEW a \in Records, NEW b \in Records,
         InABlock(a, block), InABlock(b, block), a.base # b.base
  PROVE  AllPorts(a) \cap AllPorts(b) = {}
<1>1. PICK k \in Nat : /\ a.base = block.start + k * block.size
                      /\ AllPorts(a) \subseteq a.base .. a.base + block.size - 1
  BY DEF InABlock
<1>2. PICK m \in Nat : /\ b.base = block.start + m * block.size
                      /\ AllPorts(b) \subseteq b.base .. b.base + block.size - 1
  BY DEF InABlock
<1>3. /\ block.size \in Nat /\ block.start \in Nat
      /\ k * block.size \in Nat /\ m * block.size \in Nat
  BY DEF Blocks
<1>4. k < m \/ m < k
  BY <1>1, <1>2
<1>5. CASE k < m
  <2>1. k * block.size + block.size <= m * block.size
    BY <1>3, <1>5, BlocksApart
  <2>2. QED BY <1>1, <1>2, <1>3, <2>1
<1>6. CASE m < k
  <2>1. m * block.size + block.size <= k * block.size
    BY <1>3, <1>6, BlocksApart
  <2>2. QED BY <1>1, <1>2, <1>3, <2>1
<1>7. QED BY <1>4, <1>5, <1>6

\* What is granted on a target keeps apart from what it was computed from.
LEMMA GrantsSeparate ==
  ASSUME NEW kind, NEW block \in Blocks \cup {NoBlock},
         NEW recs \in SUBSET Records, Separate(kind, block, recs),
         NEW q \in Requests, NEW record \in Grants(recs, kind, block, q)
  PROVE  Separate(kind, block, recs \cup {record})
<1> DEFINE services == q.services
           blocked == kind # "external" /\ block # NoBlock
<1>1. record \in Records
  BY GrantsTyped
<1>2. SUFFICES /\ \A a \in recs : a # record => AllPorts(a) \cap AllPorts(record) = {}
               /\ IF blocked THEN Fits(record, block)
                             ELSE \A p \in record.ports : p.green = NoPort
  BY DEF Separate
<1>3. CASE blocked
  <2>1. block \in Blocks
    BY <1>3
  <2>2. record \in GrantsBlock(recs, block, q)
    BY <1>3 DEF Grants
  <2>3. PICK b \in FreeBases(recs, block) :
          /\ record = Record(q, b, PortsForBlock(b, block, services))
          /\ Len(services) <= Half(block)
    BY <2>2 DEF GrantsBlock, Lowest
  <2>4. /\ record.base = b /\ b \in Nat /\ b \notin UsedBlockBases(recs)
        /\ block.start <= b /\ b + block.size - 1 <= block.end
    BY <2>1, <2>3 DEF Record, FreeBases, Blocks
  <2>5. AllPorts(record) \subseteq b .. b + block.size - 1
    BY <2>1, <2>3, <2>4, BlockPortsInBlock
  <2>6. InABlock(record, block)
    BY <2>1, <2>3, <2>4, <2>5 DEF InABlock, FreeBases, Blocks
  <2>7. AllPorts(record) \subseteq block.start .. block.end
    BY <2>1, <2>4, <2>5 DEF Blocks
  <2>8. ASSUME NEW a \in recs PROVE AllPorts(a) \cap AllPorts(record) = {}
    <3>1. a.base # record.base /\ Fits(a, block)
      BY <1>3, <2>4 DEF Separate, UsedBlockBases
    <3>2. CASE InABlock(a, block)
      BY <1>1, <2>1, <2>6, <3>1, <3>2, DifferentBlocksDisjoint
    <3>3. CASE AllPorts(a) \cap (block.start .. block.end) = {}
      BY <2>7, <3>3
    <3>4. QED BY <3>1, <3>2, <3>3 DEF Fits
  <2>9. QED BY <1>3, <2>6, <2>8 DEF Fits
<1>4. CASE ~blocked
  <2>1. record = Record(q, NoPort, {}) \/ record \in GrantsPool(recs, q)
    BY <1>4 DEF Grants
  <2>2. \A p \in record.ports : p.green = NoPort /\ p.port \notin UsedPorts(recs)
    <3>1. CASE record = Record(q, NoPort, {})
      BY <3>1 DEF Record
    <3>2. CASE record \in GrantsPool(recs, q)
      <4>1. PICK g \in PoolPorts(recs, services) :
              /\ record.ports = {[service |-> services[i].name, port |-> g[i],
                                  green |-> NoPort] : i \in DOMAIN g}
              /\ FixedPortsFree(recs, services)
        BY <3>2 DEF GrantsPool, Record
      <4>2. \A i \in DOMAIN g : g[i] \notin UsedPorts(recs)
        BY <4>1 DEF PoolPorts, Lowest, FixedPortsFree, Where
      <4>3. QED BY <4>1, <4>2
    <3>3. QED BY <2>1, <3>1, <3>2
  <2>3. ASSUME NEW a \in recs PROVE AllPorts(a) \cap AllPorts(record) = {}
    <3>1. /\ \A p \in a.ports : p.green = NoPort
          /\ \A p \in a.ports : p.port \in UsedPorts(recs)
      BY <1>4 DEF Separate, UsedPorts
    <3>2. QED BY <2>2, <3>1 DEF AllPorts
  <2>4. QED BY <1>4, <2>2, <2>3
<1>5. QED BY <1>3, <1>4

LEMMA WithRecordSeparate ==
  ASSUME NEW reg \in Registries, SeparateRegistry(reg),
         NEW q \in Requests, NEW record \in GrantsFor(reg, q)
  PROVE  SeparateRegistry(WithRecord(reg, q.target, record))
<1>1. PICK t \in Targets : t = q.target
  BY GrantAddsOne
<1>2. t \in Targets /\ record \in Records
  BY <1>1, GrantAddsOne
<1>3. record \in Grants(reg.projects[t], Kind[t], reg.block[t], q)
  BY <1>1 DEF GrantsFor
<1>4. reg.projects[t] \in SUBSET Records /\ reg.block[t] \in Blocks \cup {NoBlock}
  BY <1>1 DEF Registries
<1>5. Separate(Kind[t], reg.block[t], reg.projects[t] \cup {record})
  BY <1>1, <1>3, <1>4, GrantsSeparate DEF SeparateRegistry
<1>6. /\ WithRecord(reg, t, record).block = reg.block
      /\ WithRecord(reg, t, record).projects[t] = reg.projects[t] \cup {record}
      /\ \A u \in Targets : u # t => WithRecord(reg, t, record).projects[u] = reg.projects[u]
  BY <1>2 DEF WithRecord, Registries
<1>7. SeparateRegistry(WithRecord(reg, t, record))
  BY <1>5, <1>6 DEF SeparateRegistry
<1>8. QED BY <1>1, <1>7

LEMMA InitSeparate == Init => AllSeparate
<1>1. SeparateRegistry(NewRegistry)
  BY DEF NewRegistry, SeparateRegistry, Separate
<1>2. QED BY <1>1 DEF Init, AllSeparate

\* An operator who edits port_block lets no block begin in the middle of a project's ports:
\* `end` is moved, or the range is one that no project of the vps has ports in.
EditFits ==
  \A t \in Targets, b \in Edits :
    EditBlock(t, b) => \A r \in main.projects[t] : Fits(r, b)
EditsFit == [][EditFits]_vars

LEMMA NextSeparate ==
  ASSUME TypeOK, AllSeparate, [Next]_vars, [EditFits]_vars
  PROVE  AllSeparate'
<1>1. CASE UNCHANGED vars
  BY <1>1 DEF AllSeparate, SeparateRegistry, vars
<1>2. CASE Next /\ EditFits
  <2>1. ASSUME NEW j \in Jobs PROVE SeparateRegistry(job'[j].copy)
    <3>1. CASE job'[j] = job[j]
      BY <3>1 DEF AllSeparate
    <3>2. CASE job'[j].copy = main \/ job'[j].copy = job[j].copy
      BY <3>2 DEF AllSeparate
    <3>3. ASSUME Register(j), NEW record \in GrantsFor(job[j].copy, job[j].request),
                 job'[j].copy = WithRecord(job[j].copy, job[j].request.target, record)
          PROVE  SeparateRegistry(job'[j].copy)
      <4>1. job[j].copy \in Registries /\ job[j].request \in Requests
        BY <3>3 DEF Register, TypeOK, Idle
      <4>2. QED BY <3>3, <4>1, WithRecordSeparate DEF AllSeparate
    <3>4. QED BY <1>2, <3>1, <3>2, <3>3, StepOfACopy
  <2>2. SeparateRegistry(main')
    <3>1. CASE main' = main
      BY <3>1 DEF AllSeparate
    <3>2. ASSUME NEW j \in Jobs, main' = job[j].copy PROVE SeparateRegistry(main')
      BY <3>2 DEF AllSeparate
    <3>3. ASSUME NEW t \in Targets, NEW b \in Edits, EditBlock(t, b),
                 main' = [main EXCEPT !.block[t] = b]
          PROVE  SeparateRegistry(main')
      <4>1. b # NoBlock /\ Kind[t] # "external"
        BY <3>3, TargetsAssumption DEF EditBlock
      <4>2. /\ main'.projects = main.projects
            /\ \A u \in Targets : main'.block[u] = IF u = t THEN b ELSE main.block[u]
        BY <3>3 DEF TypeOK, Registries
      <4>3. \A r \in main.projects[t] : Fits(r, b)
        BY <1>2, <3>3 DEF EditFits
      <4>4. Separate(Kind[t], b, main.projects[t])
        BY <4>1, <4>3 DEF Separate, AllSeparate, SeparateRegistry
      <4>5. QED BY <4>2, <4>4 DEF AllSeparate, SeparateRegistry
    <3>4. QED BY <1>2, <3>1, <3>2, <3>3, StepOfMain
  <2>3. QED BY <2>1, <2>2 DEF AllSeparate, SeparateRegistry
<1>3. QED BY <1>1, <1>2

(* As long as port_block is edited so that it fits what is registered, no   *)
(* two projects of a target ever hold the same port, with git or on one     *)
(* file, however the jobs overlap: PortsDisjoint.                           *)
THEOREM PortsNeverShared == Spec /\ EditsFit => []PortsDisjoint
<1>1. Init => TypeOK /\ AllSeparate
  BY InitTyped, InitSeparate
<1>2. TypeOK /\ AllSeparate /\ [Next]_vars /\ [EditFits]_vars => (TypeOK /\ AllSeparate)'
  BY NextTyped, NextSeparate
<1>3. AllSeparate => PortsDisjoint
  BY DEF AllSeparate, SeparateRegistry, Separate, PortsDisjoint
<1>4. QED BY <1>1, <1>2, <1>3, PTL DEF Spec, EditsFit

\* Moving the end of a range cuts through no project that has one of its blocks.
LEMMA MovedEndFits ==
  ASSUME NEW r \in Records, NEW old \in Blocks, NEW new \in Blocks, InABlock(r, old),
         new.start = old.start, new.size = old.size
  PROVE  Fits(r, new)
BY DEF Fits, InABlock

\* Nobody edits port_block: the instance of RegisterBlocks.
LEMMA NoEditsFit ==
  ASSUME MaxEdits = 0
  PROVE  Spec => EditsFit
<1>1. Init => TypeOK
  BY InitTyped
<1>2. TypeOK /\ [Next]_vars => TypeOK'
  BY NextTyped
<1>3. TypeOK => [EditFits]_vars
  BY DEF TypeOK, EditFits, EditBlock
<1>4. QED BY <1>1, <1>2, <1>3, PTL DEF Spec, EditsFit
------------------------------------------------------------------------------
(* Within a project no port is granted twice.                               *)

DistinctPorts(r) ==
  \A p, q \in r.ports :
    /\ p.port # p.green
    /\ p # q => {p.port, p.green} \cap {q.port, q.green} \subseteq {NoPort}

\* q asks for no port by number that one of its other services could get from a pool.
FixedPortsOutsidePools(q) ==
  \A i, k \in Where(q.services, "port") :
    /\ FixedPort(q.services, i) /\ ~FixedPort(q.services, k)
    /\ q.services[k].name \in DOMAIN Pools
      => q.services[i].port \notin Pool(q.services, k)

\* What is asked of a vps that starts with the named pools.
PoolRequestsApart ==
  \A q \in Requests : q.target \in Targets /\ Block[q.target] = NoBlock =>
    Kind[q.target] = "external" \/ FixedPortsOutsidePools(q)

\* A target that has a block keeps one.
DistinctRegistry(reg) ==
  \A t \in Targets : /\ reg.block[t] = NoBlock => Block[t] = NoBlock
                     /\ \A r \in reg.projects[t] : DistinctPorts(r)

AllDistinct == DistinctRegistry(main) /\ \A j \in Jobs : DistinctRegistry(job[j].copy)

\* The blue ports of a block end where its green ones begin.
LEMMA BlockPortsDistinct ==
  ASSUME NEW block \in Blocks, NEW base \in Nat, NEW q \in Requests,
         Len(q.services) <= Half(block)
  PROVE  DistinctPorts(Record(q, base, PortsForBlock(base, block, q.services)))
<1> DEFINE services == q.services
           half == Half(block)
<1>1. Len(services) \in Nat
  BY RequestsAssumption
<1>2. half \in Nat \ {0}
  <2>1. block.size \in Nat /\ block.size >= 2
    BY DEF Blocks
  <2>2. QED BY <2>1 DEF Half
<1>3. ASSUME NEW i \in Positions(services), NEW k \in Positions(services)
      PROVE  /\ base + (i - 1) # base + half + (k - 1)
             /\ base + (i - 1) = base + (k - 1) => i = k
             /\ base + half + (i - 1) = base + half + (k - 1) => i = k
  <2>1. i \in 1..half /\ k \in 1..half
    BY <1>1, <1>2 DEF Positions
  <2>2. QED BY <1>2, <2>1
<1>4. ASSUME NEW p \in PortsForBlock(base, block, services),
             NEW r \in PortsForBlock(base, block, services)
      PROVE  /\ p.port # p.green
             /\ p # r => {p.port, p.green} \cap {r.port, r.green} = {}
  <2>1. PICK i \in Positions(services) :
          p = [service |-> services[i].name, port |-> base + (i - 1),
               green |-> base + half + (i - 1)]
    BY DEF PortsForBlock
  <2>2. PICK k \in Positions(services) :
          r = [service |-> services[k].name, port |-> base + (k - 1),
               green |-> base + half + (k - 1)]
    BY DEF PortsForBlock
  <2>3. /\ p.port = base + (i - 1) /\ p.green = base + half + (i - 1)
        /\ r.port = base + (k - 1) /\ r.green = base + half + (k - 1)
    BY <2>1, <2>2
  <2>4. p.port # p.green
    BY <1>3, <2>3
  <2>5. ASSUME p # r PROVE {p.port, p.green} \cap {r.port, r.green} = {}
    <3>1. i # k
      BY <2>1, <2>2, <2>5
    <3>2. /\ p.port # r.port /\ p.port # r.green
          /\ p.green # r.port /\ p.green # r.green
      BY <1>3, <2>3, <3>1
    <3>3. QED BY <3>2
  <2>6. QED BY <2>4, <2>5
<1>5. QED BY <1>4 DEF DistinctPorts, Record

\* Every service takes its port out of what the earlier ones have left.
LEMMA PoolPortsDistinct ==
  ASSUME NEW recs, NEW q \in Requests, FixedPortsOutsidePools(q),
         NEW record \in GrantsPool(recs, q)
  PROVE  DistinctPorts(record)
<1> DEFINE services == q.services
           asking == Where(services, "port")
<1>1. PICK g \in PoolPorts(recs, services) :
        /\ record = Record(q, NoPort, {[service |-> services[i].name, port |-> g[i],
                                        green |-> NoPort] : i \in DOMAIN g})
        /\ FixedPortsFree(recs, services)
  BY DEF GrantsPool
<1>2. /\ DOMAIN g = asking
      /\ \A i \in asking :
           /\ FixedPort(services, i) => g[i] = services[i].port
           /\ ~FixedPort(services, i) =>
                /\ services[i].name \in DOMAIN Pools
                /\ g[i] \in Pool(services, i) /\ \A k \in asking : k < i => g[i] # g[k]
  BY <1>1 DEF PoolPorts, Lowest
<1>3. asking \subseteq Nat /\ asking \subseteq Positions(services)
  BY RequestsAssumption DEF Where, Positions
<1>4. ASSUME NEW i \in asking, NEW k \in asking, i # k PROVE g[i] # g[k]
  <2>1. CASE FixedPort(services, i) /\ FixedPort(services, k)
    BY <1>1, <1>2, <1>3, <1>4, <2>1 DEF FixedPortsFree
  <2>2. CASE FixedPort(services, i) /\ ~FixedPort(services, k)
    BY <1>2, <1>4, <2>2 DEF FixedPortsOutsidePools
  <2>3. CASE ~FixedPort(services, i) /\ FixedPort(services, k)
    BY <1>2, <1>4, <2>3 DEF FixedPortsOutsidePools
  <2>4. CASE ~FixedPort(services, i) /\ ~FixedPort(services, k)
    <3>1. i < k \/ k < i
      BY <1>3, <1>4
    <3>2. QED BY <1>2, <2>4, <3>1
  <2>5. QED BY <2>1, <2>2, <2>3, <2>4
<1>5. \A i \in asking : g[i] # NoPort
  <2>1. ASSUME NEW i \in asking, FixedPort(services, i) PROVE g[i] # NoPort
    BY <1>2, <2>1 DEF FixedPort
  <2>2. ASSUME NEW i \in asking, ~FixedPort(services, i) PROVE g[i] # NoPort
    BY <1>2, <2>2, PoolsAssumption DEF Pool, NoPort
  <2>3. QED BY <2>1, <2>2
<1>6. ASSUME NEW p \in record.ports
      PROVE  \E i \in asking : p = [service |-> services[i].name, port |-> g[i],
                                    green |-> NoPort]
  BY <1>1, <1>2, <1>6 DEF Record
<1>7. QED BY <1>4, <1>5, <1>6 DEF DistinctPorts

LEMMA WithRecordDistinct ==
  ASSUME PoolRequestsApart, NEW reg \in Registries, DistinctRegistry(reg),
         NEW q \in Requests, NEW record \in GrantsFor(reg, q)
  PROVE  DistinctRegistry(WithRecord(reg, q.target, record))
<1>1. PICK t \in Targets : t = q.target
  BY GrantAddsOne
<1>2. t \in Targets /\ record \in Records
  BY <1>1, GrantAddsOne
<1>3. /\ record \in Grants(reg.projects[t], Kind[t], reg.block[t], q)
      /\ reg.block[t] \in Blocks \cup {NoBlock}
  BY <1>1 DEF GrantsFor, Registries
<1>4. DistinctPorts(record)
  <2>1. CASE record = Record(q, NoPort, {})
    <3>1. record.ports = {}
      BY <2>1 DEF Record
    <3>2. QED BY <3>1 DEF DistinctPorts
  <2>2. CASE record \in GrantsBlock(reg.projects[t], reg.block[t], q) /\ reg.block[t] # NoBlock
    <3>1. reg.block[t] \in Blocks
      BY <1>3, <2>2
    <3>2. PICK b \in FreeBases(reg.projects[t], reg.block[t]) :
            /\ record = Record(q, b, PortsForBlock(b, reg.block[t], q.services))
            /\ Len(q.services) <= Half(reg.block[t])
      BY <2>2 DEF GrantsBlock, Lowest
    <3>3. b \in Nat
      BY <3>1, <3>2 DEF FreeBases, Blocks
    <3>4. QED BY <3>1, <3>2, <3>3, BlockPortsDistinct
  <2>3. CASE /\ record \in GrantsPool(reg.projects[t], q)
             /\ reg.block[t] = NoBlock /\ Kind[t] # "external"
    BY <1>1, <2>3, PoolPortsDistinct DEF DistinctRegistry, PoolRequestsApart
  <2>4. QED BY <1>3, <2>1, <2>2, <2>3 DEF Grants
<1>5. /\ WithRecord(reg, t, record).block = reg.block
      /\ WithRecord(reg, t, record).projects[t] = reg.projects[t] \cup {record}
      /\ \A u \in Targets : u # t => WithRecord(reg, t, record).projects[u] = reg.projects[u]
  BY <1>2 DEF WithRecord, Registries
<1>6. DistinctRegistry(WithRecord(reg, t, record))
  BY <1>4, <1>5 DEF DistinctRegistry
<1>7. QED BY <1>1, <1>6

LEMMA InitDistinct == Init => AllDistinct
<1>1. DistinctRegistry(NewRegistry)
  BY DEF NewRegistry, DistinctRegistry
<1>2. QED BY <1>1 DEF Init, AllDistinct

LEMMA NextDistinct ==
  ASSUME PoolRequestsApart, TypeOK, AllDistinct, [Next]_vars
  PROVE  AllDistinct'
<1>1. CASE UNCHANGED vars
  BY <1>1 DEF AllDistinct, DistinctRegistry, vars
<1>2. CASE Next
  <2>1. ASSUME NEW j \in Jobs PROVE DistinctRegistry(job'[j].copy)
    <3>1. CASE job'[j] = job[j]
      BY <3>1 DEF AllDistinct
    <3>2. CASE job'[j].copy = main \/ job'[j].copy = job[j].copy
      BY <3>2 DEF AllDistinct
    <3>3. ASSUME Register(j), NEW record \in GrantsFor(job[j].copy, job[j].request),
                 job'[j].copy = WithRecord(job[j].copy, job[j].request.target, record)
          PROVE  DistinctRegistry(job'[j].copy)
      <4>1. job[j].copy \in Registries /\ job[j].request \in Requests
        BY <3>3 DEF Register, TypeOK, Idle
      <4>2. QED BY <3>3, <4>1, WithRecordDistinct DEF AllDistinct
    <3>4. QED BY <1>2, <3>1, <3>2, <3>3, StepOfACopy
  <2>2. DistinctRegistry(main')
    <3>1. CASE main' = main
      BY <3>1 DEF AllDistinct
    <3>2. ASSUME NEW j \in Jobs, main' = job[j].copy PROVE DistinctRegistry(main')
      BY <3>2 DEF AllDistinct
    <3>3. ASSUME NEW t \in Targets, NEW b \in Edits, main' = [main EXCEPT !.block[t] = b]
          PROVE  DistinctRegistry(main')
      <4>1. b # NoBlock
        BY TargetsAssumption
      <4>2. /\ main'.projects = main.projects
            /\ \A u \in Targets : main'.block[u] = IF u = t THEN b ELSE main.block[u]
        BY <3>3 DEF TypeOK, Registries
      <4>3. QED BY <4>1, <4>2 DEF AllDistinct, DistinctRegistry
    <3>4. QED BY <1>2, <3>1, <3>2, <3>3, StepOfMain
  <2>3. QED BY <2>1, <2>2 DEF AllDistinct, DistinctRegistry
<1>3. QED BY <1>1, <1>2

(* No project is granted a port twice, however operators edit port_block:   *)
(* not where a vps is divided into blocks, and from the pools not as long   *)
(* as a request does not mix a port of a pool it uses with asking for it by *)
(* number: PortsDistinct.                                                   *)
THEOREM ColoursNeverCollide ==
  ASSUME PoolRequestsApart
  PROVE  Spec => []PortsDistinct
<1>1. Init => TypeOK /\ AllDistinct
  BY InitTyped, InitDistinct
<1>2. TypeOK /\ AllDistinct /\ [Next]_vars => (TypeOK /\ AllDistinct)'
  BY NextTyped, NextDistinct
<1>3. AllDistinct => PortsDistinct
  BY DEF AllDistinct, DistinctRegistry, DistinctPorts, PortsDistinct
<1>4. QED BY <1>1, <1>2, <1>3, PTL DEF Spec
------------------------------------------------------------------------------
(* The jobs implement the ledger.                                           *)

\* What the ledger holds for a record, and for the records of a target.
Entry(r) ==
  [holder |-> <<r.project, r.environment>>, ports |-> AllPorts(r), domains |-> DomainNames(r)]
Entries(projects) == [t \in Targets |-> {Entry(r) : r \in projects[t]}]

\* A record that main gains, in a registry that is sound, is a step of the ledger.
LEMMA RecordEnters ==
  ASSUME main \in Registries, NEW t \in Targets, NEW record \in Records \ main.projects[t],
         main'.projects = [main.projects EXCEPT ![t] = @ \cup {record}],
         Exclusive(main'), SeparateRegistry(main')
  PROVE  Promise!Next
<1>1. \A u \in Targets : main'.projects[u] = IF u = t THEN main.projects[u] \cup {record}
                                                     ELSE main.projects[u]
  BY DEF Registries
<1>2. Entries(main'.projects) = [Entries(main.projects) EXCEPT ![t] = @ \cup {Entry(record)}]
  <2>1. ASSUME NEW u \in Targets
        PROVE  {Entry(r) : r \in main'.projects[u]}
                 = IF u = t THEN {Entry(r) : r \in main.projects[u]} \cup {Entry(record)}
                            ELSE {Entry(r) : r \in main.projects[u]}
    BY <1>1
  <2>2. QED BY <2>1 DEF Entries
<1>3. ASSUME NEW r \in main.projects[t]
      PROVE  Promise!Compatible(Entry(record), Entry(r))
  <2>1. record # r /\ record \in main'.projects[t] /\ r \in main'.projects[t]
    BY <1>1, <1>3
  <2>2. /\ <<record.project, record.environment>> # <<r.project, r.environment>>
        /\ DomainNames(record) \cap DomainNames(r) = {}
    BY <2>1 DEF Exclusive
  <2>3. AllPorts(record) \cap AllPorts(r) = {}
    BY <2>1 DEF SeparateRegistry, Separate
  <2>4. QED BY <2>2, <2>3 DEF Promise!Compatible, Entry
<1>4. /\ \A y \in Entries(main.projects)[t] : Promise!Compatible(Entry(record), y)
      /\ Entry(record) \in Entries(main'.projects)[t]
  BY <1>1, <1>3 DEF Entries
<1>5. Promise!Enter(t)
  BY <1>2, <1>4 DEF Promise!Enter, Entries, Entry
<1>6. QED BY <1>5 DEF Promise!Next

(* Overlapping registrations that die, lose the race or come back implement *)
(* an atomic ledger: KeepsLedger. With git always; on one file when the     *)
(* processes run one after the other; in both cases as long as port_block   *)
(* is edited so that it fits what is registered.                            *)
THEOREM RegistrationsImplementLedger ==
  Spec /\ []OneAtATime /\ EditsFit => KeepsLedger
<1> DEFINE Inv == TypeOK /\ CopiesCurrent /\ AllExclusive /\ AllSeparate
<1>1. Init => Inv /\ Promise!Init
  <2>1. Init => TypeOK /\ CopiesCurrent /\ AllSeparate
    BY InitTyped, InitSeparate, InitCurrent
  <2>2. Init => AllExclusive
    BY DEF Init, NewRegistry, AllExclusive, Exclusive
  <2>3. Init => Promise!Init
    BY DEF Init, NewRegistry, Promise!Init
  <2>4. QED BY <2>1, <2>2, <2>3
<1>2. Inv /\ OneAtATime /\ OneAtATime' /\ [Next]_vars /\ [EditFits]_vars => Inv'
  BY NextTyped, NextCurrent, NextExclusive, NextSeparate
<1>3. Inv /\ Inv' /\ [Next]_vars
        => [Promise!Next]_([t \in Targets |->
             {[holder |-> <<r.project, r.environment>>, ports |-> AllPorts(r),
               domains |-> DomainNames(r)] : r \in main.projects[t]}])
  <2> SUFFICES ASSUME Inv, Inv', [Next]_vars
               PROVE  Promise!Next \/ main'.projects = main.projects
    OBVIOUS
  <2>1. ASSUME NEW j \in Jobs, Push(j) \/ WriteFile(j) PROVE Promise!Next
    <3>1. PICK t \in Targets, record \in Records :
            /\ record \notin main.projects[t]
            /\ main'.projects = [main.projects EXCEPT ![t] = @ \cup {record}]
      BY <2>1, CopyEnters
    <3>2. main \in Registries /\ Exclusive(main') /\ SeparateRegistry(main')
      BY DEF TypeOK, AllExclusive, AllSeparate, Exclusive, SeparateRegistry
    <3>3. QED BY <3>1, <3>2, RecordEnters
  <2>2. ASSUME NEW t \in Targets, NEW b, main' = [main EXCEPT !.block[t] = b]
        PROVE  main'.projects = main.projects
    BY <2>2 DEF TypeOK, Registries
  <2>3. QED BY <2>1, <2>2, StepOfMain DEF vars
<1>4. QED BY <1>1, <1>2, <1>3, PTL DEF Spec, EditsFit, KeepsLedger, Promise!Spec
------------------------------------------------------------------------------
(* What the ledger promises.                                                *)

\* No two entries of a target have a holder, a port or a domain in common.
EntriesCompatible ==
  \A t \in Targets : \A x, y \in Entries(main.projects)[t] :
    x # y => Promise!Compatible(x, y)

EntriesGrow ==
  \A t \in Targets : Entries(main.projects)[t] \subseteq Entries(main.projects)'[t]

(* Whatever implements the ledger has no two entries of a target with the   *)
(* same holder, a port or a domain in common, and loses none: KeepsLedger   *)
(* is as strong as the invariants it stands for.                            *)
THEOREM LedgerKeepsApart ==
  KeepsLedger => []EntriesCompatible /\ [][EntriesGrow]_(Entries(main.projects))
<1> DEFINE held == Entries(main.projects)
<1>1. Promise!Init => EntriesCompatible
  BY DEF Promise!Init, EntriesCompatible, Entries, Entry
<1>2. ASSUME NEW t \in Targets, Promise!Enter(t)
      PROVE  EntriesGrow /\ (EntriesCompatible => EntriesCompatible')
  <2>1. PICK x \in held'[t] : /\ \A y \in held[t] : Promise!Compatible(x, y)
                             /\ held' = [held EXCEPT ![t] = @ \cup {x}]
    BY <1>2 DEF Promise!Enter, Entries, Entry
  <2>2. \A u \in Targets : held'[u] = IF u = t THEN held[u] \cup {x} ELSE held[u]
    <3>1. DOMAIN held = Targets
      BY DEF Entries
    <3> HIDE DEF held
    <3>2. QED BY <2>1, <3>1
  <2>3. \A y \in held[t] : Promise!Compatible(x, y) /\ Promise!Compatible(y, x)
    BY <2>1 DEF Promise!Compatible
  <2> HIDE DEF held
  <2>4. EntriesGrow
    BY <2>2 DEF EntriesGrow, held
  <2>5. ASSUME EntriesCompatible PROVE EntriesCompatible'
    BY <2>2, <2>3, <2>5 DEF EntriesCompatible, held
  <2>6. QED BY <2>4, <2>5
<1>3. [Promise!Next]_held => [EntriesGrow]_held
  BY <1>2 DEF Promise!Next
<1>4. EntriesCompatible /\ [Promise!Next]_held => EntriesCompatible'
  BY <1>2 DEF Promise!Next, EntriesCompatible
<1>5. QED BY <1>1, <1>3, <1>4, PTL DEF KeepsLedger, Promise!Spec, Entries, Entry
==============================================================================
