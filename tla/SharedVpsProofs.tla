--------------------------- MODULE SharedVpsProofs ---------------------------
(****************************************************************************)
(* Theorems about SharedVps, for any projects, with port blocks or pools.   *)
(****************************************************************************)
EXTENDS SharedVps, TLAPS

Blocked == Block # NoBlock

\* A project has one environment on the VPS.
Apart == \A q, r \in Requests : q.project = r.project => q = r

\* The databases have ports of their own.
Outside == \A q \in Requests : q.database \notin Block.start .. Block.end

\* The two ports of an entry: of a hand-written one the green is the next.
PortsOf(x) == {x.port, IF x.green # NoPort THEN x.green ELSE x.port + 1}

\* n is a port that the registry R has for the service s of an environment e of p.
Owned(R, p, e, s, n) ==
  \E r \in R : \E x \in r.ports :
    /\ r.project = p /\ r.environment = e /\ x.service = s
    /\ n \in PortsOf(x)

Typed(R) == \A r \in R : \A x \in r.ports : x.port \in Nat /\ x.green \in Nat

\* The ports on record, green ones included, are nobody else's and no database's.
Separate ==
  /\ \A r, t \in recs : \A x \in r.ports, y \in t.ports :
       PortsOf(x) \cap PortsOf(y) # {}
         => r.project = t.project /\ r.environment = t.environment /\ x.service = y.service
  /\ \A r \in recs : \A x \in r.ports : \A q \in Requests : q.database \notin PortsOf(x)
------------------------------------------------------------------------------
(* Ports of records.                                                        *)

LEMMA HalfIs ==
  ASSUME Blocked
  PROVE  /\ Half(Block) \in Nat /\ 2 * Half(Block) <= Block.size
         /\ Block.start \in Nat \ {0} /\ Block.end \in Nat /\ Block.size \in Nat \ {0}
BY BlockAssumption DEF Half, Blocked

(* What a record owns is in its block.                                      *)
LEMMA InBlock ==
  ASSUME Blocked, NEW R, Proper(R), NEW r \in R, NEW x \in r.ports, NEW n \in PortsOf(x)
  PROVE  \E k \in Nat : /\ k * Block.size \in Nat
                        /\ r.base = Block.start + k * Block.size
                        /\ n \in r.base .. r.base + Block.size - 1
                        /\ n \in Block.start .. Block.end /\ n \in Nat
<1>1. PICK k \in 0..Block.end : r.base = Block.start + k * Block.size
  BY DEF Proper
<1>2. k \in Nat /\ k * Block.size \in Nat /\ r.base \in Nat
  BY <1>1, HalfIs
<1>3. /\ x.port \in r.base .. r.base + Half(Block) - 1
      /\ x.green = x.port + Half(Block)
      /\ r.base + Block.size - 1 <= Block.end
  BY DEF Proper
<1>4. x.green # NoPort
  BY <1>1, <1>2, <1>3, HalfIs DEF NoPort
<1>5. n \in {x.port, x.green}
  BY <1>4 DEF PortsOf
<1>6. QED BY <1>1, <1>2, <1>3, <1>5, HalfIs

LEMMA Multiples ==
  ASSUME NEW size \in Nat, NEW k \in Nat, NEW m \in Nat, k < m
  PROVE  k * size + size <= m * size
<1>1. PICK d \in Nat : m = k + 1 + d
  <2>1. m - k - 1 \in Nat
    OBVIOUS
  <2>2. m = k + 1 + (m - k - 1)
    OBVIOUS
  <2>3. QED BY <2>1, <2>2
<1>2. m * size = k * size + size + d * size
  BY <1>1
<1>3. d * size \in Nat /\ k * size \in Nat
  OBVIOUS
<1>4. QED BY <1>2, <1>3

(* In a registry of blocks a port belongs to one entry of one record.       *)
LEMMA OneEntry ==
  ASSUME Blocked, NEW R, Proper(R), NEW n,
         NEW r \in R, NEW x \in r.ports, n \in PortsOf(x),
         NEW t \in R, NEW y \in t.ports, n \in PortsOf(y)
  PROVE  r = t /\ x = y
<1>1. PICK k \in Nat : k * Block.size \in Nat /\ r.base = Block.start + k * Block.size
                         /\ n \in r.base .. r.base + Block.size - 1 /\ n \in Nat
  BY InBlock
<1>2. PICK m \in Nat : m * Block.size \in Nat /\ t.base = Block.start + m * Block.size
                         /\ n \in t.base .. t.base + Block.size - 1
  BY InBlock
<1>3. ~(k < m)
  <2>1. k < m => k * Block.size + Block.size <= m * Block.size
    BY HalfIs, Multiples
  <2>2. QED BY <1>1, <1>2, <2>1, HalfIs
<1>4. ~(m < k)
  <2>1. m < k => m * Block.size + Block.size <= k * Block.size
    BY HalfIs, Multiples
  <2>2. QED BY <1>1, <1>2, <2>1, HalfIs
<1>5. r = t
  <2>1. k = m
    BY <1>3, <1>4
  <2>2. r.base = t.base
    BY <2>1, <1>1, <1>2
  <2>3. QED BY <2>2 DEF Proper
<1>6. x = y
  <2>1. /\ x.port \in r.base .. r.base + Half(Block) - 1 /\ x.green = x.port + Half(Block)
        /\ y.port \in r.base .. r.base + Half(Block) - 1 /\ y.green = y.port + Half(Block)
    BY <1>5 DEF Proper
  <2>2. r.base \in Nat
    BY <1>1, HalfIs
  <2>3. n \in {x.port, x.green} /\ n \in {y.port, y.green}
    BY <2>1, <2>2, <1>1, HalfIs DEF PortsOf, NoPort
  <2>4. x.port = y.port
    BY <2>1, <2>2, <2>3, HalfIs
  <2>5. QED BY <1>5, <2>4 DEF Proper
<1>7. QED BY <1>5, <1>6

(* Blocks keep the ports on record apart, and away from the databases.      *)
LEMMA ProperSeparate ==
  ASSUME Blocked, Outside, Proper(recs) PROVE Separate
<1>1. \A r, t \in recs : \A x \in r.ports, y \in t.ports :
        PortsOf(x) \cap PortsOf(y) # {} => r = t /\ x = y
  BY OneEntry
<1>2. \A r \in recs : \A x \in r.ports : \A n \in PortsOf(x) : n \in Block.start .. Block.end
  BY InBlock
<1>3. QED BY <1>1, <1>2 DEF Separate, Outside

(* The port that a deployment takes is its own.                             *)
LEMMA PortOwned ==
  ASSUME NEW q, NEW s, Entries(q, s) # {}, NEW c
  PROVE  Owned(recs, q.project, q.environment, s, PortOf(q, s, c))
<1> DEFINE x == CHOOSE x \in Entries(q, s) : TRUE
<1>1. x \in Entries(q, s)
  OBVIOUS
<1>2. PICK r \in recs : r.project = q.project /\ r.environment = q.environment
                          /\ x \in r.ports /\ x.service = s
  BY <1>1 DEF Entries
<1>3. PortOf(q, s, c) \in PortsOf(x)
  BY DEF PortOf, PortsOf
<1>4. QED BY <1>2, <1>3 DEF Owned

(* A registration adds a record for somebody who has none yet.              *)
LEMMA GrantNew ==
  ASSUME NEW R, NEW q \in Requests, NEW r \in Grants(R, "vps", Block, q)
  PROVE  /\ r.project = q.project /\ r.environment = q.environment
         /\ ~\E o \in R : o.project = q.project /\ o.environment = q.environment
BY DEF Grants, GrantsBlock, GrantsPool, Record, AlreadyRegistered

LEMMA GrantTyped ==
  ASSUME NEW R, Typed(R), NEW q \in Requests, NEW r \in Grants(R, "vps", Block, q)
  PROVE  Typed(R \cup {r})
<1>1. Len(q.services) \in Nat
  BY RequestsAssumption
<1>2. CASE Blocked
  <2>1. PICK b \in FreeBases(R, Block) : r = Record(q, b, PortsForBlock(b, Block, q.services))
    BY <1>2 DEF Grants, GrantsBlock, Lowest, Blocked
  <2>2. b \in Nat /\ Half(Block) \in Nat
    BY <1>2, HalfIs DEF FreeBases
  <2>3. \A x \in r.ports : \E i \in 1..Len(q.services) :
          x.port = b + (i - 1) /\ x.green = b + Half(Block) + (i - 1)
    BY <2>1 DEF Record, PortsForBlock, Positions
  <2>4. \A x \in r.ports : x.port \in Nat /\ x.green \in Nat
    BY <1>1, <2>2, <2>3
  <2>5. QED BY <2>4 DEF Typed
<1>3. CASE ~Blocked
  <2>1. PICK g \in PoolPorts(R, q.services) :
          r = Record(q, NoPort,
                {[service |-> q.services[i].name, port |-> g[i], green |-> NoPort] : i \in DOMAIN g})
    BY <1>3 DEF Grants, GrantsPool, Blocked
  <2>2. DOMAIN g = Where(q.services, "port")
    BY <2>1 DEF PoolPorts
  <2>3. ASSUME NEW i \in Where(q.services, "port") PROVE g[i] \in Nat
    <3>1. i \in Positions(q.services) /\ q.services[i].port \in Nat
      BY RequestsAssumption DEF Where
    <3>2. CASE FixedPort(q.services, i)
      BY <2>1, <3>1, <3>2 DEF PoolPorts
    <3>3. CASE ~FixedPort(q.services, i)
      <4>1. q.services[i].name \in DOMAIN Pools /\ g[i] \in Pool(q.services, i)
        BY <2>1, <3>3 DEF PoolPorts, Lowest
      <4>2. QED BY <4>1, PoolsAssumption DEF Pool
    <3>4. QED BY <3>2, <3>3
  <2>4. \A x \in r.ports : \E i \in Where(q.services, "port") : x.port = g[i] /\ x.green = NoPort
    BY <2>1, <2>2 DEF Record
  <2>5. QED BY <2>3, <2>4 DEF Typed, NoPort
<1>4. QED BY <1>2, <1>3

(* A registration adds a record with a block of its own.                    *)
LEMMA GrantProper ==
  ASSUME Blocked, NEW R, Proper(R), NEW q \in Requests, NEW r \in Grants(R, "vps", Block, q)
  PROVE  Proper(R \cup {r})
<1>1. r \in GrantsBlock(R, Block, q) /\ ~AlreadyRegistered(R, q)
  BY DEF Grants, Blocked
<1>2. PICK b \in FreeBases(R, Block) :
        r = Record(q, b, PortsForBlock(b, Block, q.services)) /\ Len(q.services) <= Half(Block)
  BY <1>1 DEF GrantsBlock, Lowest
<1>3. /\ r.project = q.project /\ r.environment = q.environment /\ r.base = b
      /\ r.ports = PortsForBlock(b, Block, q.services)
  BY <1>2 DEF Record
<1>4. /\ b \in Nat /\ b + Block.size - 1 <= Block.end /\ b \notin UsedBlockBases(R)
      /\ \E k \in 0..Block.end : b = Block.start + k * Block.size
  BY <1>2, HalfIs DEF FreeBases
<1>5. Len(q.services) \in Nat
  BY RequestsAssumption
<1>6. \A x \in r.ports : \E i \in 1..Len(q.services) :
        x.service = q.services[i].name /\ x.port = b + (i - 1) /\ x.green = b + Half(Block) + (i - 1)
        /\ x = [service |-> q.services[i].name, port |-> b + (i - 1), green |-> b + Half(Block) + (i - 1)]
  BY <1>3 DEF PortsForBlock, Positions
<1>7. ASSUME NEW x \in r.ports
      PROVE  x.port \in b .. b + Half(Block) - 1 /\ x.green = x.port + Half(Block)
  <2>1. PICK i \in 1..Len(q.services) :
          x.port = b + (i - 1) /\ x.green = b + Half(Block) + (i - 1)
    BY <1>6
  <2>2. Half(Block) \in Nat /\ b \in Nat /\ i \in Nat /\ 1 <= i /\ i <= Half(Block)
    BY <1>2, <1>4, <1>5, HalfIs
  <2>3. QED BY <2>1, <2>2
<1>8. ASSUME NEW x \in r.ports, NEW y \in r.ports, x.service = y.service \/ x.port = y.port
      PROVE  x = y
  <2>1. PICK i \in 1..Len(q.services) :
          x = [service |-> q.services[i].name, port |-> b + (i - 1), green |-> b + Half(Block) + (i - 1)]
    BY <1>6
  <2>2. PICK j \in 1..Len(q.services) :
          y = [service |-> q.services[j].name, port |-> b + (j - 1), green |-> b + Half(Block) + (j - 1)]
    BY <1>6
  <2>3. i = j
    <3>1. CASE x.service = y.service
      BY <2>1, <2>2, <3>1, RequestsAssumption DEF Positions
    <3>2. CASE x.port = y.port
      BY <2>1, <2>2, <3>2, <1>4, <1>5
    <3>3. QED BY <1>8, <3>1, <3>2
  <2>4. QED BY <2>1, <2>2, <2>3
<1>9. \A o \in R : o.base # b
  BY <1>4 DEF UsedBlockBases
<1>10. ~\E o \in R : o.project = q.project /\ o.environment = q.environment
  BY <1>1 DEF AlreadyRegistered
<1>11. QED BY <1>3, <1>4, <1>7, <1>8, <1>9, <1>10 DEF Proper
------------------------------------------------------------------------------
(* Types.                                                                   *)

LEMMA TypeInit == Init => TypeOK
BY FaultsAssumption DEF Init, TypeOK, Projects, ConfOf

(* The commands of a run leave the types of marker, files, containers and   *)
(* confs to be looked at.                                                   *)
LEMMA AtTyped ==
  ASSUME TypeOK, NEW q \in Requests, NEW step \in Steps \cup {"ok"},
         Exit(q, step) \/ (Stop(q) /\ (Fault \/ UNCHANGED faults))
  PROVE  at' \in [Requests -> Steps \cup {"idle", "ok", "failed"}] /\ faults' \in 0..MaxFaults
BY FaultsAssumption DEF TypeOK, Exit, Stop, Continue, Fault

LEMMA TargetIs == ASSUME NEW q PROVE Target(q) \in Colors /\ Old(q) \in Colors
BY DEF Target, Old, Colors

LEMMA PortIs ==
  ASSUME Typed(recs), NEW q, NEW s, Entries(q, s) # {}, NEW c
  PROVE  PortOf(q, s, c) \in Nat
<1>1. (CHOOSE x \in Entries(q, s) : TRUE) \in Entries(q, s)
  OBVIOUS
<1>2. \A x \in Entries(q, s) : x.port \in Nat /\ x.green \in Nat
  BY DEF Entries, Typed
<1>3. QED BY <1>1, <1>2 DEF PortOf

(* What has been written into a conf of q's keeps its form.                 *)
LEMMA BootstrapForm ==
  ASSUME Typed(recs), NEW q \in Requests, Deployable(q)
  PROVE  ConfOf(q.project, [environment |-> q.environment,
                            ports |-> [l \in Lines(q) |-> PortOf(q, l[2], Target(q))]])
<1>1. \A l \in Lines(q) : l[2] \in Names(q)
  BY DEF Lines, WithDomain, Names, Deployable, Where
<1>2. \A l \in Lines(q) : PortOf(q, l[2], Target(q)) \in Nat
  BY <1>1, PortIs DEF Deployable
<1>3. QED BY <1>2 DEF ConfOf

SwitchedConf(c, q, done) ==
  [c EXCEPT !.ports = [l \in DOMAIN c.ports |->
     IF l[2] \in done THEN PortOf(q, l[2], Target(q)) ELSE c.ports[l]]]

LEMMA SwitchForm ==
  ASSUME Typed(recs), NEW q \in Requests, Deployable(q), NEW done \in SUBSET Names(q),
         NEW p, NEW c, c # NoConf, ConfOf(p, c)
  PROVE  ConfOf(p, SwitchedConf(c, q, done))
<1>1. PICK r \in Requests : r.project = p /\ c \in [environment : {r.environment}, ports : [Lines(r) -> Nat]]
  BY DEF ConfOf
<1>2. \A l \in Lines(r) : l[2] \in done => PortOf(q, l[2], Target(q)) \in Nat
  BY PortIs DEF Deployable
<1>3. QED BY <1>1, <1>2 DEF ConfOf, SwitchedConf

\* switch_ports replaces the ports of these services in the conf of the project.
Switched(q, done) ==
  conf' = [conf EXCEPT ![q.project] = SwitchedConf(conf[q.project], q, done)]

LEMMA SwitchWrites ==
  ASSUME NEW q \in Requests, SwitchPorts(q), conf[q.project] # NoConf
  PROVE  \E done \in SUBSET Names(q) :
           /\ Switched(q, done)
           /\ \/ done = Names(q) /\ Exit(q, "nginx_reload")
              \/ done # Names(q) /\ Stop(q) /\ Fault
BY DEF SwitchPorts, Switched, SwitchedConf
------------------------------------------------------------------------------
(* The registry only grows, and what a deployment has read of it stays.     *)

Stays == \A q \in Requests : Deployable(q) =>
           /\ Deployable(q)'
           /\ \A s \in Names(q) : Entries(q, s)' = Entries(q, s)

LEMMA RegisterGrows ==
  ASSUME Typed(recs), NEW q0 \in Requests, Register(q0)
  PROVE  Typed(recs') /\ recs \subseteq recs' /\ Stays
<1>1. PICK r \in Grants(recs, "vps", Block, q0) : recs' = recs \cup {r}
  BY DEF Register
<1>2. /\ Typed(recs \cup {r}) /\ r.project = q0.project /\ r.environment = q0.environment
      /\ ~\E o \in recs : o.project = q0.project /\ o.environment = q0.environment
  BY <1>1, GrantTyped, GrantNew
<1>3. ASSUME NEW q \in Requests, Deployable(q)
      PROVE  Deployable(q)' /\ \A s \in Names(q) : Entries(q, s)' = Entries(q, s)
  <2>1. Registered(q) /\ Registered(q)'
    BY <1>1, <1>3 DEF Deployable, Registered
  <2>2. ~(r.project = q.project /\ r.environment = q.environment)
    BY <1>2, <2>1 DEF Registered
  <2>3. \A s : Entries(q, s)' = Entries(q, s)
    BY <1>1, <2>2 DEF Entries
  <2>4. QED BY <1>3, <2>1, <2>3 DEF Deployable
<1>4. QED BY <1>1, <1>2, <1>3 DEF Stays

LEMMA SameRecs == ASSUME UNCHANGED recs PROVE Stays /\ (Typed(recs) => Typed(recs'))
<1>1. \A q \in Requests : \A s : Entries(q, s)' = Entries(q, s)
  BY DEF Entries
<1>2. \A q \in Requests : Registered(q)' = Registered(q)
  BY DEF Registered
<1>3. QED BY <1>1, <1>2 DEF Stays, Deployable
------------------------------------------------------------------------------
(* The inductive invariant of the types: a run that is under way has ports  *)
(* on record, so has the one that wrote the compose files last.             *)

TInv ==
  /\ TypeOK
  /\ Typed(recs)
  /\ \A q \in Requests : ~Ended(q) \/ (\E p \in Projects : file[p] = q) => Deployable(q)
  /\ \A q \in Requests : at[q] = "compose_up_target" => file[q.project] # NoConf

LEMMA TInvInit == Init => TInv
BY TypeInit, RecordedAssumption, NoConfAssumption DEF Init, TInv, Typed, Ended

(* What is common to the commands that change neither registry nor files.   *)
LEMMA TInvKept ==
  ASSUME TInv, UNCHANGED <<recs, file>>, TypeOK', NEW q \in Requests,
         ~Ended(q) \/ Deployable(q),
         \A r \in Requests \ {q} : at'[r] = at[r],
         at'[q] # "compose_up_target"
  PROVE  TInv'
<1>1. Stays /\ Typed(recs')
  BY SameRecs DEF TInv
<1>2. ASSUME NEW r \in Requests, ~Ended(r)' \/ (\E p \in Projects : file'[p] = r)
      PROVE  Deployable(r)'
  <2>1. ~Ended(r) \/ (\E p \in Projects : file[p] = r) \/ (r = q /\ Deployable(q))
    BY <1>2 DEF Ended, TInv
  <2>2. QED BY <1>1, <2>1 DEF Stays, TInv
<1>3. QED BY <1>1, <1>2 DEF TInv

(* The containers after a compose up.                                       *)
LEMMA UpTyped ==
  ASSUME TypeOK, NEW q \in Requests, NEW wanted, NEW next \in Steps, Up(q, wanted, next),
         \A w \in wanted : w.project \in Projects /\ w.unit \in Colors \cup {"db"} /\ w.port \in Nat
  PROVE  /\ containers' \subseteq containers \cup wanted
         /\ \A k \in containers' : k.project \in Projects /\ k.unit \in Colors \cup {"db"} /\ k.port \in Nat
         /\ \A k, l \in containers' : k.port = l.port => k = l
         /\ Exit(q, next) \/ (Stop(q) /\ (Fault \/ UNCHANGED faults))
<1> DEFINE Own(k) == \E w \in wanted : <<k.project, k.unit, k.service>> = <<w.project, w.unit, w.service>>
           rest == {k \in containers : ~Own(k)}
           free == {w \in wanted : \A k \in rest : k.port # w.port}
<1>1. PICK started \in SUBSET free :
        /\ \A w, x \in started : w.port = x.port => w = x
        /\ containers' = rest \cup started
        /\ Exit(q, next) \/ (Stop(q) /\ (Fault \/ UNCHANGED faults))
  BY DEF Up
<1>2. rest \subseteq containers /\ started \subseteq wanted
  OBVIOUS
<1>3. \A k, l \in containers' : k.port = l.port => k = l
  <2>1. \A k, l \in rest : k.port = l.port => k = l
    BY <1>2 DEF TypeOK
  <2>2. \A k \in rest, l \in started : k.port # l.port
    OBVIOUS
  <2>3. QED BY <1>1, <2>1, <2>2
<1>4. QED BY <1>1, <1>2, <1>3 DEF TypeOK

(* One step per action.                                                     *)
LEMMA TInvNext == TInv /\ [Next]_vars => TInv'
<1> SUFFICES ASSUME TInv, [Next]_vars PROVE TInv'
  OBVIOUS
<1> USE DEF Ended
<1>1. ASSUME NEW q \in Requests, Register(q) PROVE TInv'
  <2>1. Typed(recs') /\ Stays
    BY <1>1, RegisterGrows DEF TInv
  <2>2. TypeOK'
    BY <1>1 DEF Register, TInv, TypeOK, ConfOf
  <2>3. QED BY <1>1, <2>1, <2>2 DEF Register, TInv, Stays
<1>2. ASSUME NEW q \in Requests, Dispatch(q) PROVE TInv'
  <2>1. TypeOK'
    BY <1>2 DEF Dispatch, TInv, TypeOK, ConfOf, Steps
  <2>2. CASE Deployable(q)
    BY <1>2, <2>1, <2>2, TInvKept DEF Dispatch, TInv, TypeOK
  <2>3. CASE ~Deployable(q)
    <3>1. at' = [at EXCEPT ![q] = "failed"] /\ UNCHANGED <<recs, file>>
      BY <1>2, <2>3 DEF Dispatch
    <3>2. Stays /\ Typed(recs')
      BY <3>1, SameRecs DEF TInv
    <3>3. QED BY <2>1, <3>1, <3>2 DEF TInv, Stays, TypeOK
  <2>4. QED BY <2>2, <2>3
<1>3. ASSUME NEW q \in Requests, Database(q) PROVE TInv'
  <2>1. CASE UNCHANGED containers
    <3>1. TypeOK'
      BY <1>3, <2>1, AtTyped DEF Database, TInv, TypeOK, ConfOf, Steps, Up
    <3>2. QED BY <1>3, <3>1, TInvKept DEF Database, Up, Exit, Continue, Stop, TInv, TypeOK
  <2>2. CASE Up(q, {Container(q, "db", "postgres", q.database)}, "write_compose")
    <3>1. /\ \A k \in containers' : k.project \in Projects /\ k.unit \in Colors \cup {"db"} /\ k.port \in Nat
          /\ \A k, l \in containers' : k.port = l.port => k = l
          /\ Exit(q, "write_compose") \/ (Stop(q) /\ (Fault \/ UNCHANGED faults))
      <4> DEFINE wanted == {Container(q, "db", "postgres", q.database)}
      <4>1. \A w \in wanted : w.project \in Projects /\ w.unit \in Colors \cup {"db"} /\ w.port \in Nat
        <5>1. q.database \in Nat /\ q.project \in Projects
          BY RequestsAssumption DEF Projects
        <5>2. QED BY <5>1 DEF Container
      <4>2. Up(q, wanted, "write_compose")
        BY <2>2
      <4> HIDE DEF wanted
      <4>3. QED BY <4>1, <4>2, UpTyped DEF TInv, Steps
    <3>2. TypeOK'
      BY <1>3, <3>1, AtTyped DEF Database, TInv, TypeOK, ConfOf, Steps
    <3>3. QED BY <1>3, <3>1, <3>2, TInvKept DEF Database, Exit, Continue, Stop, TInv, TypeOK
  <2>3. QED BY <1>3, <2>1, <2>2 DEF Database
<1>4. ASSUME NEW q \in Requests, WriteCompose(q) PROVE TInv'
  <2>1. TypeOK'
    BY <1>4, AtTyped DEF WriteCompose, TInv, TypeOK, ConfOf, Steps, Projects
  <2>2. Stays /\ Typed(recs') /\ Deployable(q)
    BY <1>4, SameRecs DEF TInv, WriteCompose
  <2>3. file'[q.project] = q
    BY <1>4 DEF WriteCompose, TInv, TypeOK, Projects
  <2>4. \A r \in Requests : (\E p \in Projects : file'[p] = r) => Deployable(r)'
    BY <1>4, <2>2 DEF WriteCompose, TInv, TypeOK, Stays
  <2>5. \A r \in Requests : ~Ended(r)' => Deployable(r)'
    BY <1>4, <2>2 DEF WriteCompose, Exit, Continue, Stop, TInv, TypeOK, Stays
  <2>6. \A r \in Requests : at'[r] = "compose_up_target" => file'[r.project] # NoConf
    <3>1. \A r \in Requests : at'[r] = "compose_up_target" => r = q \/ file[r.project] # NoConf
      BY <1>4 DEF WriteCompose, Exit, Continue, Stop, TInv, TypeOK
    <3>2. \A p \in Projects : file'[p] = file[p] \/ file'[p] = q
      BY <1>4 DEF WriteCompose, TInv, TypeOK
    <3>3. QED BY <2>3, <3>1, <3>2, NoConfAssumption DEF Projects
  <2>7. QED BY <2>1, <2>2, <2>4, <2>5, <2>6 DEF TInv
<1>5. ASSUME NEW q \in Requests, ComposeUpTarget(q) PROVE TInv'
  <2> DEFINE f == file[q.project]
             wanted == {Container(f, Target(q), s, PortOf(f, s, Target(q))) : s \in Names(f)}
  <2>1. f \in Requests /\ Deployable(f) /\ f.project = q.project /\ q.project \in Projects
    BY <1>5 DEF ComposeUpTarget, TInv, TypeOK, Projects
  <2>2. \A w \in wanted : w.project \in Projects /\ w.unit \in Colors \cup {"db"} /\ w.port \in Nat
    <3>1. \A s \in Names(f) : PortOf(f, s, Target(q)) \in Nat
      BY <2>1, PortIs DEF Deployable, TInv
    <3>2. QED BY <2>1, <3>1, TargetIs DEF Container
  <2>3. Up(q, wanted, "health_check_target")
    BY <1>5 DEF ComposeUpTarget
  <2>4. /\ \A k \in containers' : k.project \in Projects /\ k.unit \in Colors \cup {"db"} /\ k.port \in Nat
        /\ \A k, l \in containers' : k.port = l.port => k = l
        /\ Exit(q, "health_check_target") \/ (Stop(q) /\ (Fault \/ UNCHANGED faults))
    <3> HIDE DEF wanted
    <3> QED BY <2>2, <2>3, UpTyped DEF TInv, Steps
  <2>5. TypeOK'
    BY <1>5, <2>4, AtTyped DEF ComposeUpTarget, TInv, TypeOK, ConfOf, Steps
  <2>6. QED BY <1>5, <2>4, <2>5, TInvKept DEF ComposeUpTarget, Exit, Continue, Stop, TInv, TypeOK
<1>6. ASSUME NEW q \in Requests, HealthCheckTarget(q) \/ VerifyLive(q) PROVE TInv'
  <2>1. Exit(q, "bootstrap_nginx_if_missing") \/ Exit(q, "compose_down_old") \/ (Stop(q) /\ UNCHANGED faults)
    BY <1>6 DEF HealthCheckTarget, VerifyLive
  <2>2. TypeOK'
    <3>1. at' \in [Requests -> Steps \cup {"idle", "ok", "failed"}] /\ faults' \in 0..MaxFaults
      BY <2>1, AtTyped DEF TInv, Steps
    <3>2. UNCHANGED <<recs, marker, file, containers, conf, loaded>>
      BY <1>6 DEF HealthCheckTarget, VerifyLive
    <3>3. QED BY <3>1, <3>2 DEF TInv, TypeOK, ConfOf
  <2>3. QED BY <1>6, <2>1, <2>2, TInvKept DEF HealthCheckTarget, VerifyLive, Exit, Continue, Stop, TInv, TypeOK
<1>7. ASSUME NEW q \in Requests, BootstrapNginx(q) PROVE TInv'
  <2>1. Exit(q, "switch_ports") \/ (Stop(q) /\ Fault)
    BY <1>7 DEF BootstrapNginx
  <2>2. Deployable(q) /\ q.project \in Projects
    BY <1>7 DEF BootstrapNginx, TInv, Projects
  <2>3. /\ DOMAIN conf' = Projects /\ DOMAIN loaded' = Projects
        /\ \A p \in Projects : ConfOf(p, conf'[p])
    BY <1>7, <2>2, BootstrapForm DEF BootstrapNginx, Reload, TInv, TypeOK
  <2>4. loaded' \in {loaded, conf'}
    BY <1>7 DEF BootstrapNginx, Reload
  <2>5. TypeOK'
    <3>1. at' \in [Requests -> Steps \cup {"idle", "ok", "failed"}] /\ faults' \in 0..MaxFaults
      BY <2>1, AtTyped DEF TInv, Steps
    <3>2. \A p \in Projects : ConfOf(p, loaded'[p])
      BY <2>3, <2>4 DEF TInv, TypeOK, ConfOf
    <3>3. UNCHANGED <<recs, marker, file, containers>>
      BY <1>7 DEF BootstrapNginx
    <3>4. QED BY <2>3, <3>1, <3>2, <3>3 DEF TInv, TypeOK, ConfOf
  <2>6. QED BY <1>7, <2>1, <2>5, TInvKept DEF BootstrapNginx, Exit, Continue, Stop, TInv, TypeOK
<1>8. ASSUME NEW q \in Requests, SwitchPorts(q) PROVE TInv'
  <2>1. Exit(q, "nginx_reload") \/ (Stop(q) /\ (Fault \/ UNCHANGED faults))
    BY <1>8 DEF SwitchPorts
  <2>2. Deployable(q) /\ q.project \in Projects
    BY <1>8 DEF SwitchPorts, TInv, Projects
  <2>3. DOMAIN conf' = Projects /\ \A p \in Projects : ConfOf(p, conf'[p])
    <3>1. CASE UNCHANGED conf
      BY <3>1 DEF TInv, TypeOK
    <3>2. CASE conf[q.project] # NoConf
      <4> DEFINE c == conf[q.project]
      <4>1. PICK done \in SUBSET Names(q) : Switched(q, done)
        BY <1>8, <3>2, SwitchWrites
      <4>2. ConfOf(q.project, c)
        BY <2>2 DEF TInv, TypeOK
      <4>3. ConfOf(q.project, SwitchedConf(c, q, done))
        BY <2>2, <3>2, <4>2, SwitchForm DEF TInv
      <4>4. QED BY <2>2, <4>1, <4>3 DEF TInv, TypeOK, Switched
    <3>3. QED BY <1>8, <3>1, <3>2 DEF SwitchPorts
  <2>4. TypeOK'
    <3>1. at' \in [Requests -> Steps \cup {"idle", "ok", "failed"}] /\ faults' \in 0..MaxFaults
      BY <2>1, AtTyped DEF TInv, Steps
    <3>2. UNCHANGED <<recs, marker, file, containers, loaded>>
      BY <1>8 DEF SwitchPorts
    <3>3. QED BY <2>3, <3>1, <3>2 DEF TInv, TypeOK, ConfOf
  <2>5. QED BY <1>8, <2>1, <2>4, TInvKept DEF SwitchPorts, Exit, Continue, Stop, TInv, TypeOK
<1>9. ASSUME NEW q \in Requests, NginxReload(q) \/ WriteActiveMarker(q) PROVE TInv'
  <2>1. Exit(q, "write_active_marker") \/ Exit(q, "verify_live")
    BY <1>9 DEF NginxReload, WriteActiveMarker
  <2>2. marker' \in [Projects -> Colors \cup {"absent"}] /\ conf' = conf /\ loaded' \in {loaded, conf}
    BY <1>9, TargetIs DEF NginxReload, WriteActiveMarker, Reload, TInv, TypeOK
  <2>3. TypeOK'
    BY <1>9, <2>1, <2>2, AtTyped DEF NginxReload, WriteActiveMarker, TInv, TypeOK, ConfOf, Steps
  <2>4. QED BY <1>9, <2>1, <2>3, TInvKept DEF NginxReload, WriteActiveMarker, Exit, Continue, Stop, TInv, TypeOK
<1>10. ASSUME NEW q \in Requests, ComposeDownOld(q) PROVE TInv'
  <2>1. Exit(q, "ok") /\ containers' \subseteq containers
    BY <1>10 DEF ComposeDownOld
  <2>2. TypeOK'
    BY <1>10, <2>1, AtTyped DEF ComposeDownOld, TInv, TypeOK, ConfOf, Steps
  <2>3. QED BY <1>10, <2>1, <2>2, TInvKept DEF ComposeDownOld, Exit, Continue, Stop, TInv, TypeOK
<1>11. ASSUME NEW q \in Requests, CommandLost(q) PROVE TInv'
  <2>1. TypeOK'
    BY <1>11, AtTyped DEF CommandLost, TInv, TypeOK, ConfOf, Steps
  <2>2. QED BY <1>11, <2>1, TInvKept DEF CommandLost, Stop, TInv, TypeOK
<1>12. ASSUME ReloadElsewhere \/ UNCHANGED vars PROVE TInv'
  <2>1. TypeOK' /\ UNCHANGED <<recs, file, at>>
    BY <1>12 DEF ReloadElsewhere, vars, TInv, TypeOK, ConfOf
  <2>2. Stays /\ Typed(recs')
    BY <2>1, SameRecs DEF TInv
  <2>3. QED BY <2>1, <2>2 DEF TInv, Stays
<1>13. QED BY <1>1, <1>2, <1>3, <1>4, <1>5, <1>6, <1>7, <1>8, <1>9, <1>10, <1>11, <1>12
         DEF Next, Command

(* The types hold, with blocks or pools, and no deployment runs into a port *)
(* that its record does not have.                                           *)
THEOREM TypeCorrect == Spec => []TypeOK
<1>1. Init => TInv
  BY TInvInit
<1>2. TInv /\ [Next]_vars => TInv'
  BY TInvNext
<1>3. TInv => TypeOK
  BY DEF TInv
<1>4. QED BY <1>1, <1>2, <1>3, PTL DEF Spec
------------------------------------------------------------------------------
(* What nginx routes is the project's own: containers and lines of confs    *)
(* have ports that the record of their project, environment and service has.*)

LinesOwned(R, p, c) ==
  c # NoConf => \A l \in DOMAIN c.ports : Owned(R, p, c.environment, l[2], c.ports[l])

ContainerOwned(R, k) ==
  \/ k.unit = "db" /\ k.port \in {q.database : q \in Requests}
  \/ Owned(R, k.project, k.environment, k.service, k.port)

Own ==
  /\ \A k \in containers : ContainerOwned(recs, k)
  /\ \A p \in Projects : LinesOwned(recs, p, conf[p]) /\ LinesOwned(recs, p, loaded[p])

LEMMA OwnInit == Init => Own
BY DEF Init, Own, LinesOwned

(* What a registry owns it still owns when it has grown.                    *)
LEMMA OwnGrows ==
  ASSUME NEW R, NEW S, R \subseteq S
  PROVE  /\ \A p, c : LinesOwned(R, p, c) => LinesOwned(S, p, c)
         /\ \A k : ContainerOwned(R, k) => ContainerOwned(S, k)
BY DEF LinesOwned, ContainerOwned, Owned

LEMMA OwnNext ==
  ASSUME Apart, TInv, Own, [Next]_vars
  PROVE  Own'
<1>1. ASSUME NEW q \in Requests, Register(q) PROVE Own'
  <2>1. recs \subseteq recs'
    BY <1>1 DEF Register
  <2>2. QED BY <1>1, <2>1, OwnGrows DEF Register, Own
<1>2. ASSUME UNCHANGED <<recs, conf, loaded>>,
             \A k \in containers' : k \in containers \/ ContainerOwned(recs, k)
      PROVE  Own'
  BY <1>2 DEF Own
<1>3. ASSUME NEW q \in Requests, Database(q) PROVE Own'
  <2> DEFINE wanted == {Container(q, "db", "postgres", q.database)}
  <2>1. CASE UNCHANGED containers
    BY <1>2, <1>3, <2>1 DEF Database
  <2>2. CASE Up(q, wanted, "write_compose")
    <3>1. containers' \subseteq containers \cup wanted
      BY <2>2 DEF Up
    <3>2. \A w \in wanted : ContainerOwned(recs, w)
      BY DEF ContainerOwned, Container
    <3> HIDE DEF wanted
    <3>3. QED BY <1>2, <1>3, <3>1, <3>2 DEF Database
  <2>3. QED BY <1>3, <2>1, <2>2 DEF Database
<1>4. ASSUME NEW q \in Requests, ComposeUpTarget(q) PROVE Own'
  <2> DEFINE f == file[q.project]
             wanted == {Container(f, Target(q), s, PortOf(f, s, Target(q))) : s \in Names(f)}
  <2>1. f \in Requests /\ Deployable(f)
    BY <1>4 DEF ComposeUpTarget, TInv, TypeOK, Projects, Ended
  <2>2. Up(q, wanted, "health_check_target")
    BY <1>4 DEF ComposeUpTarget
  <2>3. \A w \in wanted : ContainerOwned(recs, w)
    BY <2>1, PortOwned DEF Deployable, ContainerOwned, Container
  <2> HIDE DEF wanted
  <2>4. containers' \subseteq containers \cup wanted
    BY <2>2 DEF Up
  <2>5. QED BY <1>2, <1>4, <2>3, <2>4 DEF ComposeUpTarget
<1>5. ASSUME NEW q \in Requests, BootstrapNginx(q) PROVE Own'
  <2> DEFINE c == [environment |-> q.environment,
                   ports |-> [l \in Lines(q) |-> PortOf(q, l[2], Target(q))]]
  <2>1. Deployable(q) /\ q.project \in Projects
    BY <1>5 DEF BootstrapNginx, TInv, Projects, Ended
  <2>2. \A l \in Lines(q) : l[2] \in Names(q)
    BY <2>1 DEF Lines, WithDomain, Names, Deployable, Where
  <2>3. LinesOwned(recs, q.project, c)
    BY <2>1, <2>2, PortOwned DEF Deployable, LinesOwned
  <2>4. conf' = conf \/ conf' = [conf EXCEPT ![q.project] = c]
    BY <1>5 DEF BootstrapNginx
  <2> HIDE DEF c
  <2>5. \A p \in Projects : LinesOwned(recs, p, conf'[p])
    BY <2>1, <2>3, <2>4 DEF Own, TInv, TypeOK
  <2>6. loaded' = loaded \/ loaded' = conf'
    BY <1>5 DEF BootstrapNginx, Reload
  <2>7. QED BY <1>5, <2>5, <2>6 DEF BootstrapNginx, Own
<1>6. ASSUME NEW q \in Requests, SwitchPorts(q) PROVE Own'
  <2>1. Deployable(q) /\ q.project \in Projects
    BY <1>6 DEF SwitchPorts, TInv, Projects, Ended
  <2>2. CASE UNCHANGED conf
    BY <1>6, <2>2 DEF SwitchPorts, Own
  <2>3. CASE conf[q.project] # NoConf
    <3> DEFINE c == conf[q.project]
    <3>1. PICK done \in SUBSET Names(q) : Switched(q, done)
      BY <1>6, <2>3, SwitchWrites
    <3>2. ConfOf(q.project, c) /\ LinesOwned(recs, q.project, c)
      BY <2>1 DEF TInv, TypeOK, Own
    <3>3. c \in [environment : {q.environment}, ports : [Lines(q) -> Nat]]
      BY <2>3, <3>2 DEF ConfOf, Apart
    <3>4. \A s \in Names(q) : Owned(recs, q.project, q.environment, s, PortOf(q, s, Target(q)))
      BY <2>1, PortOwned DEF Deployable, TInv
    <3>5. LinesOwned(recs, q.project, SwitchedConf(c, q, done))
      BY <2>3, <3>2, <3>3, <3>4 DEF LinesOwned, SwitchedConf
    <3>6. conf' = [conf EXCEPT ![q.project] = SwitchedConf(c, q, done)]
      BY <3>1 DEF Switched
    <3>7. \A p \in Projects : LinesOwned(recs, p, conf'[p])
      BY <2>1, <3>5, <3>6 DEF Own, TInv, TypeOK
    <3>8. QED BY <1>6, <3>7 DEF SwitchPorts, Own
  <2>4. QED BY <1>6, <2>2, <2>3 DEF SwitchPorts
<1>7. ASSUME NEW q \in Requests, NginxReload(q) PROVE Own'
  BY <1>7 DEF NginxReload, Reload, Own
<1>8. ASSUME NEW q \in Requests, ComposeDownOld(q) PROVE Own'
  BY <1>2, <1>8 DEF ComposeDownOld
<1>9. ASSUME NEW q \in Requests,
             Dispatch(q) \/ WriteCompose(q) \/ HealthCheckTarget(q) \/ WriteActiveMarker(q)
               \/ VerifyLive(q) \/ CommandLost(q)
      PROVE  Own'
  BY <1>2, <1>9 DEF Dispatch, WriteCompose, HealthCheckTarget, WriteActiveMarker, VerifyLive,
                    CommandLost
<1>10. CASE ReloadElsewhere
  BY <1>10 DEF ReloadElsewhere, Own
<1>11. CASE UNCHANGED vars
  BY <1>2, <1>11 DEF vars
<1>12. QED BY <1>1, <1>3, <1>4, <1>5, <1>6, <1>7, <1>8, <1>9, <1>10, <1>11 DEF Next, Command

(* As long as the ports on record are apart, however they came there, nginx *)
(* never routes a request to a container of another project, environment or *)
(* service (OwnTraffic), whatever becomes of the runs: what collides on the *)
(* VPS has collided in the registry before.                                 *)
THEOREM RoutesFollowRegistry ==
  ASSUME Apart
  PROVE  Spec /\ []Separate => []OwnTraffic
<1>1. Init => TInv /\ Own
  BY TInvInit, OwnInit
<1>2. TInv /\ Own /\ [Next]_vars => (TInv /\ Own)'
  BY TInvNext, OwnNext
<1>3. Own /\ Separate => OwnTraffic
  <2> SUFFICES ASSUME Own, Separate, NEW p \in Projects, loaded[p] # NoConf,
                      NEW l \in DOMAIN loaded[p].ports, NEW k \in containers,
                      k.port = loaded[p].ports[l]
               PROVE  k.project = p /\ k.environment = loaded[p].environment /\ k.service = l[2]
    BY DEF OwnTraffic
  <2>1. PICK r \in recs : \E x \in r.ports :
               /\ r.project = p /\ r.environment = loaded[p].environment /\ x.service = l[2]
               /\ k.port \in PortsOf(x)
    BY DEF Own, LinesOwned, Owned
  <2>2. PICK x \in r.ports :
               /\ r.project = p /\ r.environment = loaded[p].environment /\ x.service = l[2]
               /\ k.port \in PortsOf(x)
    BY <2>1
  <2>3. k.port \notin {q.database : q \in Requests}
    BY <2>2 DEF Separate
  <2>4. Owned(recs, k.project, k.environment, k.service, k.port)
    BY <2>3 DEF Own, ContainerOwned
  <2>5. PICK t \in recs : \E y \in t.ports :
               /\ t.project = k.project /\ t.environment = k.environment /\ y.service = k.service
               /\ k.port \in PortsOf(y)
    BY <2>4 DEF Owned
  <2>6. PICK y \in t.ports :
               /\ t.project = k.project /\ t.environment = k.environment /\ y.service = k.service
               /\ k.port \in PortsOf(y)
    BY <2>5
  <2>7. r.project = t.project /\ r.environment = t.environment /\ x.service = y.service
    BY <2>2, <2>6 DEF Separate
  <2>8. QED BY <2>2, <2>6, <2>7
<1>4. QED BY <1>1, <1>2, <1>3, PTL DEF Spec

LEMMA RecordsProper == ASSUME Blocked PROVE Spec => []Proper(recs)
<1>1. Init => Proper(recs)
  BY RecordedAssumption DEF Init, Blocked
<1>2. Proper(recs) /\ [Next]_vars => Proper(recs)'
  <2> SUFFICES ASSUME Proper(recs), [Next]_vars PROVE Proper(recs')
    OBVIOUS
  <2>1. ASSUME NEW q \in Requests, Register(q) PROVE Proper(recs')
    BY <2>1, GrantProper DEF Register
  <2>2. CASE UNCHANGED recs
    BY <2>2
  <2>3. QED BY <2>1, <2>2 DEF Next, vars, ReloadElsewhere, Dispatch, Command, CommandLost,
    Database, WriteCompose, ComposeUpTarget, HealthCheckTarget, BootstrapNginx, SwitchPorts,
    NginxReload, WriteActiveMarker, VerifyLive, ComposeDownOld
<1>3. QED BY <1>1, <1>2, PTL DEF Spec

(* With port blocks the registrations keep them apart: whatever projects    *)
(* register and deploy, nginx routes to nobody else's container.            *)
THEOREM RoutesAreOwn ==
  ASSUME Blocked, Apart, Outside
  PROVE  Spec => []OwnTraffic
<1>1. Proper(recs) => Separate
  BY ProperSeparate
<1>2. QED BY <1>1, RecordsProper, RoutesFollowRegistry, PTL

(* A container disappears only in a run of its own project: no other one's  *)
(* deployment, and nothing that a lost run leaves behind, stops it.         *)
THEOREM OthersNeverStopped ==
  Spec => [][\A k \in containers \ containers' :
               \E q \in Requests : q.project = k.project /\ ~Ended(q)]_vars
<1>1. Init => TInv
  BY TInvInit
<1>2. TInv /\ [Next]_vars => TInv'
  BY TInvNext
<1>3. TInv /\ [Next]_vars =>
        [\A k \in containers \ containers' :
           \E q \in Requests : q.project = k.project /\ ~Ended(q)]_vars
  <2> SUFFICES ASSUME TInv, Next, NEW k \in containers \ containers'
               PROVE  \E q \in Requests : q.project = k.project /\ ~Ended(q)
    OBVIOUS
  <2>1. ASSUME NEW q \in Requests, Database(q) PROVE q.project = k.project /\ ~Ended(q)
    BY <2>1 DEF Database, Up, Container, Ended
  <2>2. ASSUME NEW q \in Requests, ComposeUpTarget(q) PROVE q.project = k.project /\ ~Ended(q)
    <3>1. file[q.project].project = q.project
      BY <2>2 DEF ComposeUpTarget, TInv, TypeOK, Projects
    <3>2. QED BY <2>2, <3>1 DEF ComposeUpTarget, Up, Container, Ended
  <2>3. ASSUME NEW q \in Requests, ComposeDownOld(q) PROVE q.project = k.project /\ ~Ended(q)
    BY <2>3 DEF ComposeDownOld, Ended
  <2>4. CASE UNCHANGED containers
    BY <2>4
  <2>5. QED BY <2>1, <2>2, <2>3, <2>4 DEF Next, ReloadElsewhere, Register, Dispatch, Command,
    CommandLost, WriteCompose, HealthCheckTarget, BootstrapNginx, SwitchPorts, NginxReload,
    WriteActiveMarker, VerifyLive
<1>4. QED BY <1>1, <1>2, <1>3, PTL DEF Spec
------------------------------------------------------------------------------
(* A run that ends well has moved every line of its project.                *)

\* PortOf and Target, of a registry and of a marker.
Mine(R, q) == {r \in R : r.project = q.project /\ r.environment = q.environment}

PortIn(R, q, s, c) ==
  LET x == CHOOSE x \in {x \in UNION {r.ports : r \in Mine(R, q)} : x.service = s} : TRUE
  IN  IF c = "blue" THEN x.port ELSE IF x.green # NoPort THEN x.green ELSE x.port + 1

Toward(m) == IF m \in {"absent", "blue"} THEN "green" ELSE "blue"

LEMMA PortsAre ==
  /\ \A q, s, c : PortOf(q, s, c) = PortIn(recs, q, s, c)
  /\ \A q : Target(q) = Toward(marker[q.project])
BY DEF PortOf, Entries, PortIn, Mine, Target, Toward

\* All lines of the conf c of the project of q are at one colour.
Shows(R, q, c, colour) ==
  c # NoConf /\ \A l \in DOMAIN c.ports : c.ports[l] = PortIn(R, q, l[2], colour)

Moving(q) ==
  LET p == q.project
  IN  /\ at[q] = "nginx_reload" => Shows(recs, q, conf[p], Toward(marker[p]))
      /\ at[q] = "write_active_marker" => /\ Shows(recs, q, conf[p], Toward(marker[p]))
                                          /\ Shows(recs, q, loaded[p], Toward(marker[p]))
      /\ at[q] \in {"verify_live", "compose_down_old"} => /\ Shows(recs, q, conf[p], marker[p])
                                                          /\ Shows(recs, q, loaded[p], marker[p])

Moves == \A q \in Requests : Moving(q)

LEMMA MovesInit == Init => Moves
BY DEF Init, Moves, Moving

(* A registration leaves the ports of those who deploy alone.               *)
LEMMA PortsStay ==
  ASSUME TInv, NEW q0 \in Requests, Register(q0), NEW q \in Requests, ~Ended(q)
  PROVE  \A s, c : PortIn(recs', q, s, c) = PortIn(recs, q, s, c)
<1>1. PICK r \in Grants(recs, "vps", Block, q0) : recs' = recs \cup {r}
  BY DEF Register
<1>2. /\ r.project = q0.project /\ r.environment = q0.environment
      /\ ~\E o \in recs : o.project = q0.project /\ o.environment = q0.environment
  BY <1>1, GrantNew
<1>3. \E o \in recs : o.project = q.project /\ o.environment = q.environment
  BY DEF TInv, Deployable, Registered
<1>4. Mine(recs', q) = Mine(recs, q)
  BY <1>1, <1>2, <1>3 DEF Mine
<1>5. QED BY <1>4 DEF PortIn

(* A step that is not of q's run.                                           *)
LEMMA OthersMove ==
  ASSUME NEW q \in Requests, Moving(q), at'[q] = at[q] \/ at'[q] \in {"idle", "ok", "failed"},
         \A s, c : ~Ended(q) => PortIn(recs', q, s, c) = PortIn(recs, q, s, c),
         marker'[q.project] = marker[q.project], conf'[q.project] = conf[q.project],
         loaded'[q.project] \in {loaded[q.project], conf[q.project]}
  PROVE  Moving(q)'
<1>1. CASE at'[q] \in {"idle", "ok", "failed"}
  BY <1>1 DEF Moving
<1>2. CASE at'[q] = at[q] /\ ~Ended(q)
  <2>1. \A x, c : Shows(recs, q, x, c) => Shows(recs', q, x, c)
    BY <1>2 DEF Shows
  <2>2. QED BY <1>2, <2>1 DEF Moving
<1>3. CASE at'[q] = at[q] /\ Ended(q)
  BY <1>3 DEF Moving, Ended
<1>4. QED BY <1>1, <1>2, <1>3

(* All lines of the conf of a project are moved by a run's switch_ports.    *)
LEMMA SwitchShows ==
  ASSUME Apart, TInv, NEW q \in Requests, SwitchPorts(q), at'[q] = "nginx_reload"
  PROVE  Shows(recs', q, conf'[q.project], Toward(marker'[q.project]))
<1> DEFINE c == conf[q.project]
<1>1. Deployable(q) /\ q.project \in Projects /\ UNCHANGED <<recs, marker>>
  BY DEF SwitchPorts, TInv, Projects, Ended
<1>2. c # NoConf
  BY DEF SwitchPorts, Stop, TInv, TypeOK
<1>3. Switched(q, Names(q))
  <2>1. PICK done \in SUBSET Names(q) :
           /\ Switched(q, done)
           /\ \/ done = Names(q) /\ Exit(q, "nginx_reload")
              \/ done # Names(q) /\ Stop(q) /\ Fault
    BY <1>2, SwitchWrites
  <2>2. ~Stop(q)
    BY DEF Stop, TInv, TypeOK
  <2>3. QED BY <2>1, <2>2
<1>4. ConfOf(q.project, c)
  BY <1>1 DEF TInv, TypeOK
<1>5. c \in [environment : {q.environment}, ports : [Lines(q) -> Nat]]
  BY <1>2, <1>4 DEF ConfOf, Apart
<1>6. \A l \in Lines(q) : l[2] \in Names(q)
  BY <1>1 DEF Lines, WithDomain, Names, Deployable, Where
<1>7. \A l \in Lines(q) : SwitchedConf(c, q, Names(q)).ports[l] = PortIn(recs, q, l[2], Toward(marker[q.project]))
  BY <1>5, <1>6, PortsAre DEF SwitchedConf
<1>8. DOMAIN SwitchedConf(c, q, Names(q)).ports = Lines(q)
  BY <1>5 DEF SwitchedConf
<1>9. conf'[q.project] = SwitchedConf(c, q, Names(q))
  BY <1>1, <1>3 DEF Switched, TInv, TypeOK
<1>10. conf'[q.project] # NoConf
  <2>1. ConfOf(q.project, c) /\ SwitchedConf(c, q, Names(q)) \in [environment : {q.environment}, ports : [Lines(q) -> Nat]]
    <3>1. \A l \in Lines(q) : PortOf(q, l[2], Target(q)) \in Nat
      BY <1>6, <1>1, PortIs DEF Deployable, TInv
    <3>2. QED BY <1>4, <1>5, <3>1 DEF SwitchedConf
  <2>2. QED BY <1>9, <2>1, NoConfAssumption
<1>11. QED BY <1>1, <1>7, <1>8, <1>9, <1>10 DEF Shows

LEMMA RunMoves ==
  ASSUME TInv, NEW r \in Requests, Dispatch(r) \/ Command(r) \/ CommandLost(r)
  PROVE  /\ UNCHANGED recs /\ \A q \in Requests : q = r \/ at'[q] = at[q]
         /\ at[r] # "ok" /\ at'[r] = "ok" => ComposeDownOld(r)
<1>1. \A step : Exit(r, step) \/ Stop(r) => \E v \in {step, "failed"} : at' = [at EXCEPT ![r] = v]
  BY DEF Exit, Continue, Stop
<1>2. \A w, step : Up(r, w, step) => Exit(r, step) \/ Stop(r)
  BY DEF Up
<1>3. Command(r) => \E step \in Steps : Exit(r, step) \/ Stop(r) \/ ComposeDownOld(r)
  <2>1. Database(r) => Exit(r, "write_compose") \/ Stop(r)
    BY <1>2 DEF Database
  <2>2. WriteCompose(r) => Exit(r, "compose_up_target")
    BY DEF WriteCompose
  <2>3. ComposeUpTarget(r) => Exit(r, "health_check_target") \/ Stop(r)
    BY <1>2 DEF ComposeUpTarget
  <2>4. HealthCheckTarget(r) => Exit(r, "bootstrap_nginx_if_missing") \/ Stop(r)
    BY DEF HealthCheckTarget
  <2>5. BootstrapNginx(r) => Exit(r, "switch_ports") \/ Stop(r)
    BY DEF BootstrapNginx
  <2>6. SwitchPorts(r) => Exit(r, "nginx_reload") \/ Stop(r)
    BY DEF SwitchPorts
  <2>7. NginxReload(r) => Exit(r, "write_active_marker")
    BY DEF NginxReload
  <2>8. WriteActiveMarker(r) => Exit(r, "verify_live")
    BY DEF WriteActiveMarker
  <2>9. VerifyLive(r) => Exit(r, "compose_down_old") \/ Stop(r)
    BY DEF VerifyLive
  <2>10. QED BY <2>1, <2>2, <2>3, <2>4, <2>5, <2>6, <2>7, <2>8, <2>9 DEF Command, Steps
<1>4. UNCHANGED recs
  BY DEF Dispatch, Command, CommandLost, Database, WriteCompose, ComposeUpTarget,
    HealthCheckTarget, BootstrapNginx, SwitchPorts, NginxReload, WriteActiveMarker, VerifyLive,
    ComposeDownOld
<1>5. CASE \E step \in Steps : Exit(r, step) \/ Stop(r)
  BY <1>1, <1>4, <1>5 DEF TInv, TypeOK, Steps
<1>6. CASE ComposeDownOld(r)
  BY <1>1, <1>4, <1>6 DEF ComposeDownOld, TInv, TypeOK
<1>7. CASE Dispatch(r)
  BY <1>4, <1>7 DEF Dispatch, TInv, TypeOK
<1>8. CASE CommandLost(r)
  BY <1>4, <1>8 DEF CommandLost, Stop, TInv, TypeOK
<1>9. QED BY <1>3, <1>5, <1>6, <1>7, <1>8

LEMMA MovesNext ==
  ASSUME Apart, TInv, Moves, [Next]_vars
  PROVE  Moves'
<1> SUFFICES ASSUME NEW q \in Requests PROVE Moving(q)'
  BY DEF Moves
<1> DEFINE p == q.project
<1>1. Moving(q) /\ p \in Projects
  BY DEF Moves, Projects
<1>2. ASSUME NEW r \in Requests, Register(r) PROVE Moving(q)'
  BY <1>1, <1>2, PortsStay, OthersMove DEF Register
<1>3. ASSUME NEW r \in Requests, r # q, Dispatch(r) \/ Command(r) \/ CommandLost(r)
      PROVE  Moving(q)'
  <2>1. r.project # p
    BY <1>3 DEF Apart
  <2>2. UNCHANGED recs /\ at'[q] = at[q]
    BY <1>3, RunMoves
  <2>3. marker'[p] = marker[p]
    BY <1>1, <1>3, <2>1 DEF Dispatch, Command, CommandLost, Database, WriteCompose, ComposeUpTarget,
      HealthCheckTarget, BootstrapNginx, SwitchPorts, NginxReload, WriteActiveMarker, VerifyLive,
      ComposeDownOld, TInv, TypeOK
  <2>4. conf'[p] = conf[p]
    <3>1. CASE SwitchPorts(r)
      <4>1. UNCHANGED conf \/ \E done : Switched(r, done)
        BY <3>1, SwitchWrites DEF SwitchPorts
      <4>2. QED BY <1>1, <2>1, <4>1 DEF Switched, TInv, TypeOK
    <3>2. CASE BootstrapNginx(r)
      BY <1>1, <2>1, <3>2 DEF BootstrapNginx, TInv, TypeOK
    <3>3. CASE ~SwitchPorts(r) /\ ~BootstrapNginx(r)
      BY <1>3, <3>3 DEF Dispatch, Command, CommandLost, Database, WriteCompose, ComposeUpTarget,
        HealthCheckTarget, NginxReload, WriteActiveMarker, VerifyLive, ComposeDownOld
    <3>4. QED BY <3>1, <3>2, <3>3
  <2>5. UNCHANGED loaded \/ loaded' = conf'
    BY <1>3 DEF Dispatch, Command, CommandLost, Database, WriteCompose, ComposeUpTarget,
      HealthCheckTarget, BootstrapNginx, SwitchPorts, NginxReload, WriteActiveMarker, VerifyLive,
      ComposeDownOld, Reload
  <2>6. QED BY <1>1, <2>2, <2>3, <2>4, <2>5, OthersMove
<1>4. CASE ReloadElsewhere \/ UNCHANGED vars
  BY <1>1, <1>4, OthersMove DEF ReloadElsewhere, vars
<1>5. CASE Dispatch(q) \/ Database(q) \/ WriteCompose(q) \/ ComposeUpTarget(q)
           \/ HealthCheckTarget(q) \/ BootstrapNginx(q) \/ CommandLost(q) \/ ComposeDownOld(q)
  <2>1. at'[q] \notin {"nginx_reload", "write_active_marker", "verify_live", "compose_down_old"}
    BY <1>5 DEF Dispatch, CommandLost, Database, WriteCompose, ComposeUpTarget, HealthCheckTarget,
      BootstrapNginx, ComposeDownOld, Up, Exit, Continue, Stop, TInv, TypeOK
  <2>2. QED BY <2>1 DEF Moving
<1>6. CASE SwitchPorts(q)
  <2>1. at'[q] \in {"nginx_reload", "failed"}
    BY <1>6 DEF SwitchPorts, Exit, Continue, Stop, TInv, TypeOK
  <2>2. CASE at'[q] = "nginx_reload"
    BY <1>6, <2>2, SwitchShows DEF Moving
  <2>3. QED BY <2>1, <2>2 DEF Moving
<1>7. CASE NginxReload(q)
  <2>1. at'[q] \in {"write_active_marker", "failed"} /\ at[q] = "nginx_reload"
    BY <1>7 DEF NginxReload, Exit, Continue, Stop, TInv, TypeOK
  <2>2. UNCHANGED <<recs, marker, conf>> /\ loaded' = conf
    BY <1>7 DEF NginxReload, Reload
  <2>3. QED BY <1>1, <2>1, <2>2 DEF Moving
<1>8. CASE WriteActiveMarker(q)
  <2>1. at'[q] \in {"verify_live", "failed"} /\ at[q] = "write_active_marker"
    BY <1>8 DEF WriteActiveMarker, Exit, Continue, Stop, TInv, TypeOK
  <2>2. UNCHANGED <<recs, conf, loaded>> /\ marker'[p] = Toward(marker[p])
    BY <1>1, <1>8, PortsAre DEF WriteActiveMarker, TInv, TypeOK
  <2>3. QED BY <1>1, <2>1, <2>2 DEF Moving
<1>9. CASE VerifyLive(q)
  <2>1. at'[q] \in {"compose_down_old", "failed"} /\ at[q] = "verify_live"
    BY <1>9 DEF VerifyLive, Exit, Continue, Stop, TInv, TypeOK
  <2>2. UNCHANGED <<recs, marker, conf, loaded>>
    BY <1>9 DEF VerifyLive
  <2>3. QED BY <1>1, <2>1, <2>2 DEF Moving
<1>10. QED BY <1>2, <1>3, <1>4, <1>5, <1>6, <1>7, <1>8, <1>9 DEF Next, Command

(* Every line of the server blocks of a project, whichever blocks it has,   *)
(* is at the marker's colour when a run of it ends well.                    *)
THEOREM FinishedMoves ==
  ASSUME Apart
  PROVE  Spec => FinishedRunMovesAll
<1>1. Init => TInv /\ Moves
  BY TInvInit, MovesInit
<1>2. TInv /\ Moves /\ [Next]_vars => (TInv /\ Moves)'
  BY TInvNext, MovesNext
<1>3. TInv /\ Moves /\ [Next]_vars =>
        [\A q \in Requests : at[q] # "ok" /\ at'[q] = "ok" =>
           \A l \in DOMAIN loaded[q.project].ports :
             loaded[q.project].ports[l] = PortOf(q, l[2], marker[q.project])]_vars
  <2> SUFFICES ASSUME TInv, Moves, Next, NEW q \in Requests, at[q] # "ok", at'[q] = "ok"
               PROVE  \A l \in DOMAIN loaded[q.project].ports :
                        loaded[q.project].ports[l] = PortOf(q, l[2], marker[q.project])
    OBVIOUS
  <2>1. at[q] = "compose_down_old"
    <3>1. ASSUME NEW r \in Requests, Dispatch(r) \/ Command(r) \/ CommandLost(r) \/ Register(r)
          PROVE  at[q] = "compose_down_old"
      <4>1. CASE Register(r)
        BY <4>1 DEF Register
      <4>2. CASE Dispatch(r) \/ Command(r) \/ CommandLost(r)
        BY <4>2, RunMoves DEF ComposeDownOld
      <4>3. QED BY <3>1, <4>1, <4>2
    <3>2. ~ReloadElsewhere
      BY DEF ReloadElsewhere
    <3>3. QED BY <3>1, <3>2 DEF Next
  <2>2. QED BY <2>1, PortsAre DEF Moves, Moving, Shows
<1>4. QED BY <1>1, <1>2, <1>3, PTL DEF Spec, FinishedRunMovesAll
==============================================================================
