----------------------------- MODULE Allocation -----------------------------
(****************************************************************************)
(* Resource allocation over one target of the registry: engine/registry.mjs *)
(* engine/allocator.mjs and the part of engine/register.mjs that grants     *)
(* ports and domains to a project+environment. Pure operators over          *)
(*   recs   the set of records (`projects`) of the target, and              *)
(*   block  its port_block, or NoBlock when it uses the named pools.        *)
(*                                                                          *)
(* A registration either throws, and nothing is persisted, or adds a single *)
(* record: Grants(...) is the set of the records it may add, empty when it  *)
(* throws. A service of a request is a record                               *)
(*   [name, exposure, domain, port]: exposure is "domain", "port" or        *)
(* "none"; port is the fixed port asked for, or NoPort.                     *)
(* Domains are compared after Lower (String.toLowerCase).                   *)
(****************************************************************************)
EXTENDS Naturals, Sequences

CONSTANTS
  NoBlock,    \* the target has no port_block: legacy port pools
  Pools,      \* Pools[name] = [start, end] for the names that have a pool
  Lower(_)    \* the lower-case form of a domain

NoPort == 0   \* ports are positive (schemas/registry.schema.json:33)

Positions(seq) == 1..Len(seq)
Where(services, exposure) == {i \in Positions(services) : services[i].exposure = exposure}

UsedPorts(recs) == UNION {{p.port : p \in r.ports} : r \in recs}
UsedDomains(recs) == UNION {{d.domain : d \in r.domains} : r \in recs}
UsedBlockBases(recs) == {r.base : r \in recs}

Lowest(S) == {n \in S : \A m \in S : n <= m}
------------------------------------------------------------------------------
(* The block model.                                                         *)

Half(block) == block.size \div 2

\* Variant: the bases advance by half a block.
FreeHalfBases(recs, block) ==
  {b \in block.start..block.end :
     /\ \E k \in 0..block.end : b = block.start + k * Half(block)
     /\ b + block.size - 1 <= block.end
     /\ b \notin UsedBlockBases(recs)}

\* The bases start, start + size, ... whose block ends by `end` and that no record has.
FreeBases(recs, block) ==
  {b \in block.start..block.end :
     /\ \E k \in 0..block.end : b = block.start + k * block.size
     /\ b + block.size - 1 <= block.end
     /\ b \notin UsedBlockBases(recs)}

\* Variant: green next to blue, as in the pool model.
PortsNextToEachOther(base, block, services) ==
  {[service |-> services[i].name, port |-> base + (i - 1), green |-> base + i] :
     i \in Positions(services)}

\* Service i gets base + i (blue) and base + size/2 + i (green), i counted from 0.
PortsForBlock(base, block, services) ==
  {[service |-> services[i].name,
    port |-> base + (i - 1),
    green |-> base + Half(block) + (i - 1)] : i \in Positions(services)}
------------------------------------------------------------------------------
(* The legacy pool model.                                                   *)

FixedPort(services, i) ==
  services[i].exposure = "port" /\ services[i].port # NoPort

\* Variant: the fixed ports are compared with each other only.
FixedPortsDistinct(recs, services) ==
  \A i, k \in Positions(services) :
    FixedPort(services, i) /\ FixedPort(services, k) /\ services[i].port = services[k].port
      => i = k

\* checkCollisions, over the fixed ports of a request.
FixedPortsFree(recs, services) ==
  /\ \A i \in Positions(services) :
       FixedPort(services, i) => services[i].port \notin UsedPorts(recs)
  /\ \A i, k \in Positions(services) :
       FixedPort(services, i) /\ FixedPort(services, k) /\ services[i].port = services[k].port
         => i = k

Pool(services, i) == Pools[services[i].name].start .. Pools[services[i].name].end

\* Variant: an exhausted pool grants no port instead of throwing.
PoolPortsOrNone(recs, services) ==
  LET asking == Where(services, "port")
      free(i) == {p \in 1..9 : services[i].name \in DOMAIN Pools /\ p \in Pool(services, i)}
                   \ UsedPorts(recs)
  IN  {[i \in asking |-> IF free(i) = {} THEN NoPort ELSE CHOOSE p \in free(i) : TRUE]}

\* The ports granted one service after the other: a fixed port as it is, else the
\* lowest of the pool that is not recorded yet, here or in an earlier position.
PoolPorts(recs, services) ==
  LET asking == Where(services, "port")
      pooled == {i \in asking : ~FixedPort(services, i)}
      range(i) == IF FixedPort(services, i) THEN {services[i].port} ELSE Pool(services, i)
      free(g, i) == range(i) \ (UsedPorts(recs) \cup {g[k] : k \in {k \in asking : k < i}})
  IN  IF \E i \in pooled : services[i].name \notin DOMAIN Pools
        THEN {}
        ELSE {g \in [asking -> UNION {range(i) : i \in asking}] :
                \A i \in asking :
                  IF FixedPort(services, i) THEN g[i] = services[i].port
                                            ELSE g[i] \in Lowest(free(g, i))}
------------------------------------------------------------------------------
(* Domains: none that is recorded on the target, none twice in a request.   *)

Domain(services, i) == Lower(services[i].domain)

\* Variant: the domain is looked up as it was written.
DomainsFreeVerbatim(recs, services) ==
  \A i \in Where(services, "domain") : services[i].domain \notin UsedDomains(recs)

DomainsFree(recs, services) ==
  \A i \in Where(services, "domain") :
    /\ Domain(services, i) \notin UsedDomains(recs)
    /\ \A k \in Where(services, "domain") :
         Domain(services, i) = Domain(services, k) => i = k

DomainsOf(services) ==
  {[service |-> services[i].name, domain |-> Domain(services, i)] :
     i \in Where(services, "domain")}
------------------------------------------------------------------------------
(* registerProject, by the kind of the target.                              *)

Record(q, base, ports) ==
  [project |-> q.project, environment |-> q.environment, base |-> base,
   ports |-> ports, domains |-> DomainsOf(q.services)]

\* Variant: a range without a free block grants base 0 instead of throwing.
GrantsBlockOrNone(recs, block, q) ==
  {Record(q, b, PortsForBlock(b, block, q.services)) :
     b \in IF FreeBases(recs, block) = {} THEN {0} ELSE Lowest(FreeBases(recs, block))}

GrantsBlock(recs, block, q) ==
  {Record(q, b, PortsForBlock(b, block, q.services)) :
     b \in {b \in Lowest(FreeBases(recs, block)) : Len(q.services) <= Half(block)}}

GrantsPool(recs, q) ==
  {Record(q, NoPort,
     {[service |-> q.services[i].name, port |-> g[i], green |-> NoPort] : i \in DOMAIN g}) :
   g \in {g \in PoolPorts(recs, q.services) : FixedPortsFree(recs, q.services)}}

AlreadyRegistered(recs, q) ==
  \E r \in recs : r.project = q.project /\ r.environment = q.environment

Grants(recs, kind, block, q) ==
  IF AlreadyRegistered(recs, q) \/ ~DomainsFree(recs, q.services) THEN {}
  ELSE IF kind = "external" THEN {Record(q, NoPort, {})}
  ELSE IF block # NoBlock THEN GrantsBlock(recs, block, q)
  ELSE GrantsPool(recs, q)
==============================================================================
