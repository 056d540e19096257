----------------------------- MODULE MCRegister -----------------------------
(* Instances of RegisterWorkflow for TLC: a vps with port blocks, a vps     *)
(* with the legacy pools and an external host.                              *)
EXTENDS RegisterWorkflow

CONSTANTS
  vps2, vps1, hostinger,             \* the targets
  backend, web, admin,               \* service names; backend and web name pools
  shop, blog, site,                  \* projects
  Shop, shop_lc, blog_lc,            \* domains: Shop is shop_lc in other letters
  NoDomain

MCLower(d) == IF d = Shop THEN shop_lc ELSE d
MCServiceNames == {backend, web, admin}
MCDomains == {Shop, shop_lc, blog_lc, NoDomain}
MCTargets == {vps2, vps1, hostinger}
MCKind == [t \in MCTargets |-> IF t = hostinger THEN "external" ELSE "vps"]
MCBlock == [t \in MCTargets |->
  IF t = vps2 THEN [start |-> 5, end |-> 13, size |-> 4] ELSE NoBlock]
MCPools == [p \in {backend, web} |->
  IF p = backend THEN [start |-> 1, end |-> 3] ELSE [start |-> 3, end |-> 3]]

ByDomain(name, domain) ==
  [name |-> name, exposure |-> "domain", domain |-> domain, port |-> NoPort]
ByPort(name, port) ==
  [name |-> name, exposure |-> "port", domain |-> NoDomain, port |-> port]

Wants(project, environment, target, services) ==
  [project |-> project, environment |-> environment, target |-> target,
   services |-> services]

\* vps2 has room for two blocks of two services; Shop and shop_lc are one domain.
BlockRequests == {
  Wants(shop, "production", vps2, <<ByDomain(backend, Shop), ByPort(web, NoPort)>>),
  Wants(shop, "staging", vps2, <<ByDomain(backend, shop_lc)>>),
  Wants(blog, "production", vps2, <<ByDomain(backend, blog_lc), ByPort(web, NoPort)>>),
  Wants(site, "production", vps2, <<ByPort(web, NoPort)>>),
  Wants(site, "staging", vps2, <<ByPort(web, NoPort), ByPort(backend, NoPort),
                                 ByPort(admin, NoPort)>>)}

\* The pools of vps1, a fixed port, and an external host.
PoolRequests == {
  Wants(shop, "production", vps1, <<ByPort(backend, NoPort), ByPort(web, NoPort)>>),
  Wants(shop, "staging", vps1, <<ByPort(web, NoPort), ByDomain(backend, Shop)>>),
  Wants(blog, "production", vps1, <<ByPort(backend, 2)>>),
  Wants(blog, "staging", vps1, <<ByPort(backend, NoPort), ByDomain(web, shop_lc)>>),
  Wants(site, "staging", vps1, <<ByPort(admin, NoPort)>>),
  Wants(site, "production", hostinger, <<ByDomain(web, Shop)>>),
  Wants(blog, "production", hostinger, <<ByDomain(web, blog_lc)>>)}

\* A port_block an operator may commit.
ShiftedBlock == {[start |-> 6, end |-> 13, size |-> 4]}
NoEdits == {}
==============================================================================
