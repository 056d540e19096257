----------------------------- MODULE MCSharedVps -----------------------------
(* Instances of SharedVps for TLC.                                          *)
EXTENDS SharedVps

MCLower(d) == d
MCPools == [p \in {"backend", "web"} |->
  IF p = "backend" THEN [start |-> 5, end |-> 7] ELSE [start |-> 8, end |-> 9]]

ByDomain(name, domain) ==
  [name |-> name, exposure |-> "domain", domain |-> domain, port |-> NoPort]

Wants(project, environment, services, database) ==
  [project |-> project, environment |-> environment, services |-> services,
   database |-> database]

MCBlock == [start |-> 5, end |-> 13, size |-> 4]

Shop == Wants("shop", "production", <<ByDomain("backend", "api.shop"), ByDomain("admin", "admin.shop")>>, NoPort)
ShopStaging == Wants("shop", "staging", <<ByDomain("backend", "api.staging.shop")>>, NoPort)
Blog == Wants("blog", "production", <<ByDomain("web", "blog")>>, 15)

\* What the registry has of a request already.
OnRecord(q, base) == Record(q, base, PortsForBlock(base, MCBlock, q.services))
MCRecorded == {OnRecord(Shop, 5)}
Nothing == {}

TwoProjects == {Shop, Blog}
TwoEnvironments == {Shop, ShopStaging}
==============================================================================
