SPECIFICATION RetrySpec
CONSTANTS
  vps2 = vps2
  vps1 = vps1
  hostinger = hostinger
  backend = backend
  web = web
  admin = admin
  shop = shop
  blog = blog
  site = site
  Shop = Shop
  shop_lc = shop_lc
  blog_lc = blog_lc
  NoDomain = NoDomain
  NoBlock = NoBlock
  NoRequest = NoRequest
  Targets <- MCTargets
  Kind <- MCKind
  Block <- MCBlock
  Pools <- MCPools
  Lower <- MCLower
  Projects = {shop, blog, site}
  Environments = {"production", "staging"}
  ServiceNames <- MCServiceNames
  Domains <- MCDomains
  Requests <- BlockRequests
  Jobs = {j1, j2}
  SharedFile = FALSE
  Edits <- NoEdits
  MaxEdits = 0
  MaxFaults = 1
INVARIANTS
  TypeOK
  PortsDisjoint
  PortsDistinct
PROPERTIES
  NoGrantLost
  KeepsLedger
  RetriesRegisterAll
