SPECIFICATION Spec
CONSTANTS
  vps2 = vps2
  vps1 = vps1
  hostinger = hostinger
  backend = backend
  web = web
  admin = admin
  shop = shop
  blog = blog
  site = site
  Shop = Shop
  shop_lc = shop_lc
  blog_lc = blog_lc
  NoDomain = NoDomain
  NoBlock = NoBlock
  NoRequest = NoRequest
  Targets <- MCTargets
  Kind <- MCKind
  Block <- MCBlock
  Pools <- MCPools
  Lower <- MCLower
  Projects = {shop, blog, site}
  Environments = {"production", "staging"}
  ServiceNames <- MCServiceNames
  Domains <- MCDomains
  Requests <- PoolRequests
  Jobs = {j1}
  SharedFile = TRUE
  Edits <- ShiftedBlock
  MaxEdits = 1
  MaxFaults = 1
PROPERTIES
  KeepsLedger
