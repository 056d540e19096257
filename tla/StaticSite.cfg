SPECIFICATION RetrySpec
CONSTANTS
  demo = demo
  platform = platform
  production = production
  staging = staging
  shop_root = shop_root
  demo_root = demo_root
  index = index
  old = old
  Groups = {demo, platform}
  Workflow <- MCWorkflow
  OnPush = {demo, platform}
  Buttons <- MCButtons
  ConfigRoot <- MCConfigRoot
  SecretRoot = NoSecret
  NoSecret = NoSecret
  Transfer <- MCTransfer
  Declared <- MCDeclared
  Paths = {index, old}
  Index = index
  Commits = 3
  Kind <- MCKind
  Built <- MCBuilt
  NoRequest = NoRequest
  MaxFaults = 1
INVARIANTS
  TypeOK
  RestMeansHead
PROPERTIES
  FinishedRunIsExact
  HeadGetsPublished
