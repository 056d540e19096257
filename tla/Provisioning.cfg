SPECIFICATION RetrySpec
CONSTANTS
  DeployKey = deploy_key
  OtherKeys = {admin_key}
  Flags <- MCFlags
  MaxTroubles = 2
  Names = {"index.html", "about.html"}
  Builds <- MCBuilds
  Accounts <- MCAccounts
  MaxLost = 1
INVARIANTS
  TypeOK
  DoneIsPrepared
  KeyOnce
  DoneIsServed
PROPERTIES
  AccessKept
  RerunPrepares
  LastBuildPublished
