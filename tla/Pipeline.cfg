SPECIFICATION RetrySpec
CONSTANTS
  shop = shop
  api = api
  acme = acme
  demo = demo
  vps1 = vps1
  public_html = public_html
  NoValue = NoValue
  NoEnvironment = NoEnvironment
  NoDir = NoDir
  Platform = Platform
  Sites = {shop, api, acme, demo}
  Histories = {{api}, {shop}, {acme, demo}}
  Standing <- MCStanding
  Way <- MCWay
  Configs <- MCConfigs
  Goal <- MCGoal
  Secrets = {"DEPLOY_SSH_KEY", "FTP_PASSWORD", "DEPLOY_HOST", "DEPLOY_WEBROOT", "CPANEL_API_TOKEN"}
  Images <- MCImages
  Chosen <- MCChosen
  Repo <- MCRepo
INVARIANTS
  TypeOK
  GateCovers
  NeverGuesses
PROPERTIES
  FixAndRerun
