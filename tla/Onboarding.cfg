SPECIFICATION RetrySpec
CONSTANTS
  Secrets = {"DEPLOY_HOST", "DEPLOY_USERNAME", "DEPLOY_SSH_KEY"}
  Clients <- MCClients
  Modes = {"direct", "via_pr", "check_only"}
  NoBranch = NoBranch
  NoRun = NoRun
  MaxFaults = 1
INVARIANTS
  TypeOK
  UndisturbedCompletes
  DoneMeansDeployed
PROPERTIES
  EditsSurvive
  RerunPublishes
