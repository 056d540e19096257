SPECIFICATION Spec
CONSTANTS
  backend = backend
  web = web
  good = good
  half = half
  bad = bad
  Services <- MCServices
  Images = {good}
  NoImage = NoImage
  Answers <- MCAnswers
  NoRequest = NoRequest
  Runners = {r1}
  Plans = {"deploy", "rollback"}
  Grouped = TRUE
  Ssl = FALSE
  SharedNginx = FALSE
  MaxFaults = 0
PROPERTY RollbackSwitchesBack
