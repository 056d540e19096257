SPECIFICATION RetrySpec
CONSTANTS
  backend = backend
  web = web
  good = good
  half = half
  bad = bad
  Services <- MCServices
  Images = {good, bad}
  NoImage = NoImage
  Answers <- MCAnswers
  NoRequest = NoRequest
  Runners = {r1}
  Plans = {"deploy", "rollback"}
  Grouped = FALSE
  Ssl = TRUE
  SharedNginx = TRUE
  MaxFaults = 3
PROPERTIES
  MarkerFollowsTraffic
  CompletedRunAgrees
  RollbackLeavesLiveUp
  DriftHeals
