SPECIFICATION Spec
CONSTANTS
  backend = backend
  web = web
  good = good
  half = half
  bad = bad
  Services <- MCServices
  Images = {good, bad}
  NoImage = NoImage
  Answers <- MCAnswers
  NoRequest = NoRequest
  Runners = {r1, r2}
  Plans = {"deploy"}
  Grouped = TRUE
  Ssl = TRUE
  SharedNginx = FALSE
  MaxFaults = 2
INVARIANTS
  TypeOK
  ServedImageReady
PROPERTIES
  SwitchOnlyToReady
  LiveColourUntouched
  KeepsPromise
