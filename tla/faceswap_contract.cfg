\* Two jobs, one request thread, one restart, no TTL.
SPECIFICATION FairSpec
CONSTANTS
  Jobs = {j1, j2}
  Requests = {r1}
  Timer = Timer
  Loop = Loop
  NoJob = NoJob
  Ratios = {"1x1", "9x16"}
  ImageGenEnabled = TRUE
  MaxAttempt = 2
  MaxCrashes = 1
  Expirable = {}
PROPERTIES KeepsContract
