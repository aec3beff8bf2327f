\* Two creates and a poll, one expired job.
SPECIFICATION Spec
CONSTANTS
  Jobs = {j1, j2}
  Requests = {r1}
  Timer = Timer
  Loop = Loop
  NoJob = NoJob
  Ratios = {"1x1"}
  ImageGenEnabled = TRUE
  MaxAttempt = 1
  MaxCrashes = 0
  Expirable = {j1}
PROPERTIES CleanupNeverFailsCreate
