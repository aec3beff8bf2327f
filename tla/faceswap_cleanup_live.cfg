\* A retry of a job whose TTL passes.
SPECIFICATION Spec
CONSTANTS
  Jobs = {j1}
  Requests = {r1, r2}
  Timer = Timer
  Loop = Loop
  NoJob = NoJob
  Ratios = {"1x1"}
  ImageGenEnabled = TRUE
  MaxAttempt = 2
  MaxCrashes = 1
  Expirable = {j1}
INVARIANTS CleanupSparesLiveJobs
