\* One job, two request threads that retry it, delete it and look at it at once.
SPECIFICATION FairSpec
CONSTANTS
  Jobs = {j1}
  Requests = {r1, r2}
  Timer = Timer
  Loop = Loop
  NoJob = NoJob
  Ratios = {"1x1"}
  ImageGenEnabled = TRUE
  MaxAttempt = 3
  MaxCrashes = 1
  Expirable = {j1}
INVARIANTS TypeOK LiveJobIsScheduled PendingMatchesQueue FacelessNeverRuns CompletedIsWhole FirstAttemptSpared
PROPERTIES PolledJobSettles ExpiredJobGoes
