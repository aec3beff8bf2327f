\* Two jobs whose TTL passes, one request thread, no retry: every way to delete a
\* job against every other, the models off so that a corrupt photo gets that far.
SPECIFICATION FairSpec
CONSTANTS
  Jobs = {j1, j2}
  Requests = {r1}
  Timer = Timer
  Loop = Loop
  NoJob = NoJob
  Ratios = {"1x1"}
  ImageGenEnabled = FALSE
  MaxAttempt = 1
  MaxCrashes = 1
  Expirable = {j1, j2}
INVARIANTS RowOutlivesPhotos
PROPERTIES KeepsContract
