\* Two jobs, one of which may run out of time at any point, two requests that
\* poll or delete, a pool with half the threads they want, and a restart.
SPECIFICATION FairSpec
CONSTANTS
  Jobs = {j1, j2}
  Requests = {r1, r2}
  Loop = Loop
  NoJob = NoJob
  PoolSize = 2
  MaxCrashes = 1
  Expirable = {j1}
  ExpireLive = TRUE
INVARIANTS TypeOK ProcessingHasLane CompletedHasVideo RemovedLeavesNoVideo
PROPERTIES KeepsContract AcceptedEnds RequestAnswered
\* The ids run out.
CHECK_DEADLOCK FALSE
