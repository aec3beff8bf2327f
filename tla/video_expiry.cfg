\* One job that ends before its time, and nobody who has to come back.
SPECIFICATION FairSpec
CONSTANTS
  Jobs = {j1}
  Requests = {r1}
  Loop = Loop
  NoJob = NoJob
  PoolSize = 2
  MaxCrashes = 0
  Expirable = {j1}
  ExpireLive = FALSE
PROPERTIES ExpiredFilesGo
CHECK_DEADLOCK FALSE
