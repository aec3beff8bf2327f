\* Users who let a resume, a retry or a deletion come back before they go on: two
\* jobs, two photos, one reload, every answer as late as it likes, or lost.
SPECIFICATION FairSpec
CONSTANTS
    Jobs = {j1, j2}
    NoJob = NoJob
    MaxUploads = 2
    MaxReloads = 1
    MaxCalls = 1
    MaxRecent = 1
    Patience = {TRUE}
INVARIANTS TypeOK ConsentCoversPhoto PairIsOwn WaitingIsResumable ScreenIsOneJob RecentsCompleted
PROPERTIES NeverBackwards WaitingEnds
\* Ids, tokens and calls run out.
CHECK_DEADLOCK FALSE
