\* The same page with users who press on while a retry is still on its way.
SPECIFICATION Spec
CONSTANTS
    Jobs = {j1, j2}
    NoJob = NoJob
    MaxUploads = 2
    MaxReloads = 1
    MaxCalls = 1
    MaxRecent = 1
    Patience = {FALSE}
INVARIANTS WaitingIsResumable
\* Ids, tokens and calls run out.
CHECK_DEADLOCK FALSE
