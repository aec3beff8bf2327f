\* The same with faults in a session that is alive.
SPECIFICATION Spec
CONSTANTS
    Browsers = {b1, b2}
    Requests = {r1, r2}
    MaxTokens = 3
    MaxFaults = 1
    Calmness = {FALSE}
    Hurried = {b1, b2}
INVARIANTS UnauthorizedMeansDead
\* Ids, tokens and calls run out.
CHECK_DEADLOCK FALSE
