\* Two browsers of one user, one of which may be slower than the 500 ms a refresh
\* is shared for; two requests, three tokens, one fault of the backend.
SPECIFICATION Spec
CONSTANTS
    Browsers = {b1, b2}
    Requests = {r1, r2}
    MaxTokens = 3
    MaxFaults = 1
    Calmness = {TRUE, FALSE}
    Hurried = {b1}
SYMMETRY Symmetry
INVARIANTS TypeOK RotatedOnce SessionKept
\* Ids, tokens and calls run out.
CHECK_DEADLOCK FALSE
