SPECIFICATION FairSpec
CONSTANTS
    Workers = {w1, w2}
    Passwords = {p1, p2}
    FirstPassword = p1
    Unusable = unusable
    NoWorker = noWorker
    MaxClock = 1
    MaxHeld = 1
\* A deleted account has no further steps.
CHECK_DEADLOCK FALSE
PROPERTIES
    RequestsFinish
