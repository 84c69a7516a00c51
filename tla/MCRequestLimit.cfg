CONSTANTS
    Workers = {w1, w2}
    Second = 2
    Window = 4
    Limit = 2
    MaxClock = 9
    MaxRequests = 4
SPECIFICATION Spec
INVARIANTS TypeOK CountersOutliveTheirWindow PromptRequestsGetTheLimit
SYMMETRY Symmetry
CHECK_DEADLOCK FALSE
