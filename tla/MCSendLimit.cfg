CONSTANTS
    Second = 5
    Window = 15
    Limit = 2
    ThreadWindow = 10
    MaxClock = 36
SPECIFICATION Spec
INVARIANTS TypeOK AMinuteHoldsTwoWindowsAndOne ConversationsKeepTheirDistance
CHECK_DEADLOCK FALSE
