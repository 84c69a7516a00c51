CONSTANTS
    Workers = {w1, w2}
    Emails = {a, b}
    Registering = {a}
    Phones = {p}
    NoPhone = NoPhone
    NoWorker = NoWorker
    Cooldown = 2
    Timeout = 2
    TTL = 4
    MaxClock = 4
    MaxTokens = 2
SPECIFICATION Spec
INVARIANTS TypeOK OneSenderPerAddress LettersAreCurrent
PROPERTIES AccountsComeFromCurrentRequests RequestsAreKept
SYMMETRY Symmetry
CHECK_DEADLOCK FALSE
