CONSTANTS
    Workers = {w1, w2}
    Emails = {a, b}
    Registering = {a, b}
    Phones = {p}
    NoPhone = NoPhone
    NoWorker = NoWorker
    Cooldown = 2
    Timeout = 2
    TTL = 2
    MaxClock = 1
    MaxTokens = 2
SPECIFICATION Spec
PROPERTIES PhonesStayUnique
CHECK_DEADLOCK FALSE
