CONSTANTS
    Workers = {w1, w2}
    Users = {seller, buyer, heir}
    Seller = seller
    Heirs = {heir}
    NoWorker = NoWorker
    Limit = 2
    PageSize = 2
    MaxMessages = 2
    MaxClock = 0
SPECIFICATION Spec
INVARIANTS MessagesAreByParticipants
CHECK_DEADLOCK FALSE
