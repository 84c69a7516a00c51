CONSTANTS
    Workers = {w1, w2}
    Users = {owner, staff}
    Staff = {owner, staff}
    Contents = {c1, c2}
    NoUser = NoUser
    NoWorker = NoWorker
    MaxClock = 1
SPECIFICATION Spec
SYMMETRY Symmetry
INVARIANTS TypeOK
PROPERTIES ImplementsAdReview ChangesAreAuthorized EditsTouchOnlyTheirFields AuthorsEditsAreReviewed
CHECK_DEADLOCK FALSE
