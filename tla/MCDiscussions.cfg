CONSTANTS
    Workers = {w1, w2}
    x = x
    user = user
    admin = admin
    Ads = {x, y}
    Changing = {x}
    Users = {user, admin}
    Staff = {admin}
    Heirs = {admin}
    MaxForms = 1
    OwnerOf <- Owners
    MaxReviews = 2
SPECIFICATION Spec
SYMMETRY Symmetry
INVARIANTS TypeOK RulesSufficeSerially
PROPERTIES EditsKeepWithinBounds
CHECK_DEADLOCK FALSE
