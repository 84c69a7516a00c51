CONSTANTS
    Workers = {w1, w2}
    x = x
    user = user
    admin = admin
    Ads = {x}
    Changing = {}
    Users = {user, admin}
    Staff = {admin}
    Heirs = {}
    MaxForms = 1
    OwnerOf <- Owners
    MaxReviews = 2
SPECIFICATION Spec
SYMMETRY Symmetry
INVARIANTS QuestionsKeepTheirAnswers
CHECK_DEADLOCK FALSE
