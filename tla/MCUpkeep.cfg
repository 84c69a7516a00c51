CONSTANTS
    photo = photo
    PHOTO = PHOTO
    mail = mail
    MAIL = MAIL
    other = other
    UserRows = {userRow}
    AdRows = {adRow}
    Names = {photo, PHOTO}
    KeyOf <- SpellingKey
    NoImage = noImage
    Outside = outside
    Uploads = {upload1}
    MinimumAge = 2
    Ages = {1, 2}
    MaxTime = 3
    NoRecord = noRecord
    MaxVisits = 1
    AccountIds = {account1, account2}
    NoAccount = noAccount
    Addresses = {mail, MAIL, other}
    Normal <- LowerCase
    NoAddress = noAddress
    MaxRequests = 3
    Writers = {writer1, writer2}
    Entries = {1, 2, 3}
    CreatedAt <- TwoOfADate
    Own = {2, 3}
    PageSize = 1
    MaxChanges = 1
SPECIFICATION Spec
SYMMETRY Symmetry
INVARIANTS PartsTypeOK OrphansAreFound PagesMissNothing FlushLeavesOnlyWhatIsNeeded
PROPERTIES UsedImagesSurvive FlushSparesVisitors AddressesStayUnique SavesTouchOnlyTheirFields
CHECK_DEADLOCK FALSE
