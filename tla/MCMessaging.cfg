CONSTANTS
    Workers = {w1, w2}
    Users = {seller, buyer}
    Seller = seller
    Heirs = {}
    NoWorker = NoWorker
    Limit = 2
    PageSize = 1
    MaxMessages = 3
    MaxClock = 1
SPECIFICATION Spec
INVARIANTS TypeOK ThreadsOpenOnce SendersStayWithinQuota ThreadsFollowTheirMessages
           OnlyShownMessagesAreRead NoCircularWait
PROPERTIES FirstWordsAreOnPublishedAds
CHECK_DEADLOCK FALSE
