CONSTANTS
    Ranges = {2, 4, 6}
    Buckets = {2, 4}
    Day = 4
    MaxPoints = 2
    RawRetention = 4
    MinuteRetention = 6
    MaxLimit = 1
    UserOf <- Authors
    Users = {"ann", "bob"}
    Poison = {2}
    Minute = 2
    RawTTL = 4
    MinuteTTL = 6
    StaleAfter = 1
    MaxClock = 7
    LastEvent = 4
    MaxCrashes = 1
SPECIFICATION FairSpec
INVARIANTS
    TypeOK
    AnswersAreComplete
    RollupsAgree
PROPERTIES
    EveryMessageIsKept
CHECK_DEADLOCK FALSE
