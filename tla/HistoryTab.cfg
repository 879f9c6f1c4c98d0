CONSTANTS
    Ranges = {3600, 21600, 86400, 604800, 2592000, 7776000}
    Buckets = {60, 300, 3600, 86400}
    Day = 86400
    MaxPoints = 1440
    RawRetention = 604800
    MinuteRetention = 7776000
    MaxLimit = 50
    HistoryBucket <- RangeBuckets
    FirstRange = 86400
    EditorMaxRange = 604800
    ListLimit = 10
    MaxLoads = 3
SPECIFICATION FairTabSpec
INVARIANTS
    TabTypeOK
    ShownIsChosen
PROPERTIES
    ChosenIsShown
