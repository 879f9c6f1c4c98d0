CONSTANTS
    StoredWindows <- TwoWindows
    p1 = p1
    p2 = p2
    Writers = {p1, p2}
    HistoryMax = 1
    NoSlice = NoSlice
    Contents <- Revised
    WikiOf <- Wiki
    UserOf <- User
    Bots <- MadeByBots
    TopEditors = 2
    MaxPoints = 2
    MaxWrites = 3
    MaxDrops = 1
SPECIFICATION FairSpec
INVARIANTS
    NeverMoreThanWritten
    MergeIsExact
PROPERTIES
    NewestIsShown
