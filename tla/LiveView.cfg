CONSTANTS
    StoredWindows <- ThreeWindows
    p1 = p1
    p2 = p2
    Writers = {p1, p2}
    HistoryMax = 2
    NoSlice = NoSlice
    Contents <- Shrinking
    WikiOf <- Wiki
    UserOf <- User
    Bots <- MadeByBots
    TopEditors = 2
    MaxPoints = 2
    MaxWrites = 2
    MaxDrops = 1
SPECIFICATION FairSpec
INVARIANTS
    TypeOK
    ForwardWhileConnected
    NeverMoreThanWritten
    MergeIsExact
PROPERTIES
    NewestIsShown
