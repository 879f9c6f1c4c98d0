CONSTANTS
    StoredWindows <- ThreeWindows
    p1 = p1
    p2 = p2
    Writers = {p1, p2}
    HistoryMax = 2
    NoSlice = NoSlice
    Contents <- Final
    WikiOf <- Wiki
    UserOf <- User
    Bots <- MadeByBots
    TopEditors = 2
    MaxPoints = 3
    MaxWrites = 3
    MaxDrops = 0
SPECIFICATION FairSpec
\* Each of these is violated; TLC stops at the first, so name one at a time.
INVARIANTS
    NoHole
PROPERTIES
    CorrectionsArrive
