CONSTANTS
    StoredWindows <- MCWindows
    Writers = {p1, p2}
    HistoryMax = 2
    NoSlice = NoSlice
    TTL = 2
    MaxClock = 3
SYMMETRY Symmetry
SPECIFICATION SinkSpec
INVARIANTS
    SinkTypeOK
    HistoryIsNewest
    SlicesAreLastWritten
CHECK_DEADLOCK FALSE
