CONSTANTS
    Size = 2
    Grace = 1
    MaxGap = 2
    MaxTime = 8
    MaxNow = 8
    Messages <- ThreeMessages
    Partitions = {p1}
    Stamps <- OnlyArrival
    Disorder = 0
    TimeSource = "arrival"
    HistoryMax = 2
    InitialCommit = 0
    MaxRestarts = 2
    None = None
SPECIFICATION Spec
INVARIANTS
    CountedInOneWindow
