CONSTANTS
    Size = 2
    Grace = 1
    MaxGap = 6
    MaxTime = 8
    MaxNow = 8
    Messages <- ThreeMessages
    Partitions = {p1}
    Stamps <- OnlyArrival
    Disorder = 0
    TimeSource = "arrival"
    HistoryMax = 2
    InitialCommit = 0
    MaxRestarts = 1
    None = None
SPECIFICATION FairSpec
INVARIANTS
    CommittedWasWritten
PROPERTIES
    EveryMessageIsSettled
