CONSTANTS
    Size = 2
    Grace = 1
    MaxGap = 1
    MaxTime = 6
    MaxNow = 6
    Messages <- TwoMessages
    Partitions = {p1, p2}
    Stamps <- OnlyArrival
    Disorder = 0
    TimeSource = "arrival"
    HistoryMax = 1
    InitialCommit = 0
    MaxRestarts = 2
    None = None
SPECIFICATION Spec
INVARIANTS
    TypeOK
    WithheldUntilWritten
    NothingSkipped
    NeverLate
PROPERTIES
    SlicesAreFinal
    ImplementsCommitAfterWrite
