CONSTANTS
    Size = 2
    Grace = 1
    MaxGap = 2
    MaxTime = 8
    MaxNow = 0
    Messages <- ThreeMessages
    Partitions = {p1}
    Stamps <- EventStamps
    Disorder = 0
    TimeSource = "event"
    HistoryMax = 2
    InitialCommit = 0
    MaxRestarts = 2
    None = None
SPECIFICATION Spec
INVARIANTS
    CommittedWasWritten
