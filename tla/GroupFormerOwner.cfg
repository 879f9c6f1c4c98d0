CONSTANTS
    Size = 2
    Grace = 0
    MaxGap = 2
    MaxTime = 4
    MaxNow = 4
    Messages <- TwoMessages
    Members = {a1, a2}
    Partitions = {p1}
    HistoryMax = 2
    MaxFaults = 1
    None = None
SPECIFICATION Spec
\* Each of these is violated; TLC stops at the first, so name one at a time.
INVARIANTS
    NoDoubleCount
PROPERTIES
    OnlyOwnersCommit
    OnlyOwnersWrite
    SlicesNeverShrink
