CONSTANTS
    Size = 2
    Grace = 0
    MaxGap = 2
    MaxTime = 4
    MaxNow = 4
    Messages <- TwoMessages
    Members = {a1, a2}
    Partitions = {p1}
    HistoryMax = 2
    MaxFaults = 2
    None = None
SYMMETRY Symmetry
SPECIFICATION Spec
INVARIANTS
    TypeOK
    CommittedIsSettled
    OwnerAccountsForAll
