CONSTANTS
    MaxEvents = 4
    Unusable <- SecondUnusable
    MaxFaults = 2
SPECIFICATION FairSpec
INVARIANTS
    TypeOK
    NotTwice
    OrderWithoutFaults
    SentIsAccounted
PROPERTIES
    StopDrains
CHECK_DEADLOCK FALSE
