CONSTANTS
    Requests = {r1, r2}
    Checks = {}
    Clients = {c1, c2, c3}
    MaxOutages = 1
    None = None
SPECIFICATION FairColdSpec
\* Each of these is violated; TLC stops at the first, so name one at a time.
INVARIANTS
    RefusedOnlyWhenDown
PROPERTIES
    SelfHealing
