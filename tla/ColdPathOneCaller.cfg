CONSTANTS
    Requests = {r1}
    Checks = {}
    Clients = {c1, c2}
    MaxOutages = 4
    None = None
SPECIFICATION FairColdSpec
PROPERTIES
    SelfHealing
