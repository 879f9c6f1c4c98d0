CONSTANTS
    Requests = {r1, r2, h}
    Checks = {h}
    Clients = {c1, c2, c3, c4}
    MaxOutages = 1
    None = None
SPECIFICATION ColdSpec
SYMMETRY Symmetry
INVARIANTS
    ColdTypeOK
    NoOutageNoRefusal
