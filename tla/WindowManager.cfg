CONSTANTS
    Size = 2
    Grace = 1
    MaxGap = 2
    MaxTime = 10
    Messages = {m1, m2}
    None = None
    MaxAdds = 2
SYMMETRY Symmetry
SPECIFICATION Spec
INVARIANTS
    TypeOK
    Conservation
    EmittedAtMostOnce
    OpenAheadOfEmitted
    GapFree
CHECK_DEADLOCK FALSE
