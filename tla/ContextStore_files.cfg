SPECIFICATION Spec
CONSTANTS
    r1 = r1
    r2 = r2
    p1 = p1
    p2 = p2
    none = none
    Row = {r1, r2}
    Password = {p1, p2}
    NoPassword = none
    MaxCrashes = 2
SYMMETRY Symmetry
INVARIANTS
    TypeOK
    SavedRowsReadable
    NoPlaintextBehind
CHECK_DEADLOCK FALSE
