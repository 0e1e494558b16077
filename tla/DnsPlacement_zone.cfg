SPECIFICATION FairSpec
CONSTANTS
    c1 = c1
    c2 = c2
    p1 = p1
    p2 = p2
    Chall = {c1, c2}
    NameOf <- MCNameOf
    Provider = {p1, p2}
    Config <- MCConfig
    None = none
    MaxAttempts = 2
    MaxRows = 3
    MaxCrashes = 1
INVARIANTS
    TypeOK
    NoRecordForgotten
PROPERTIES
    ZoneCleanAtLast
CHECK_DEADLOCK FALSE
