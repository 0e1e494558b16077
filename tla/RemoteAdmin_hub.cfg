SPECIFICATION FairSpec
CONSTANTS
    Certs = {c1}
    Accounts = {a1}
    Cas = {ca1}
    Role = "owner"
    NoTarget = NoTarget
    Valid = Valid
    MaxCalls = 2
    MaxChanges = 1
    MaxDepth = 4
INVARIANTS TypeOK SettledListIsCurrent
PROPERTIES NoStepBack BusyEnds
CHECK_DEADLOCK FALSE
