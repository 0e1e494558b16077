SPECIFICATION FairSpec
CONSTANTS
    N = 2
    None = none
    MaxRuns = 3
    MaxPolls = 2
INVARIANTS
    TypeOK
    NonceNeverFatal
    OneAccount
    IssuedKeyOnDisk
PROPERTIES
    EveryRunEnds
CHECK_DEADLOCK FALSE
