SPECIFICATION Spec
CONSTANTS
    DN = {d1, d2}
    MaxRows = 3
    MaxPairs = 3
    MaxSerial = 3
    MaxFiles = 1
    MaxErrors = 1
    Sealed = {3}
INVARIANTS
    TypeOK
    KeysBelong
    LinksVerify
    VerifiedMeansSound
PROPERTIES
    BundleKeepsLinks
    AuditSettles
CHECK_DEADLOCK FALSE
