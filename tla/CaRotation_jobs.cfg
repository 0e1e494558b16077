SPECIFICATION FairSpec
CONSTANTS
    c1 = c1
    c2 = c2
    root = root
    ca1 = ca1
    other = other
    CA = {root, ca1, other}
    Issuer <- MCIssuer
    Configured = ca1
    Chains <- MCChains
    Cert = {c1, c2}
    Job = {j1}
    MaxSerial = 4
    MaxCrashes = 1
INVARIANTS
    TypeOK
    OneTrustAnchor
    SignedByActive
    CountersFollowItems
PROPERTIES
    EndedJobsAreQuiet
    JobsEnd
