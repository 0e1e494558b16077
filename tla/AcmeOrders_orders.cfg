SPECIFICATION Spec
CONSTANTS
    a1 = a1
    admin = admin
    o1 = o1
    o2 = o2
    c1 = c1
    c2 = c2
    i1 = i1
    i2 = i2
    Account = {a1}
    Admin = admin
    Order = {o1, o2}
    Ident = {i1}
    Wildcard = {}
    Type = {"dns-01", "http-01"}
    Cert = {c1, c2}
    MaxAttempts = 1
    BanMode = "cascade"
    MaxCrashes = 1
SYMMETRY Symmetry
INVARIANTS
    OneCertPerOrder
    ValidOrderHasCert
    BanIsFinal
PROPERTIES
    ImplementsLifecycle
