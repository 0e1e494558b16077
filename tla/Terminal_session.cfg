\* Two contexts and one row, three screens deep, and one crash of either process.
SPECIFICATION Spec
CONSTANTS
    Contexts = {c1, c2}
    Rows = {r1}
    None = None
    MaxDepth = 3
    MaxCrashes = 1
SYMMETRY Symmetry
INVARIANTS TypeOK HeaderTellsContext CopiesFollowSessions
PROPERTIES WrittenAsNamed
