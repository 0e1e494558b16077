\* A plain context, exported while rows are still in its write-ahead log.
SPECIFICATION Spec
CONSTANTS
    Contexts = {c1}
    Rows = {r1}
    None = None
    MaxDepth = 3
    MaxCrashes = 0
PROPERTIES ExportHoldsRows
