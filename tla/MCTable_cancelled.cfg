SPECIFICATION Spec
CONSTANTS
    PkKeys = {a, b, c}
    Values = {1, 2}
    NoVal = NoVal
    NoKey = NoKey
    Null = Null
    MaxAuto = 1
    FastThreshold = 2
    TickEvery = 2
    QueryTimeout = TRUE
    Workload = {"insert", "replace", "delete", "update", "schema", "truncate", "restore", "rekey"}
    MaxOrder = 3
SYMMETRY KeySymmetry
INVARIANTS PointReadsExact NoRowLost
CHECK_DEADLOCK FALSE
