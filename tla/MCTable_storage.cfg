SPECIFICATION Spec
CONSTANTS
    PkKeys = {a, b, c, d, e}
    Values = {1, 2}
    NoVal = NoVal
    NoKey = NoKey
    Null = Null
    MaxAuto = 2
    FastThreshold = 4
    TickEvery = 2
    QueryTimeout = FALSE
    Workload = {"insert", "replace", "delete", "update", "schema", "truncate", "restore"}
    MaxOrder = 6
SYMMETRY KeySymmetry
INVARIANTS TypeOK PointReadsExact OrderExact FastSound GarbageBounded
PROPERTIES InsertionOrderKept
CHECK_DEADLOCK FALSE
