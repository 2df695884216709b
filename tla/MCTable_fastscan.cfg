SPECIFICATION Spec
CONSTANTS
    PkKeys = {}
    Values = {1, 2}
    NoVal = NoVal
    NoKey = NoKey
    Null = Null
    MaxAuto = 8
    FastThreshold = 7
    TickEvery = 2
    QueryTimeout = FALSE
    Workload = {"insert", "delete"}
    MaxOrder = 7
INVARIANTS ScanExact
CHECK_DEADLOCK FALSE
