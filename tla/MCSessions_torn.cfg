SPECIFICATION Spec
CONSTANTS
    k1 = k1
    k2 = k2
    Keys = {k1, k2}
    Values = {1, 2}
    NoRow = NoRow
    Sessions = {s1}
    Free = Free
    Torn = Torn
    Mode = "wal"
    Requests <- AtomicRequests
    MaxTxStatements = 0
    MaxTxDatabaseRows = 0
    QueryTimeout = FALSE
    Faults = {}
    MaxRequests = 1
    MaxCrashes = 1
INVARIANTS AllOrNothing
CHECK_DEADLOCK FALSE
