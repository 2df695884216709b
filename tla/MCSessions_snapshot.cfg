SPECIFICATION Spec
CONSTANTS
    k1 = k1
    k2 = k2
    Keys = {k1, k2}
    Values = {1, 2}
    NoRow = NoRow
    Sessions = {s1, s2}
    Free = Free
    Torn = Torn
    Mode = "snapshot"
    Requests <- TxRequests
    MaxTxStatements = 0
    MaxTxDatabaseRows = 0
    QueryTimeout = FALSE
    Faults = {"write"}
    MaxRequests = 3
    MaxCrashes = 1
SYMMETRY SessionSymmetry
INVARIANTS RecoveryIsCurrent
CHECK_DEADLOCK FALSE
