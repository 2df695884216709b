SPECIFICATION Spec
CONSTANTS
    k1 = k1
    k2 = k2
    Keys = {k1}
    Values = {1, 2}
    NoRow = NoRow
    Sessions = {s1, s2}
    Free = Free
    Torn = Torn
    Mode = "wal"
    Requests <- AutoCommitRequests
    MaxTxStatements = 0
    MaxTxDatabaseRows = 0
    QueryTimeout = FALSE
    Faults = {}
    MaxRequests = 2
    MaxCrashes = 0
SYMMETRY SessionSymmetry
INVARIANTS RecoveryIsCurrent
CHECK_DEADLOCK FALSE
