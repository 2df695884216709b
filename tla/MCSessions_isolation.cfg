SPECIFICATION Spec
CONSTANTS
    k1 = k1
    k2 = k2
    Keys = {k1}
    Values = {1, 2}
    NoRow = NoRow
    Sessions = {s1, s2}
    Free = Free
    Torn = Torn
    Mode = "wal"
    Requests <- MixedRequests
    MaxTxStatements = 1
    MaxTxDatabaseRows = 0
    QueryTimeout = FALSE
    Faults = {"sync"}
    MaxRequests = 4
    MaxCrashes = 0
SYMMETRY SessionSymmetry
INVARIANTS TypeOK BaseIsCurrent
PROPERTIES Serializable
CHECK_DEADLOCK FALSE
