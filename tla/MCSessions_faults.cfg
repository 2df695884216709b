SPECIFICATION FairSpec
CONSTANTS
    k1 = k1
    k2 = k2
    Keys = {k1}
    Values = {1, 2}
    NoRow = NoRow
    Sessions = {s1, s2}
    Free = Free
    Torn = Torn
    Mode = "wal"
    Requests <- LockRequests
    MaxTxStatements = 0
    MaxTxDatabaseRows = 0
    QueryTimeout = TRUE
    Faults = {"write", "torn", "sync"}
    MaxRequests = 3
    MaxCrashes = 1
INVARIANTS AckedDurable
PROPERTIES RequestsAnswered
CHECK_DEADLOCK FALSE
