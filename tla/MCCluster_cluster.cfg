SPECIFICATION Spec
CONSTANTS
    n1 = n1
    n2 = n2
    n3 = n3
    Nodes <- MCNodes
    Boot = n1
    Tables = {t1}
    MaxKey = 1
    Mode = "memory"
    Scenarios <- MCScenarios
SYMMETRY Symmetry
INVARIANTS TypeOK Converged RangesPartition ReadsLinearizable AckedWritesKept AtomicBatches
CHECK_DEADLOCK FALSE
