SPECIFICATION Spec
CONSTANTS
    n1 = n1
    n2 = n2
    n3 = n3
    Nodes <- MCNodes
    Boot = n1
    Tables = {t1}
    MaxKey = 1
    Mode = "memory"
    Scenarios <- MCJoining
SYMMETRY Symmetry
INVARIANT EveryMemberConverges
CHECK_DEADLOCK FALSE
