CONSTANTS
    a = a
    b = b
    d = d
    Instance = {a, b, d}
    Call = {c1, c2}
    Named = {a, b, d}
    InstanceName <- SharedName
    Weighted = {}
    Methods = {"round_robin"}
    NoList = NoList
SPECIFICATION RoundRobinSpec
SYMMETRY Symmetry
INVARIANTS NoOrphan UniqueNames PassedStandBehind
PROPERTY ServesInTurn
CHECK_DEADLOCK FALSE
