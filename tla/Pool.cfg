CONSTANTS
    a = a
    b = b
    u = u
    Instance <- MCInstance
    Call = {c1, c2}
    Named = {a, b}
    InstanceName <- SharedName
    Weighted = {a, b, u}
    Methods = {"round_robin", "weighted"}
    NoList = NoList
SYMMETRY Symmetry
VIEW NoHistory
SPECIFICATION Spec
INVARIANTS PoolTypeOK PoolSound AddOutcome ListWithinPool
PROPERTIES OnlyCreationJoins ServesProxies
CHECK_DEADLOCK FALSE
