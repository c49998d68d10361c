CONSTANTS
    a = a
    b = b
    u = u
    Instance <- MCInstance
    Call = {c1}
    Named = {a, b}
    InstanceName <- SharedName
    Weighted = {a, b}
    Methods = {"weighted"}
    NoList = NoList
SPECIFICATION Spec
INVARIANT ListCoversPool
CHECK_DEADLOCK FALSE
