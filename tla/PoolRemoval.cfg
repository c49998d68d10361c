CONSTANTS
    a = a
    b = b
    u = u
    Instance = {a, b}
    Call = {c1}
    Named = {a, b}
    InstanceName <- OwnNames
    Weighted = {a, b}
    Methods = {"round_robin"}
    NoList = NoList
SPECIFICATION FairSpec
PROPERTY RemovalSettles
CHECK_DEADLOCK FALSE
