CONSTANTS
    Instance = {named, unnamed}
    Named = {named}
    Call = {rpc, signal, second}
    CleanUps = {signal, second}
    Server = {socks}
    MaxPools = 2
SPECIFICATION Spec
INVARIANTS AppTypeOK ShutdownSignalsAll
PROPERTIES CleanEndLeavesNothing CleanUpEnds
CHECK_DEADLOCK FALSE
