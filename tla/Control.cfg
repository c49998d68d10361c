CONSTANTS
    Instance = {named, unnamed}
    Call = {c1, c2}
    Named = {named}
    Ported = {named, unnamed}
    Marker = {"ready", "control", "err"}
    Command = {k1}
    Scope = {{named, unnamed}}
SPECIFICATION CommandSpec
INVARIANTS ControlTypeOK DirectoryKept CommandTypeOK ResolvedMeansExecuted
PROPERTIES ExitResolvesDead ExitSettles FanOutSettles
CHECK_DEADLOCK FALSE
