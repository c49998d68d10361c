CONSTANTS
    Instance = {named, unnamed}
    Call = {c1}
    Named = {named}
    Ported = {named, unnamed}
    Marker = {"ready", "control"}
    Command = {k1}
    Scope = {{named, unnamed}}
SPECIFICATION CommandSpec
INVARIANT UnconnectedThrows
CHECK_DEADLOCK FALSE
