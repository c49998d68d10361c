CONSTANTS
    a = a
    b = b
    c = c
    d = d
    Instance = {a, b, c}
    GroupName = {"foo", "bar"}
    Rank <- Ranks
    Overlap = TRUE
    Watched = "foo"
SPECIFICATION Spec
PROPERTY ServesInTurn
CHECK_DEADLOCK FALSE
