CONSTANTS
    a = a
    b = b
    c = c
    d = d
    Instance = {a, b, c, d}
    GroupName = {"foo", "bar"}
    Rank <- Ranks
    Overlap = FALSE
    Watched = "foo"
SPECIFICATION Spec
INVARIANT TypeOK
PROPERTIES RotatesArray ServesInTurn
CHECK_DEADLOCK FALSE
