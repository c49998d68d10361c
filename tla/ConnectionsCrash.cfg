CONSTANTS
    a = a
    b = b
    socks_named = socks_named
    socks_any = socks_any
    connect_named = connect_named
    connect_any = connect_any
    Instance = {a, b}
    Conn = {socks_any}
    Socks = {socks_any}
    Request = {}
    Unidentified = {}
    Identified <- Usernames
    NoInstance = NoInstance
    NextMayThrow = FALSE
    MaxData = 2
    MaxOpen = 1
SPECIFICATION Spec
INVARIANTS NoCrash
CHECK_DEADLOCK FALSE
