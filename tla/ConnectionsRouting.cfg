CONSTANTS
    a = a
    b = b
    socks_named = socks_named
    socks_any = socks_any
    connect_named = connect_named
    connect_any = connect_any
    Instance = {a, b}
    Conn = {socks_named}
    Socks = {socks_named}
    Request = {}
    Unidentified = {}
    Identified <- Usernames
    NoInstance = NoInstance
    NextMayThrow = FALSE
    MaxData = 0
    MaxOpen = 1
SPECIFICATION Spec
INVARIANTS RoutedAsNamed
CHECK_DEADLOCK FALSE
