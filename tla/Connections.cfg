CONSTANTS
    a = a
    b = b
    socks_named = socks_named
    socks_any = socks_any
    connect_named = connect_named
    connect_any = connect_any
    http_named = http_named
    http_denied = http_denied
    dns = dns
    Instance = {a, b}
    Conn = {socks_named, socks_any, connect_named, connect_any, http_named, http_denied, dns}
    Socks = {socks_named, socks_any}
    Request = {http_named, http_denied, dns}
    Unidentified = {http_denied}
    Plain = {http_named, http_denied}
    Question = {1, 2}
    Identified <- Usernames
    NoInstance = NoInstance
    NextMayThrow = TRUE
    MaxData = 2
    MaxBody = 2
    MaxOpen = 2
SPECIFICATION RequestSpec
INVARIANTS ConnectionTypeOK BytesInOrder ConnectRoutedAsNamed NoMissedWakeup
INVARIANTS RequestTypeOK BodyPassedOn
PROPERTY DnsReplied
CHECK_DEADLOCK FALSE
