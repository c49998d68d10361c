--------------------------- MODULE MCProxyRequest ---------------------------
(* Something of every kind, with a username, which names the instance a,   *)
(* and without.                                                            *)
EXTENDS ProxyRequest, TLC

CONSTANTS
    a, b, socks_named, socks_any, connect_named, connect_any,
    http_named, http_denied, dns

Usernames == [c \in Conn |-> IF c \in {socks_named, connect_named, http_named} THEN {a} ELSE {}]
=============================================================================
