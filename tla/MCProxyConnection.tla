------------------------- MODULE MCProxyConnection -------------------------
(* SOCKS and CONNECT connections, one of each with a username, which names *)
(* the instance a.                                                         *)
EXTENDS ProxyConnection, TLC

CONSTANTS a, b, socks_named, socks_any, connect_named, connect_any

Usernames == [c \in Conn |-> IF c \in {socks_named, connect_named} THEN {a} ELSE {}]
=============================================================================
