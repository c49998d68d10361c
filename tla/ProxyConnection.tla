--------------------------- MODULE ProxyConnection ---------------------------
(***************************************************************************)
(* What comes to the three proxy servers: connections to SOCKSServer.js,   *)
(* CONNECT and plain requests to HTTPServer.js, requests to DNSServer.js.  *)
(* Who is admitted, which instance is chosen, what happens to those that   *)
(* come before any instance, and how the inbound and the outbound socket   *)
(* of a SOCKS or CONNECT connection are tied together; ProxyRequest has    *)
(* what becomes of the requests.  The pool is what the servers see of it,  *)
(* PoolView; next() is any member, see TorPoolFair, or throws.  The        *)
(* groups do not change here: what a username names is a constant.         *)
(***************************************************************************)
EXTENDS Naturals, Sequences, FiniteSets, SequencesExt

CONSTANTS
    Instance,
    Conn,           \* the inbound connections and requests
    Socks,          \* the connections to the SOCKS server
    Request,        \* plain HTTP and DNS requests; all others are CONNECT requests
    Identified,     \* the instances that the username of each connection names
    Unidentified,   \* the requests without one, to a server that denies those
    NoInstance,
    NextMayThrow,   \* whether next() may, see NextWeighted of TorPool
    MaxData,        \* bound: the chunks a SOCKS client sends
    MaxOpen         \* bound: how many of Conn are ever made

ASSUME ConnectionAssumption ==
    /\ Socks \subseteq Conn
    /\ Request \subseteq Conn \ Socks
    /\ Identified \in [Conn -> SUBSET Instance]
    /\ Unidentified \subseteq {c \in Conn \ Socks : Identified[c] = {}}
    /\ NoInstance \notin Instance
    /\ NextMayThrow \in BOOLEAN
    /\ MaxData \in Nat
    /\ MaxOpen \in Nat

VARIABLES
    pool,       \* the instances in the pool
    joined,     \* those that ever were
    ready,      \* those that have bootstrapped; dead ones stay ready
    down,       \* those whose process has ended
    state,      \* where each connection stands, see States
    via,        \* the instance each connection was given to
    client,     \* whether the client of each connection is (still) there
    freed,      \* whether onClose has run: it forgets sockets and buffer
    outbound,   \* the outbound socket of each connection
    sent,       \* how many chunks each client has sent
    piping,     \* whether chunks go to the outbound socket, not to the buffer
    buffer,     \* the chunks kept until then
    delivered,  \* the chunks written to the outbound socket
    crashed     \* whether an exception was uncaught, which ends the program

instanceVars == <<pool, joined, ready, down>>
socketVars == <<client, freed, outbound>>
dataVars == <<sent, piping, buffer, delivered>>
vars == <<instanceVars, state, via, socketVars, dataVars, crashed>>

States == {"new", "authenticated", "denied", "waiting_ready", "waiting_pool",
           "connecting", "failed", "tunnel"}

ConnectionTypeOK ==
    /\ joined \subseteq Instance
    /\ pool \union ready \union down \subseteq joined
    /\ state \in [Conn -> States]
    /\ \A c \in Conn :
          IF state[c] \in {"waiting_ready", "connecting", "failed", "tunnel"}
          THEN via[c] \in Instance
          ELSE via[c] = NoInstance
    /\ client \in [Conn -> {"open", "closed"}]
    /\ freed \in [Conn -> BOOLEAN]
    /\ outbound \in [Conn -> {"none", "open", "ended"}]
    /\ sent \in [Conn -> 0..MaxData]
    /\ piping \in [Conn -> BOOLEAN]
    /\ crashed \in BOOLEAN

View == INSTANCE PoolView

Init ==
    /\ View!Init
    /\ state = [c \in Conn |-> "new"]
    /\ via = [c \in Conn |-> NoInstance]
    /\ client \in [Conn -> {"open", "closed"}]
    /\ Cardinality({c \in Conn : client[c] = "open"}) <= MaxOpen
    /\ freed = [c \in Conn |-> FALSE]
    /\ outbound = [c \in Conn |-> "none"]
    /\ sent = [c \in Conn |-> 0]
    /\ piping = [c \in Conn |-> FALSE]
    /\ buffer = [c \in Conn |-> <<>>]
    /\ delivered = [c \in Conn |-> <<>>]
    /\ crashed = FALSE

ByName(c) == Identified[c] # {}
Found(c) == Identified[c] \intersect pool

-----------------------------------------------------------------------------
(* Mutated form: instance_created is not emitted. *)
BecomesReadyUnannounced(i) ==
    /\ View!BecomesReady(i)
    /\ state' = [c \in Conn |-> IF state[c] = "waiting_ready" /\ via[c] = i
                                THEN "connecting" ELSE state[c]]
    /\ UNCHANGED <<via, socketVars, dataVars, crashed>>

(***************************************************************************)
(* An instance has bootstrapped: those that wait for it connect, and, the  *)
(* pool announcing instance_created, so do all that wait for any, even     *)
(* where it was removed meanwhile.                                         *)
(***************************************************************************)
BecomesReady(i) ==
    LET waiters == {c \in Conn : state[c] = "waiting_pool"
                                   \/ (state[c] = "waiting_ready" /\ via[c] = i)}
    IN  /\ View!BecomesReady(i)
        /\ state' = [c \in Conn |-> IF c \in waiters THEN "connecting" ELSE state[c]]
        /\ via' = [c \in Conn |-> IF c \in waiters THEN i ELSE via[c]]
        /\ UNCHANGED <<socketVars, dataVars, crashed>>

(* What the servers see of create_instance(): it joins before it is ready. *)
Joins(i) == View!Joins(i) /\ UNCHANGED <<state, via, socketVars, dataVars, crashed>>

(* remove*() and exit() of the pool; no connection listens for a removal. *)
Removed == View!Removed /\ UNCHANGED <<state, via, socketVars, dataVars, crashed>>

Dies(i) == View!Dies(i) /\ UNCHANGED <<state, via, socketVars, dataVars, crashed>>

-----------------------------------------------------------------------------
(* authenticate_user() of the SOCKS server, on the username of the client: *)
(* a connection without one is to a server without proxy_by_name.          *)
Authenticate(c) ==
    /\ c \in Socks
    /\ state[c] = "new"
    /\ client[c] = "open"
    /\ ByName(c)
    /\ state' = [state EXCEPT ![c] = IF Found(c) = {} THEN "denied" ELSE "authenticated"]
    /\ UNCHANGED <<instanceVars, via, socketVars, dataVars, crashed>>

(* By name: connected at once, or when the instance is ready. *)
AssignNamed(c) ==
    \E i \in Found(c) :
        /\ via' = [via EXCEPT ![c] = i]
        /\ state' = [state EXCEPT ![c] = IF i \in ready THEN "connecting" ELSE "waiting_ready"]

(* Without a name: next(), or the first instance to be created. *)
AssignAny(c) ==
    IF pool # {}
    THEN \E i \in pool :
            /\ via' = [via EXCEPT ![c] = i]
            /\ state' = [state EXCEPT ![c] = "connecting"]
    ELSE /\ state' = [state EXCEPT ![c] = "waiting_pool"]
         /\ UNCHANGED via

(* Mutated form: a name that names nothing is not denied. *)
RequestArrivesUndenied(c) ==
    /\ c \notin Socks
    /\ state[c] = "new"
    /\ client[c] = "open"
    /\ IF Found(c) # {} THEN AssignNamed(c) ELSE AssignAny(c)
    /\ UNCHANGED <<instanceVars, socketVars, dataVars, crashed>>

(* Mutated form: the instance to wait for is not kept. *)
RequestArrivesForgetting(c) ==
    /\ c \notin Socks
    /\ state[c] = "new"
    /\ client[c] = "open"
    /\ state' = [state EXCEPT ![c] = IF Found(c) # {} THEN "waiting_ready" ELSE "denied"]
    /\ UNCHANGED <<instanceVars, via, socketVars, dataVars, crashed>>

(* A request to the HTTP server is authenticated and looked up in one go;  *)
(* one to the DNS server never has a name.                                 *)
RequestArrives(c) ==
    /\ c \notin Socks
    /\ state[c] = "new"
    /\ client[c] = "open"
    /\ CASE Found(c) # {} -> AssignNamed(c)
         [] Found(c) = {} /\ (ByName(c) \/ c \in Unidentified) ->
                state' = [state EXCEPT ![c] = "denied"] /\ UNCHANGED via
         [] ~ByName(c) /\ c \notin Unidentified -> AssignAny(c)
    /\ UNCHANGED <<instanceVars, socketVars, dataVars, crashed>>

(* The request on a SOCKS connection: what its name names is looked up     *)
(* again, and a name that has gone since counts as none.                   *)
SocksRequest(c) ==
    /\ c \in Socks
    /\ state[c] = IF ByName(c) THEN "authenticated" ELSE "new"
    /\ client[c] = "open"
    /\ IF Found(c) # {} THEN AssignNamed(c) ELSE AssignAny(c)
    /\ UNCHANGED <<instanceVars, socketVars, dataVars, crashed>>

(***************************************************************************)
(* next() throws: by weight, with a list that is too short for the pool or *)
(* an instance without a Weight, or with a method that there is none of.   *)
(* None of the servers catches it.                                         *)
(***************************************************************************)
NextThrows(c) ==
    /\ NextMayThrow
    /\ state[c] = IF c \in Socks /\ ByName(c) THEN "authenticated" ELSE "new"
    /\ client[c] = "open"
    /\ IF c \in Socks THEN Found(c) = {} ELSE ~ByName(c) /\ c \notin Unidentified
    /\ pool # {}
    /\ crashed' = TRUE
    /\ UNCHANGED <<instanceVars, state, via, socketVars, dataVars>>

-----------------------------------------------------------------------------
(* onClose: both ends are ended, and they and the buffer forgotten. *)
OnClose(c) ==
    /\ freed' = [freed EXCEPT ![c] = TRUE]
    /\ outbound' = [outbound EXCEPT ![c] = IF @ = "open" THEN "ended" ELSE @]
    /\ buffer' = [buffer EXCEPT ![c] = <<>>]
    /\ UNCHANGED <<sent, piping, delivered>>

(* Mutated form: what was buffered is written last chunk first. *)
FlushReversed(c) ==
    /\ piping' = [piping EXCEPT ![c] = TRUE]
    /\ delivered' = [delivered EXCEPT ![c] = Reverse(buffer[c])]
    /\ buffer' = [buffer EXCEPT ![c] = <<>>]
    /\ UNCHANGED sent

(* The outbound socket is there: from now on, chunks are written to it. *)
Flush(c) ==
    /\ piping' = [piping EXCEPT ![c] = TRUE]
    /\ delivered' = [delivered EXCEPT ![c] = buffer[c]]
    /\ buffer' = [buffer EXCEPT ![c] = <<>>]
    /\ UNCHANGED sent

(***************************************************************************)
(* Tor has connected.  Where the client is gone, SOCKS keeps the outbound  *)
(* socket all the same, and CONNECT writes to a socket it has forgotten.   *)
(***************************************************************************)
Connected(c) ==
    /\ state[c] = "connecting"
    /\ via[c] \notin down
    /\ state' = [state EXCEPT ![c] = "tunnel"]
    /\ outbound' = [outbound EXCEPT ![c] = "open"]
    /\ crashed' = (freed[c] /\ c \notin Socks)
    /\ IF c \in Socks /\ ~freed[c] THEN Flush(c) ELSE UNCHANGED dataVars
    /\ UNCHANGED <<instanceVars, via, client, freed>>

ConnectFails(c) ==
    /\ state[c] = "connecting"
    /\ state' = [state EXCEPT ![c] = "failed"]
    /\ OnClose(c)
    /\ UNCHANGED <<instanceVars, via, client, crashed>>

OutboundCloses(c) ==
    /\ outbound[c] = "open"
    /\ OnClose(c)
    /\ UNCHANGED <<instanceVars, state, via, client, crashed>>

(* A SOCKS connection has its listeners before it waits, CONNECT after. *)
Listening(c) ==
    state[c] \in {"connecting", "failed", "tunnel"}
      \/ (c \in Socks /\ state[c] \in {"waiting_ready", "waiting_pool"})

(* A CONNECT client that half-closes is not noticed before the tunnel. *)
ClientCloses(c) ==
    /\ client[c] = "open"
    /\ client' = [client EXCEPT ![c] = "closed"]
    /\ \/ Listening(c) /\ OnClose(c)
       \/ ~(Listening(c) /\ c \in Socks) /\ UNCHANGED <<freed, outbound, dataVars>>
    /\ UNCHANGED <<instanceVars, state, via, crashed>>

(* An error is uncaught where nothing listens for it. *)
ClientFails(c) ==
    /\ client[c] = "open"
    /\ c \notin Socks
    /\ state[c] \in {"waiting_ready", "waiting_pool"}
    /\ client' = [client EXCEPT ![c] = "closed"]
    /\ crashed' = TRUE
    /\ UNCHANGED <<instanceVars, state, via, freed, outbound, dataVars>>

(* The tunnel ends for a CONNECT client that closed unnoticed. *)
CloseNoticed(c) ==
    /\ c \notin Socks
    /\ state[c] = "tunnel"
    /\ client[c] = "closed"
    /\ ~freed[c]
    /\ OnClose(c)
    /\ UNCHANGED <<instanceVars, state, via, client, crashed>>

(***************************************************************************)
(* A chunk from a SOCKS client, which may still come after the inbound     *)
(* socket was ended: it is buffered until the tunnel is there, and there   *)
(* is no buffer any more after onClose.                                    *)
(***************************************************************************)
Data(c) ==
    LET chunk == sent[c] + 1
    IN  /\ c \in Socks
        /\ Listening(c)
        /\ client[c] = "open"
        /\ sent[c] < MaxData
        /\ sent' = [sent EXCEPT ![c] = chunk]
        /\ crashed' = (freed[c] /\ ~piping[c])
        /\ buffer' = IF freed[c] \/ piping[c] THEN buffer
                     ELSE [buffer EXCEPT ![c] = Append(@, chunk)]
        /\ delivered' = IF freed[c] \/ ~piping[c] THEN delivered
                        ELSE [delivered EXCEPT ![c] = Append(@, chunk)]
        /\ UNCHANGED <<instanceVars, state, via, socketVars, piping>>

-----------------------------------------------------------------------------
PoolStep ==
    \/ \E i \in Instance : Joins(i) \/ Dies(i) \/ BecomesReady(i)
    \/ Removed

Arrival(c) ==
    \/ Authenticate(c)
    \/ SocksRequest(c)
    \/ RequestArrives(c)
    \/ NextThrows(c)

TunnelStep(c) ==
    \/ Connected(c)
    \/ ConnectFails(c)
    \/ OutboundCloses(c)
    \/ ClientCloses(c)
    \/ ClientFails(c)
    \/ CloseNoticed(c)
    \/ Data(c)

(* Nothing goes on after an uncaught exception but the clean-up. *)
Next ==
    /\ ~crashed
    /\ \/ PoolStep
       \/ \E c \in Conn : Arrival(c)
       \/ \E c \in Conn \ Request : TunnelStep(c)

Spec == Init /\ [][Next]_vars

-----------------------------------------------------------------------------
(* A SOCKS client's data reaches the destination in the order it was sent, *)
(* whatever part of it came before the tunnel: nothing is lost, doubled or *)
(* overtaken while neither end has closed, and there is no gap ever.       *)
BytesInOrder ==
    \A c \in Socks :
        LET chunks == [k \in 1..sent[c] |-> k]
        IN  /\ IsPrefix(delivered[c], chunks)
            /\ ~freed[c] => delivered[c] \o buffer[c] = chunks

(* A CONNECT or plain request that names its instance or group is served   *)
(* by it, or not at all, and only once the instance has bootstrapped; one  *)
(* that has to name something and does not is never served.                *)
ConnectRoutedAsNamed ==
    \A c \in Conn \ Socks :
        /\ c \in Unidentified => via[c] = NoInstance
        /\ ByName(c) /\ via[c] # NoInstance => via[c] \in Identified[c]
        /\ ByName(c) /\ state[c] \in {"connecting", "tunnel"} => via[c] \in ready

(* Nobody waits for an event that has already fired: not for its instance  *)
(* to be ready, nor, with a live pool, for an instance to be created.      *)
NoMissedWakeup ==
    \A c \in Conn :
        /\ state[c] = "waiting_ready" => via[c] \notin ready
        /\ state[c] = "waiting_pool" => pool \intersect ready = {}

(* Through the username field one connects to a specific instance.         *)
RoutedAsNamed ==
    \A c \in Conn : ByName(c) /\ via[c] # NoInstance => via[c] \in Identified[c]

(* An error when connecting to the destination does not crash the program. *)
NoCrash == ~crashed
=============================================================================
