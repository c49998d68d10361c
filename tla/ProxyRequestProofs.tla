-------------------------- MODULE ProxyRequestProofs --------------------------
(***************************************************************************)
(* Proofs about all that comes to the proxy servers, for any number of     *)
(* instances, connections, requests, chunks and questions.                 *)
(*                                                                         *)
(* The invariant has three parts that are kept for reasons of their own:   *)
(* who is given to which instance (Routing), what happens to the bytes of  *)
(* a SOCKS connection (Bytes), and to the body or the questions of a       *)
(* request (Requests).  Each part names the few facts it needs of another. *)
(***************************************************************************)
EXTENDS ProxyRequest, SequenceTheorems, FiniteSetTheorems, TLAPS

routingVars == <<instanceVars, state, via>>

(* The states in which an instance has been chosen.                        *)
Given == {"waiting_ready", "connecting", "failed", "tunnel"}

(* Only what has no name, and need not have one, is put in the queue for   *)
(* any instance: from there it may be given to every one.                  *)
NamedRouting ==
    \A c \in Conn \ Socks :
        /\ c \in Unidentified => state[c] \in {"new", "denied"}
        /\ ByName(c) =>
              /\ state[c] # "waiting_pool"
              /\ via[c] # NoInstance => via[c] \in Identified[c]
              /\ state[c] \in {"connecting", "tunnel"} => via[c] \in ready

Routing ==
    /\ joined \subseteq Instance
    /\ pool \union ready \union down \subseteq joined
    /\ state \in [Conn -> States]
    /\ via \in [Conn -> Instance \union {NoInstance}]
    /\ \A c \in Conn : state[c] \in Given <=> via[c] # NoInstance
    /\ NamedRouting
    /\ NoMissedWakeup

(* The chunks that a client has numbered from 1.                           *)
Counted(n) == [k \in 1..n |-> k]

(* Before the tunnel all is in the buffer, afterwards nothing is; once one *)
(* end has closed, what was delivered stays as it is.                      *)
ByteOrder ==
    \A c \in Socks :
        /\ piping[c] => state[c] = "tunnel"
        /\ \E m \in 0..sent[c] : delivered[c] = Counted(m)
        /\ ~freed[c] /\ piping[c] => delivered[c] = Counted(sent[c]) /\ buffer[c] = <<>>
        /\ ~freed[c] /\ ~piping[c] => delivered[c] = <<>> /\ buffer[c] = Counted(sent[c])

SocketsTyped ==
    /\ client \in [Conn -> {"open", "closed"}]
    /\ freed \in [Conn -> BOOLEAN]
    /\ outbound \in [Conn -> {"none", "open", "ended"}]
    /\ sent \in [Conn -> 0..MaxData]
    /\ piping \in [Conn -> BOOLEAN]
    /\ buffer \in [Conn -> Seq(Nat)]
    /\ delivered \in [Conn -> Seq(Nat)]
    /\ crashed \in BOOLEAN

Bytes == SocketsTyped /\ ByteOrder

ConnInv == Routing /\ Bytes

-----------------------------------------------------------------------------
(* A chunk continues the count.                                            *)
LEMMA CountedAppend ==
    ASSUME NEW n \in Nat
    PROVE  /\ Counted(n) \in Seq(Nat)
           /\ Append(Counted(n), n + 1) = Counted(n + 1)
           /\ <<>> \o Counted(n) = Counted(n)
           /\ Counted(n) \o <<>> = Counted(n)
<1>1. Counted(n) \in Seq(Nat) /\ Len(Counted(n)) = n
  BY DEF Counted
<1>2. Counted(n + 1) \in Seq(Nat) /\ Len(Counted(n + 1)) = n + 1
  BY DEF Counted
<1>3. Append(Counted(n), n + 1) \in Seq(Nat) /\ Len(Append(Counted(n), n + 1)) = n + 1
  BY <1>1
<1>4. \A k \in 1..(n + 1) : Append(Counted(n), n + 1)[k] = Counted(n + 1)[k]
  BY <1>1 DEF Counted
<1>5. Append(Counted(n), n + 1) = Counted(n + 1)
  BY <1>2, <1>3, <1>4, SeqEqual
<1>. QED
  BY <1>1, <1>5, ConcatEmptySeq

(* There is nothing to count before the first chunk.                       *)
LEMMA CountedZero == Counted(0) = <<>>
BY DEF Counted

(* An earlier count is a prefix of a later one.                            *)
LEMMA CountedPrefix ==
    ASSUME NEW n \in Nat, NEW m \in 0..n
    PROVE  IsPrefix(Counted(m), Counted(n))
<1>1. /\ Counted(m) \in Seq(Nat) /\ Len(Counted(m)) = m
      /\ Counted(n) \in Seq(Nat) /\ Len(Counted(n)) = n
  BY DEF Counted
<1>2. SubSeq(Counted(m), 1, m) = [k \in 1..m |-> k]
  BY <1>1 DEF Counted
<1>3. SubSeq(Counted(n), 1, m) = [k \in 1..m |-> k]
  BY <1>1 DEF Counted
<1>. QED
  BY <1>1, <1>2, <1>3 DEF IsPrefix

-----------------------------------------------------------------------------
(* What the pool does: the queues are emptied into the instance that has   *)
(* bootstrapped, which those with another name are not in.                 *)
LEMMA InstanceKeepsRouting ==
    ASSUME Routing, PoolStep
    PROVE  Routing'
<1>1. ASSUME NEW i \in Instance, Joins(i)
      PROVE  Routing'
  BY <1>1 DEF Joins, View!Joins, Routing, NamedRouting, NoMissedWakeup, ByName
<1>2. CASE Removed
  BY <1>2 DEF Removed, View!Removed, Routing, NamedRouting, NoMissedWakeup, ByName
<1>3. ASSUME NEW i \in Instance, Dies(i)
      PROVE  Routing'
  BY <1>3 DEF Dies, View!Dies, Routing, NamedRouting, NoMissedWakeup, ByName
<1>4. ASSUME NEW i \in Instance, BecomesReady(i)
      PROVE  Routing'
  <2> DEFINE waiters == {c \in Conn : state[c] = "waiting_pool"
                                        \/ (state[c] = "waiting_ready" /\ via[c] = i)}
  <2>1. /\ i \in joined
        /\ ready' = ready \union {i}
        /\ state' = [c \in Conn |-> IF c \in waiters THEN "connecting" ELSE state[c]]
        /\ via' = [c \in Conn |-> IF c \in waiters THEN i ELSE via[c]]
        /\ UNCHANGED <<pool, joined, down>>
    BY <1>4 DEF BecomesReady, View!BecomesReady
  <2>2. i # NoInstance
    BY ConnectionAssumption
  <2>3. /\ state' \in [Conn -> States]
        /\ via' \in [Conn -> Instance \union {NoInstance}]
    BY <2>1 DEF Routing, States
  <2>4. \A c \in Conn : state'[c] \in Given <=> via'[c] # NoInstance
    BY <2>1, <2>2 DEF Routing, Given
  <2>5. NamedRouting'
    BY <2>1, <2>2 DEF Routing, NamedRouting, ByName, Given
  <2>6. NoMissedWakeup'
    BY <2>1 DEF Routing, NoMissedWakeup
  <2>. QED
    BY <2>1, <2>3, <2>4, <2>5, <2>6 DEF Routing
<1>. QED
  BY <1>1, <1>2, <1>3, <1>4 DEF PoolStep

(* One connection is given to an instance, or put in a queue where nobody  *)
(* is missing: this is what both servers do, in their own order.           *)
LEMMA AssignmentKeepsRouting ==
    ASSUME Routing, NEW c \in Conn, state[c] \in {"new", "authenticated"},
           UNCHANGED instanceVars,
           \/ AssignNamed(c)
           \/ AssignAny(c) /\ (c \in Socks \/ (~ByName(c) /\ c \notin Unidentified))
           \/ c \notin Socks /\ state' = [state EXCEPT ![c] = "denied"] /\ UNCHANGED via
    PROVE  Routing'
<1>1. /\ UNCHANGED <<pool, joined, ready, down>>
      /\ via[c] = NoInstance
      /\ pool \subseteq Instance /\ NoInstance \notin Instance
  BY ConnectionAssumption DEF instanceVars, Routing, Given
<1>2. CASE AssignNamed(c)
  <2>1. PICK i \in Found(c) :
           /\ via' = [via EXCEPT ![c] = i]
           /\ state' = [state EXCEPT ![c] = IF i \in ready THEN "connecting" ELSE "waiting_ready"]
    BY <1>2 DEF AssignNamed
  <2>2. i \in Identified[c] /\ i \in Instance /\ i # NoInstance
    BY <1>1, <2>1 DEF Found
  <2>3. c \notin Unidentified
    BY <2>2, ConnectionAssumption
  <2>4. /\ state' \in [Conn -> States]
        /\ via' \in [Conn -> Instance \union {NoInstance}]
        /\ \A d \in Conn : state'[d] \in Given <=> via'[d] # NoInstance
    BY <2>1, <2>2 DEF Routing, States, Given
  <2>5. NamedRouting'
    BY <1>1, <2>1, <2>2, <2>3 DEF Routing, NamedRouting, ByName
  <2>6. NoMissedWakeup'
    BY <1>1, <2>1 DEF Routing, NoMissedWakeup
  <2>. QED
    BY <1>1, <2>4, <2>5, <2>6 DEF Routing
<1>3. CASE AssignAny(c) /\ (c \in Socks \/ (~ByName(c) /\ c \notin Unidentified))
  <2>1. CASE pool # {}
    <3>1. PICK i \in pool :
             /\ via' = [via EXCEPT ![c] = i]
             /\ state' = [state EXCEPT ![c] = "connecting"]
      BY <1>3, <2>1 DEF AssignAny
    <3>2. i \in Instance /\ i # NoInstance
      BY <1>1, <3>1
    <3>3. /\ state' \in [Conn -> States]
          /\ via' \in [Conn -> Instance \union {NoInstance}]
          /\ \A d \in Conn : state'[d] \in Given <=> via'[d] # NoInstance
      BY <3>1, <3>2 DEF Routing, States, Given
    <3>4. NamedRouting'
      BY <1>1, <1>3, <3>1 DEF Routing, NamedRouting, ByName
    <3>5. NoMissedWakeup'
      BY <1>1, <3>1 DEF Routing, NoMissedWakeup
    <3>. QED
      BY <1>1, <3>3, <3>4, <3>5 DEF Routing
  <2>2. CASE pool = {}
    <3>1. state' = [state EXCEPT ![c] = "waiting_pool"] /\ via' = via
      BY <1>3, <2>2 DEF AssignAny
    <3>2. /\ state' \in [Conn -> States]
          /\ \A d \in Conn : state'[d] \in Given <=> via'[d] # NoInstance
      BY <1>1, <3>1 DEF Routing, States, Given
    <3>3. NamedRouting'
      BY <1>1, <1>3, <3>1 DEF Routing, NamedRouting, ByName
    <3>4. NoMissedWakeup'
      BY <1>1, <2>2, <3>1 DEF Routing, NoMissedWakeup
    <3>. QED
      BY <1>1, <3>1, <3>2, <3>3, <3>4 DEF Routing
  <2>. QED
    BY <2>1, <2>2
<1>4. CASE c \notin Socks /\ state' = [state EXCEPT ![c] = "denied"] /\ UNCHANGED via
  <2>1. /\ state' \in [Conn -> States]
        /\ \A d \in Conn : state'[d] \in Given <=> via'[d] # NoInstance
    BY <1>1, <1>4 DEF Routing, States, Given
  <2>2. NamedRouting' /\ NoMissedWakeup'
    BY <1>1, <1>4 DEF Routing, NamedRouting, NoMissedWakeup, ByName
  <2>. QED
    BY <1>1, <1>4, <2>1, <2>2 DEF Routing
<1>. QED
  BY <1>2, <1>3, <1>4

(* Every way to arrive ends in an assignment, in none, or in a crash.      *)
LEMMA ArrivalKeepsRouting ==
    ASSUME Routing, NEW c \in Conn, Arrival(c)
    PROVE  Routing'
<1>1. CASE Authenticate(c)
  <2>1. /\ c \in Socks /\ state[c] = "new"
        /\ UNCHANGED <<pool, joined, ready, down, via>>
        /\ state' = [state EXCEPT ![c] = IF Found(c) = {} THEN "denied" ELSE "authenticated"]
    BY <1>1 DEF Authenticate, instanceVars
  <2>2. /\ state' \in [Conn -> States]
        /\ \A d \in Conn : state'[d] \in Given <=> via'[d] # NoInstance
    BY <2>1 DEF Routing, States, Given
  <2>3. NamedRouting' /\ NoMissedWakeup'
    BY <2>1 DEF Routing, NamedRouting, NoMissedWakeup, ByName
  <2>. QED
    BY <2>1, <2>2, <2>3 DEF Routing
<1>2. CASE SocksRequest(c)
  <2>1. /\ c \in Socks /\ state[c] \in {"new", "authenticated"}
        /\ UNCHANGED instanceVars
        /\ AssignNamed(c) \/ AssignAny(c)
    BY <1>2 DEF SocksRequest
  <2>. QED
    BY <2>1, AssignmentKeepsRouting
<1>3. CASE RequestArrives(c)
  <2>1. /\ c \notin Socks /\ state[c] \in {"new", "authenticated"}
        /\ UNCHANGED instanceVars
    BY <1>3 DEF RequestArrives
  <2>2. CASE Found(c) # {}
    <3>1. ByName(c)
      BY <2>2 DEF Found, ByName
    <3>2. AssignNamed(c)
      BY <1>3, <2>2, <3>1 DEF RequestArrives
    <3>. QED
      BY <2>1, <3>2, AssignmentKeepsRouting
  <2>3. CASE Found(c) = {} /\ (ByName(c) \/ c \in Unidentified)
    <3>1. state' = [state EXCEPT ![c] = "denied"] /\ UNCHANGED via
      BY <1>3, <2>3 DEF RequestArrives
    <3>. QED
      BY <2>1, <3>1, AssignmentKeepsRouting
  <2>4. CASE Found(c) = {} /\ ~ByName(c) /\ c \notin Unidentified
    <3>1. AssignAny(c)
      BY <1>3, <2>4 DEF RequestArrives
    <3>. QED
      BY <2>1, <2>4, <3>1, AssignmentKeepsRouting
  <2>. QED
    BY <2>2, <2>3, <2>4
<1>4. CASE NextThrows(c)
  BY <1>4 DEF NextThrows, instanceVars, Routing, NamedRouting, NoMissedWakeup, ByName
<1>. QED
  BY <1>1, <1>2, <1>3, <1>4 DEF Arrival

(* A tunnel is opened, or fails to be, through the instance chosen.        *)
LEMMA TunnelKeepsRouting ==
    ASSUME Routing, NEW c \in Conn, TunnelStep(c)
    PROVE  Routing'
<1>1. ASSUME NEW s \in {"tunnel", "failed"}, state[c] = "connecting",
             state' = [state EXCEPT ![c] = s], UNCHANGED <<instanceVars, via>>
      PROVE  Routing'
  <2>1. /\ state' \in [Conn -> States]
        /\ \A d \in Conn : state'[d] \in Given <=> via'[d] # NoInstance
    BY <1>1 DEF Routing, States, Given
  <2>2. NamedRouting' /\ NoMissedWakeup'
    BY <1>1 DEF Routing, NamedRouting, NoMissedWakeup, ByName, instanceVars
  <2>. QED
    BY <1>1, <2>1, <2>2 DEF Routing, instanceVars
<1>2. ASSUME UNCHANGED routingVars
      PROVE  Routing'
  BY <1>2 DEF routingVars, instanceVars, Routing, NamedRouting, NoMissedWakeup, ByName
<1>3. CASE Connected(c)
  BY <1>1, <1>3 DEF Connected
<1>4. CASE ConnectFails(c)
  BY <1>1, <1>4 DEF ConnectFails
<1>5. CASE OutboundCloses(c) \/ ClientCloses(c) \/ ClientFails(c) \/ CloseNoticed(c) \/ Data(c)
  BY <1>2, <1>5 DEF OutboundCloses, ClientCloses, ClientFails, CloseNoticed, Data, routingVars
<1>. QED
  BY <1>3, <1>4, <1>5 DEF TunnelStep

-----------------------------------------------------------------------------
(* Whoever leaves the sockets and the buffer alone, and does not take a    *)
(* tunnel down, keeps the bytes in order.                                  *)
LEMMA ElsewhereKeepsBytes ==
    ASSUME Bytes, UNCHANGED <<freed, outbound, dataVars>>,
           client' \in [Conn -> {"open", "closed"}], crashed' \in BOOLEAN,
           \A c \in Socks : state[c] = "tunnel" => state'[c] = "tunnel"
    PROVE  Bytes'
<1>1. SocketsTyped'
  BY DEF Bytes, SocketsTyped, dataVars
<1>2. ByteOrder'
  BY DEF Bytes, ByteOrder, dataVars, Counted
<1>. QED
  BY <1>1, <1>2 DEF Bytes

(* onClose ends what an end of the connection began: nothing is written    *)
(* after it, and what was written stays a prefix.                          *)
LEMMA CloseKeepsBytes ==
    ASSUME Bytes, NEW c \in Conn, OnClose(c),
           client' \in [Conn -> {"open", "closed"}], crashed' \in BOOLEAN,
           \A d \in Socks : piping[d] => state'[d] = "tunnel"
    PROVE  Bytes'
<1>1. /\ freed' = [freed EXCEPT ![c] = TRUE]
      /\ outbound' = [outbound EXCEPT ![c] = IF @ = "open" THEN "ended" ELSE @]
      /\ buffer' = [buffer EXCEPT ![c] = <<>>]
      /\ UNCHANGED <<sent, piping, delivered>>
  BY DEF OnClose
<1>2. SocketsTyped'
  BY <1>1 DEF Bytes, SocketsTyped
<1>3. ASSUME NEW d \in Socks
      PROVE  /\ piping'[d] => state'[d] = "tunnel"
             /\ \E m \in 0..sent'[d] : delivered'[d] = Counted(m)
             /\ ~freed'[d] /\ piping'[d] => delivered'[d] = Counted(sent'[d]) /\ buffer'[d] = <<>>
             /\ ~freed'[d] /\ ~piping'[d] => delivered'[d] = <<>> /\ buffer'[d] = Counted(sent'[d])
  <2>1. d \in Conn
    BY ConnectionAssumption
  <2>2. CASE d = c
    BY <1>1, <2>1, <2>2 DEF Bytes, ByteOrder, SocketsTyped
  <2>3. CASE d # c
    BY <1>1, <2>1, <2>3 DEF Bytes, ByteOrder, SocketsTyped
  <2>. QED
    BY <2>2, <2>3
<1>4. ByteOrder'
  BY <1>3 DEF ByteOrder, Counted
<1>. QED
  BY <1>2, <1>4 DEF Bytes

(* The tunnel is there: what was kept is written, and from now on chunks   *)
(* go straight to the outbound socket.                                     *)
LEMMA ConnectedKeepsBytes ==
    ASSUME Routing, Bytes, NEW c \in Conn, Connected(c)
    PROVE  Bytes'
<1>1. /\ state[c] = "connecting"
      /\ state' = [state EXCEPT ![c] = "tunnel"]
      /\ outbound' = [outbound EXCEPT ![c] = "open"]
      /\ crashed' \in BOOLEAN
      /\ UNCHANGED <<client, freed>>
  BY DEF Connected
<1>2. \A d \in Conn : state[d] = "tunnel" => state'[d] = "tunnel"
  BY <1>1 DEF Routing
<1>3. state'[c] = "tunnel"
  BY <1>1 DEF Routing
<1>4. CASE c \in Socks /\ ~freed[c]
  <2>1. /\ piping' = [piping EXCEPT ![c] = TRUE]
        /\ delivered' = [delivered EXCEPT ![c] = buffer[c]]
        /\ buffer' = [buffer EXCEPT ![c] = <<>>]
        /\ UNCHANGED sent
    BY <1>4 DEF Connected, Flush
  <2>2. <<>> \in Seq(Nat)
    OBVIOUS
  <2>3. SocketsTyped'
    BY <1>1, <2>1, <2>2 DEF Bytes, SocketsTyped
  <2>4. ~piping[c] /\ buffer[c] = Counted(sent[c]) /\ sent[c] \in Nat
    BY <1>1, <1>4, ConnectionAssumption DEF Bytes, ByteOrder, SocketsTyped
  <2>5. ASSUME NEW d \in Socks
        PROVE  /\ piping'[d] => state'[d] = "tunnel"
               /\ \E m \in 0..sent'[d] : delivered'[d] = Counted(m)
               /\ ~freed'[d] /\ piping'[d] => delivered'[d] = Counted(sent'[d]) /\ buffer'[d] = <<>>
               /\ ~freed'[d] /\ ~piping'[d] => delivered'[d] = <<>> /\ buffer'[d] = Counted(sent'[d])
    <3>1. d \in Conn
      BY ConnectionAssumption
    <3>2. CASE d = c
      <4>1. /\ piping'[d] /\ state'[d] = "tunnel" /\ buffer'[d] = <<>>
            /\ sent'[d] = sent[d] /\ delivered'[d] = Counted(sent[d])
        BY <1>3, <2>1, <2>4, <3>2 DEF Bytes, SocketsTyped
      <4>2. sent[d] \in 0..sent[d]
        BY <2>4, <3>2
      <4>. QED
        BY <4>1, <4>2
    <3>3. CASE d # c
      BY <1>1, <1>2, <2>1, <3>1, <3>3 DEF Bytes, ByteOrder, SocketsTyped
    <3>. QED
      BY <3>2, <3>3
  <2>6. ByteOrder'
    BY <2>5 DEF ByteOrder, Counted
  <2>. QED
    BY <2>3, <2>6 DEF Bytes
<1>5. CASE ~(c \in Socks /\ ~freed[c])
  <2>1. UNCHANGED dataVars
    BY <1>5 DEF Connected
  <2>2. SocketsTyped'
    BY <1>1, <2>1 DEF Bytes, SocketsTyped, dataVars
  <2>3. ByteOrder'
    BY <1>1, <1>2, <2>1, ConnectionAssumption DEF Bytes, ByteOrder, dataVars, Counted
  <2>. QED
    BY <2>2, <2>3 DEF Bytes
<1>. QED
  BY <1>4, <1>5

(* A chunk comes: kept, written, or lost because one end has closed.       *)
LEMMA DataKeepsBytes ==
    ASSUME Bytes, NEW c \in Conn, Data(c)
    PROVE  Bytes'
<1> DEFINE chunk == sent[c] + 1
<1>1. /\ c \in Socks
      /\ sent[c] < MaxData
      /\ sent' = [sent EXCEPT ![c] = chunk]
      /\ crashed' = (freed[c] /\ ~piping[c])
      /\ buffer' = IF freed[c] \/ piping[c] THEN buffer
                   ELSE [buffer EXCEPT ![c] = Append(@, chunk)]
      /\ delivered' = IF freed[c] \/ ~piping[c] THEN delivered
                      ELSE [delivered EXCEPT ![c] = Append(@, chunk)]
      /\ UNCHANGED <<state, client, freed, outbound, piping>>
  BY DEF Data, socketVars
<1>2. /\ sent[c] \in Nat /\ chunk \in 0..MaxData
      /\ buffer[c] \in Seq(Nat) /\ delivered[c] \in Seq(Nat)
      /\ sent'[c] = chunk
  BY <1>1, ConnectionAssumption DEF Bytes, SocketsTyped
<1>3. /\ Append(buffer[c], chunk) \in Seq(Nat)
      /\ Append(delivered[c], chunk) \in Seq(Nat)
  BY <1>2
<1>4. SocketsTyped'
  <2>1. sent' \in [Conn -> 0..MaxData]
    BY <1>1, <1>2 DEF Bytes, SocketsTyped
  <2>2. buffer' \in [Conn -> Seq(Nat)] /\ delivered' \in [Conn -> Seq(Nat)]
    BY <1>1, <1>3 DEF Bytes, SocketsTyped
  <2>3. crashed' \in BOOLEAN
    BY <1>1
  <2>. QED
    BY <1>1, <2>1, <2>2, <2>3 DEF Bytes, SocketsTyped
<1>5. /\ Append(Counted(sent[c]), chunk) = Counted(chunk)
  BY <1>2, CountedAppend
<1>6. ASSUME NEW d \in Socks
      PROVE  /\ piping'[d] => state'[d] = "tunnel"
             /\ \E m \in 0..sent'[d] : delivered'[d] = Counted(m)
             /\ ~freed'[d] /\ piping'[d] => delivered'[d] = Counted(sent'[d]) /\ buffer'[d] = <<>>
             /\ ~freed'[d] /\ ~piping'[d] => delivered'[d] = <<>> /\ buffer'[d] = Counted(sent'[d])
  <2>1. d \in Conn
    BY ConnectionAssumption
  <2>2. CASE d = c
    <3>1. CASE freed[c]
      <4>1. delivered'[d] = delivered[d] /\ freed'[d] /\ piping'[d] = piping[d]
        BY <1>1, <2>2, <3>1
      <4>2. PICK m \in 0..sent[c] : delivered[c] = Counted(m)
        BY <1>1 DEF Bytes, ByteOrder
      <4>3. m \in 0..sent'[d]
        BY <1>2, <2>2, <4>2
      <4>. QED
        BY <1>1, <2>2, <4>1, <4>2, <4>3 DEF Bytes, ByteOrder
    <3>2. CASE ~freed[c] /\ piping[c]
      <4>1. delivered'[d] = Append(delivered[c], chunk) /\ buffer'[d] = buffer[c]
        BY <1>1, <2>1, <2>2, <3>2 DEF Bytes, SocketsTyped
      <4>2. delivered[c] = Counted(sent[c]) /\ buffer[c] = <<>> /\ state[c] = "tunnel"
        BY <1>1, <3>2 DEF Bytes, ByteOrder
      <4>3. delivered'[d] = Counted(sent'[d]) /\ sent'[d] \in 0..sent'[d]
        BY <1>2, <1>5, <2>2, <4>1, <4>2
      <4>. QED
        BY <1>1, <2>2, <3>2, <4>1, <4>2, <4>3
    <3>3. CASE ~freed[c] /\ ~piping[c]
      <4>1. delivered'[d] = delivered[c] /\ buffer'[d] = Append(buffer[c], chunk)
        BY <1>1, <2>1, <2>2, <3>3 DEF Bytes, SocketsTyped
      <4>2. delivered[c] = <<>> /\ buffer[c] = Counted(sent[c])
        BY <1>1, <3>3 DEF Bytes, ByteOrder
      <4>3. buffer'[d] = Counted(sent'[d]) /\ 0 \in 0..sent'[d]
        BY <1>2, <1>5, <2>2, <4>1, <4>2
      <4>. QED
        BY <1>1, <2>2, <3>3, <4>1, <4>2, <4>3, CountedZero
    <3>. QED
      BY <3>1, <3>2, <3>3
  <2>3. CASE d # c
    BY <1>1, <2>1, <2>3 DEF Bytes, ByteOrder, SocketsTyped
  <2>. QED
    BY <2>2, <2>3
<1>7. ByteOrder'
  BY <1>6 DEF ByteOrder, Counted
<1>. QED
  BY <1>4, <1>7 DEF Bytes

(* Every step of a tunnel, from connecting to the end.                     *)
LEMMA TunnelKeepsBytes ==
    ASSUME Routing, Bytes, NEW c \in Conn, TunnelStep(c)
    PROVE  Bytes'
<1>1. \A d \in Socks : piping[d] => state[d] = "tunnel"
  BY DEF Bytes, ByteOrder
<1>2. CASE Connected(c)
  BY <1>2, ConnectedKeepsBytes
<1>3. CASE Data(c)
  BY <1>3, DataKeepsBytes
<1>4. CASE ConnectFails(c)
  <2>1. \A d \in Socks : piping[d] => state'[d] = "tunnel"
    BY <1>1, <1>4, ConnectionAssumption DEF ConnectFails, Routing
  <2>2. OnClose(c) /\ client' \in [Conn -> {"open", "closed"}] /\ crashed' \in BOOLEAN
    BY <1>4 DEF ConnectFails, Bytes, SocketsTyped
  <2>. QED
    BY <2>1, <2>2, CloseKeepsBytes
<1>5. CASE OutboundCloses(c) \/ CloseNoticed(c)
  <2>1. /\ OnClose(c) /\ client' \in [Conn -> {"open", "closed"}] /\ crashed' \in BOOLEAN
        /\ state' = state
    BY <1>5 DEF OutboundCloses, CloseNoticed, Bytes, SocketsTyped
  <2>. QED
    BY <1>1, <2>1, CloseKeepsBytes
<1>6. CASE ClientCloses(c)
  <2>1. client' \in [Conn -> {"open", "closed"}] /\ crashed' \in BOOLEAN /\ state' = state
    BY <1>6 DEF ClientCloses, Bytes, SocketsTyped
  <2>2. OnClose(c) \/ UNCHANGED <<freed, outbound, dataVars>>
    BY <1>6 DEF ClientCloses
  <2>. QED
    BY <1>1, <2>1, <2>2, CloseKeepsBytes, ElsewhereKeepsBytes
<1>7. CASE ClientFails(c)
  <2>1. /\ client' \in [Conn -> {"open", "closed"}] /\ crashed' \in BOOLEAN /\ state' = state
        /\ UNCHANGED <<freed, outbound, dataVars>>
    BY <1>7 DEF ClientFails, Bytes, SocketsTyped
  <2>. QED
    BY <2>1, ElsewhereKeepsBytes
<1>. QED
  BY <1>2, <1>3, <1>4, <1>5, <1>6, <1>7 DEF TunnelStep

(* No instance, and no connection that arrives, takes a tunnel down or     *)
(* touches its sockets.                                                    *)
LEMMA OthersLeaveTunnels ==
    ASSUME Routing, Bytes,
           \/ PoolStep
           \/ \E c \in Conn : Arrival(c)
    PROVE  /\ UNCHANGED <<socketVars, dataVars>> /\ crashed' \in BOOLEAN
           /\ \A d \in Conn : state[d] \in {"tunnel", "connecting"} => state'[d] = state[d]
<1>1. ASSUME PoolStep
      PROVE  /\ UNCHANGED <<socketVars, dataVars>> /\ crashed' \in BOOLEAN
             /\ \A d \in Conn : state[d] \in {"tunnel", "connecting"} => state'[d] = state[d]
  <2>1. CASE Removed \/ \E i \in Instance : Joins(i) \/ Dies(i)
    BY <2>1 DEF Joins, Removed, Dies, Bytes, SocketsTyped
  <2>2. ASSUME NEW i \in Instance, BecomesReady(i)
        PROVE  /\ UNCHANGED <<socketVars, dataVars>> /\ crashed' \in BOOLEAN
               /\ \A d \in Conn : state[d] \in {"tunnel", "connecting"} => state'[d] = state[d]
    BY <2>2 DEF BecomesReady, Routing, Bytes, SocketsTyped
  <2>. QED
    BY <1>1, <2>1, <2>2 DEF PoolStep
<1>2. ASSUME NEW c \in Conn, Arrival(c)
      PROVE  /\ UNCHANGED <<socketVars, dataVars>> /\ crashed' \in BOOLEAN
             /\ \A d \in Conn : state[d] \in {"tunnel", "connecting"} => state'[d] = state[d]
  <2>1. /\ UNCHANGED <<socketVars, dataVars>> /\ crashed' \in BOOLEAN
        /\ state[c] \in {"new", "authenticated"}
    BY <1>2 DEF Arrival, Authenticate, SocksRequest, RequestArrives, NextThrows, Bytes,
                SocketsTyped
  <2>2. state' = state \/ \E s : state' = [state EXCEPT ![c] = s]
    BY <1>2 DEF Arrival, Authenticate, SocksRequest, RequestArrives, NextThrows, AssignNamed,
                AssignAny
  <2>. QED
    BY <2>1, <2>2 DEF Routing
<1>. QED
  BY <1>1, <1>2

(* Every step of the connections keeps both parts.                         *)
LEMMA NextKeepsConn ==
    ASSUME ConnInv, Next
    PROVE  ConnInv'
<1> USE DEF ConnInv
<1>1. ASSUME \/ PoolStep
             \/ \E c \in Conn : Arrival(c)
      PROVE  ConnInv'
  <2>1. Routing'
    BY <1>1, InstanceKeepsRouting, ArrivalKeepsRouting
  <2>2. /\ UNCHANGED <<freed, outbound, dataVars>>
        /\ client' \in [Conn -> {"open", "closed"}] /\ crashed' \in BOOLEAN
        /\ \A c \in Socks : state[c] = "tunnel" => state'[c] = "tunnel"
    BY <1>1, OthersLeaveTunnels, ConnectionAssumption DEF socketVars, Bytes, SocketsTyped
  <2>. QED
    BY <2>1, <2>2, ElsewhereKeepsBytes
<1>2. ASSUME NEW c \in Conn \ Request, TunnelStep(c)
      PROVE  ConnInv'
  BY <1>2, TunnelKeepsRouting, TunnelKeepsBytes
<1>. QED
  BY <1>1, <1>2 DEF Next

(* A request that was handed over stays so, whatever the connections do.   *)
LEMMA NextKeepsHandedOver ==
    ASSUME ConnInv, Next, NEW r \in Request, state[r] = "connecting"
    PROVE  state'[r] = "connecting"
<1> USE DEF ConnInv
<1>1. r \in Conn
  BY ConnectionAssumption
<1>2. CASE PoolStep \/ (\E c \in Conn : Arrival(c))
  BY <1>1, <1>2, OthersLeaveTunnels
<1>3. ASSUME NEW c \in Conn \ Request, TunnelStep(c)
      PROVE  state'[r] = "connecting"
  <2>1. state' = state \/ \E s : state' = [state EXCEPT ![c] = s]
    BY <1>3 DEF TunnelStep, Connected, ConnectFails, OutboundCloses, ClientCloses,
                ClientFails, CloseNoticed, Data
  <2>. QED
    BY <1>1, <1>3, <2>1 DEF Routing
<1>. QED
  BY <1>2, <1>3 DEF Next

-----------------------------------------------------------------------------
(* All of a body is held before connect(), and all is written afterwards.  *)
BodyInv ==
    \A c \in Plain :
        IF state[c] = "connecting"
        THEN /\ held[c] = <<>> /\ written[c] = Counted(body[c])
             /\ ends[c] = IF c \in finished THEN 1 ELSE 0
        ELSE /\ written[c] = <<>> /\ held[c] = Counted(body[c])
             /\ ends[c] = 0

(* Nothing is asked, answered or replied before connect().                 *)
QuestionInv ==
    \A d \in Dns :
        /\ open[d] \intersect answers[d] = {}
        /\ state[d] # "connecting" => open[d] = {} /\ answers[d] = {} /\ replies[d] = <<>>

BodyTyped ==
    /\ body \in [Plain -> 0..MaxBody]
    /\ finished \subseteq Plain
    /\ held \in [Plain -> Seq(Nat)]
    /\ written \in [Plain -> Seq(Nat)]
    /\ ends \in [Plain -> Nat]
    /\ response \in [Plain -> {"none", "head", "ended", "error", "aborted"}]

QuestionTyped ==
    /\ open \in [Dns -> SUBSET Question]
    /\ answers \in [Dns -> SUBSET Question]
    /\ replies \in [Dns -> Seq(SUBSET Question)]

Bodies == BodyTyped /\ BodyInv
Questions == QuestionTyped /\ QuestionInv

(* The inductive invariant of all that the servers do.                     *)
RequestInv == ConnInv /\ Bodies /\ Questions

(* The empty sequence, as the two kinds of sequences it begins.            *)
LEMMA NothingYet ==
    /\ <<>> \in Seq(Nat)
    /\ <<>> \in Seq(SUBSET Question)
    /\ Len(<<>>) = 0
    /\ <<>> \o <<>> = <<>>
OBVIOUS

(* Before anything has come.                                               *)
LEMMA RequestInvInit ==
    ASSUME RequestInit
    PROVE  RequestInv
<1>1. 0 \in 0..MaxData /\ 0 \in 0..MaxBody /\ 0 \in 0..0
  BY ConnectionAssumption, RequestAssumption
<1>2. Routing
  BY ConnectionAssumption DEF RequestInit, Init, View!Init, Routing, States, Given, NamedRouting,
                              NoMissedWakeup
<1>3. SocketsTyped
  BY <1>1, NothingYet DEF RequestInit, Init, SocketsTyped
<1>4. ByteOrder
  BY <1>1, CountedZero, ConnectionAssumption DEF RequestInit, Init, ByteOrder
<1>5. Bodies
  BY <1>1, NothingYet, CountedZero, ConnectionAssumption, RequestAssumption
     DEF RequestInit, Init, Bodies, BodyTyped, BodyInv
<1>6. Questions
  BY NothingYet, ConnectionAssumption
     DEF RequestInit, Init, Questions, QuestionTyped, QuestionInv, Dns
<1>. QED
  BY <1>2, <1>3, <1>4, <1>5, <1>6 DEF RequestInv, ConnInv, Bytes

(* connect(): the body held is written whole, and its end passed on if it  *)
(* has come; later chunks are written by themselves.                       *)
LEMMA HandOverKeepsBodies ==
    ASSUME Bodies, HandOverBody,
           \A r \in Request : state[r] = "connecting" => state'[r] = "connecting"
    PROVE  Bodies'
<1> USE DEF Bodies
<1>1. /\ written' = [c \in Plain |-> IF c \in HandedOver THEN written[c] \o held[c] ELSE written[c]]
      /\ held' = [c \in Plain |-> IF c \in HandedOver THEN <<>> ELSE held[c]]
      /\ ends' = [c \in Plain |-> IF c \in HandedOver \intersect finished
                                  THEN ends[c] + 1 ELSE ends[c]]
      /\ UNCHANGED <<body, finished, response>>
  BY DEF HandOverBody
<1>2. \A c \in Plain : written[c] \o held[c] \in Seq(Nat)
  BY DEF BodyTyped
<1>3. BodyTyped'
  <2>1. written' \in [Plain -> Seq(Nat)] /\ held' \in [Plain -> Seq(Nat)]
    BY <1>1, <1>2, NothingYet DEF BodyTyped
  <2>2. ends' \in [Plain -> Nat]
    BY <1>1 DEF BodyTyped
  <2>. QED
    BY <1>1, <2>1, <2>2 DEF BodyTyped
<1>4. ASSUME NEW c \in Plain
      PROVE  IF state'[c] = "connecting"
             THEN /\ held'[c] = <<>> /\ written'[c] = Counted(body'[c])
                  /\ ends'[c] = IF c \in finished' THEN 1 ELSE 0
             ELSE /\ written'[c] = <<>> /\ held'[c] = Counted(body'[c])
                  /\ ends'[c] = 0
  <2>1. c \in Request /\ body[c] \in Nat
    BY RequestAssumption DEF BodyTyped
  <2>2. CASE c \in HandedOver
    <3>1. state[c] # "connecting" /\ state'[c] = "connecting"
      BY <2>2 DEF HandedOver
    <3>2. written[c] = <<>> /\ held[c] = Counted(body[c]) /\ ends[c] = 0
      BY <3>1 DEF BodyInv
    <3>3. written'[c] = Counted(body[c]) /\ held'[c] = <<>>
      BY <1>1, <2>1, <2>2, <3>2, CountedAppend
    <3>4. ends'[c] = IF c \in finished THEN 1 ELSE 0
      BY <1>1, <2>2, <3>2
    <3>. QED
      BY <1>1, <3>1, <3>3, <3>4
  <2>3. CASE c \notin HandedOver
    <3>1. state'[c] = "connecting" <=> state[c] = "connecting"
      BY <2>1, <2>3 DEF HandedOver
    <3>2. written'[c] = written[c] /\ held'[c] = held[c] /\ ends'[c] = ends[c]
      BY <1>1, <2>3
    <3>. QED
      BY <1>1, <3>1, <3>2 DEF BodyInv
  <2>. QED
    BY <2>2, <2>3
<1>5. BodyInv'
  BY <1>4 DEF BodyInv, Counted
<1>. QED
  BY <1>3, <1>5

(* connect() of a DNS request: the questions are all outstanding.          *)
LEMMA HandOverKeepsQuestions ==
    ASSUME Questions, HandOverQuestions,
           \A r \in Request : state[r] = "connecting" => state'[r] = "connecting"
    PROVE  Questions'
<1>1. /\ open' = [d \in Dns |-> IF d \in HandedOver THEN Question ELSE open[d]]
      /\ UNCHANGED <<answers, replies>>
  BY DEF HandOverQuestions
<1>2. \A d \in Dns : d \in HandedOver <=> state[d] # "connecting" /\ state'[d] = "connecting"
  BY DEF HandedOver, Dns
<1>3. QuestionTyped'
  BY <1>1 DEF Questions, QuestionTyped
<1>4. QuestionInv'
  BY <1>1, <1>2 DEF Questions, QuestionInv, Dns
<1>. QED
  BY <1>3, <1>4 DEF Questions

(* What a plain request does to the connections: its client may leave, and *)
(* a second head crash the program.                                        *)
LEMMA PlainKeepsConn ==
    ASSUME ConnInv, NEW c \in Plain, PlainStep(c)
    PROVE  ConnInv' /\ UNCHANGED state
<1> USE DEF ConnInv
<1>1. /\ UNCHANGED <<instanceVars, state, via, freed, outbound, dataVars>>
      /\ client' \in [Conn -> {"open", "closed"}] /\ crashed' \in BOOLEAN
  <2>1. CASE ClientAborts(c)
    BY <2>1 DEF ClientAborts, WriteHead, Bytes, SocketsTyped
  <2>2. CASE ProxyFails(c) \/ Responds(c)
    BY <2>2 DEF ProxyFails, Responds, WriteHead, socketVars, Bytes, SocketsTyped
  <2>3. CASE BodyChunk(c) \/ BodyEnds(c) \/ ResponseEnds(c)
    BY <2>3 DEF BodyChunk, BodyEnds, ResponseEnds, vars, socketVars, Bytes, SocketsTyped
  <2>. QED
    BY <2>1, <2>2, <2>3 DEF PlainStep
<1>2. Bytes'
  BY <1>1, ElsewhereKeepsBytes
<1>3. Routing'
  BY <1>1 DEF instanceVars, Routing, NamedRouting, NoMissedWakeup, ByName
<1>. QED
  BY <1>1, <1>2, <1>3

(* A chunk or the end of the body, before connect() and after.             *)
LEMMA PlainKeepsBodies ==
    ASSUME Bodies, NEW c \in Plain, PlainStep(c), UNCHANGED state
    PROVE  Bodies'
<1> USE DEF Bodies
<1>1. ASSUME BodyChunk(c)
      PROVE  Bodies'
  <2> DEFINE chunk == body[c] + 1
  <2>1. /\ c \notin finished /\ body[c] < MaxBody
        /\ body' = [body EXCEPT ![c] = chunk]
        /\ UNCHANGED <<finished, ends, response>>
    BY <1>1 DEF BodyChunk
  <2>2. body[c] \in Nat /\ chunk \in 0..MaxBody /\ body'[c] = chunk
    BY <2>1, RequestAssumption DEF BodyTyped
  <2>3. Append(Counted(body[c]), chunk) = Counted(chunk)
    BY <2>2, CountedAppend
  <2>4. body' \in [Plain -> 0..MaxBody]
    BY <2>1, <2>2 DEF BodyTyped
  <2>5. CASE state[c] = "connecting"
    <3>1. written' = [written EXCEPT ![c] = Append(@, chunk)] /\ held' = held
      BY <1>1, <2>2, <2>5 DEF BodyChunk
    <3>2. Append(written[c], chunk) \in Seq(Nat)
      BY <2>2 DEF BodyTyped
    <3>3. written' \in [Plain -> Seq(Nat)]
      BY <3>1, <3>2 DEF BodyTyped
    <3>4. BodyTyped'
      BY <2>1, <2>4, <3>1, <3>3 DEF BodyTyped
    <3>5. written'[c] = Counted(chunk) /\ held'[c] = <<>>
      BY <2>3, <2>5, <3>1 DEF BodyInv, BodyTyped
    <3>6. BodyInv'
      BY <2>1, <2>2, <2>5, <3>1, <3>5 DEF BodyInv, BodyTyped, Counted
    <3>. QED
      BY <3>4, <3>6
  <2>6. CASE state[c] # "connecting"
    <3>1. held' = [held EXCEPT ![c] = Append(@, chunk)] /\ written' = written
      BY <1>1, <2>2, <2>6 DEF BodyChunk
    <3>2. Append(held[c], chunk) \in Seq(Nat)
      BY <2>2 DEF BodyTyped
    <3>3. held' \in [Plain -> Seq(Nat)]
      BY <3>1, <3>2 DEF BodyTyped
    <3>4. BodyTyped'
      BY <2>1, <2>4, <3>1, <3>3 DEF BodyTyped
    <3>5. held'[c] = Counted(chunk) /\ written'[c] = <<>>
      BY <2>3, <2>6, <3>1 DEF BodyInv, BodyTyped
    <3>6. BodyInv'
      BY <2>1, <2>2, <2>6, <3>1, <3>5 DEF BodyInv, BodyTyped, Counted
    <3>. QED
      BY <3>4, <3>6
  <2>. QED
    BY <2>5, <2>6
<1>2. ASSUME BodyEnds(c)
      PROVE  Bodies'
  <2>1. /\ c \notin finished
        /\ finished' = finished \union {c}
        /\ ends' = [ends EXCEPT ![c] = IF state[c] = "connecting" THEN @ + 1 ELSE @]
        /\ UNCHANGED <<body, held, written, response>>
    BY <1>2 DEF BodyEnds
  <2>2. BodyTyped'
    BY <2>1 DEF BodyTyped
  <2>3. ends'[c] = IF state[c] = "connecting" THEN 1 ELSE 0
    BY <2>1 DEF BodyInv, BodyTyped
  <2>4. BodyInv'
    BY <2>1, <2>3 DEF BodyInv, BodyTyped, Counted
  <2>. QED
    BY <2>2, <2>4
<1>3. CASE ClientAborts(c) \/ ProxyFails(c) \/ Responds(c) \/ ResponseEnds(c)
  <2>1. /\ UNCHANGED <<body, finished, held, written, ends>>
        /\ response' \in [Plain -> {"none", "head", "ended", "error", "aborted"}]
    BY <1>3 DEF ClientAborts, ProxyFails, Responds, ResponseEnds, WriteHead, BodyTyped
  <2>. QED
    BY <2>1 DEF BodyTyped, BodyInv, Counted
<1>. QED
  BY <1>1, <1>2, <1>3 DEF PlainStep

(* A question ends once: what it ends with, and the reply it causes, are   *)
(* those of a request that has its instance.                               *)
LEMMA DnsKeepsQuestions ==
    ASSUME Questions, NEW d \in Dns, DnsStep(d)
    PROVE  Questions' /\ UNCHANGED <<vars, bodyVars>>
<1>1. PICK q \in Question : Answered(d, q) \/ TimedOut(d, q)
  BY DEF DnsStep
<1>2. /\ q \in open[d]
      /\ answers' = [answers EXCEPT ![d] = @ \union {q}] \/ answers' = answers
      /\ open' = [open EXCEPT ![d] = @ \ {q}]
      /\ replies' = [replies EXCEPT ![d] = Append(@, answers'[d])]
      /\ UNCHANGED <<vars, bodyVars>>
  BY <1>1 DEF Answered, TimedOut, QuestionEnds
<1>3. answers' \in [Dns -> SUBSET Question] /\ open' \in [Dns -> SUBSET Question]
  BY <1>2 DEF Questions, QuestionTyped
<1>4. Append(replies[d], answers'[d]) \in Seq(SUBSET Question)
  BY <1>3 DEF Questions, QuestionTyped
<1>5. QuestionTyped'
  BY <1>2, <1>3, <1>4 DEF Questions, QuestionTyped
<1>6. QuestionInv'
  BY <1>2 DEF Questions, QuestionTyped, QuestionInv, vars
<1>. QED
  BY <1>2, <1>5, <1>6 DEF Questions

(* Every step of everything keeps the invariant.                           *)
LEMMA RequestInvStep ==
    ASSUME RequestInv, [RequestNext]_requestVars
    PROVE  RequestInv'
<1> USE DEF RequestInv
<1>1. CASE UNCHANGED requestVars
  <2>1. /\ UNCHANGED <<freed, outbound, dataVars>> /\ client' = client /\ crashed' = crashed
        /\ UNCHANGED <<pool, joined, ready, down, state, via>>
        /\ UNCHANGED bodyVars /\ UNCHANGED questionVars
    BY <1>1 DEF requestVars, vars, socketVars, instanceVars
  <2>2. Routing'
    BY <2>1 DEF ConnInv, Routing, NamedRouting, NoMissedWakeup, ByName
  <2>3. Bytes'
    BY <2>1, ElsewhereKeepsBytes DEF ConnInv, Bytes, SocketsTyped
  <2>4. Bodies' /\ Questions'
    BY <2>1 DEF bodyVars, questionVars, Bodies, BodyTyped, BodyInv, Counted,
                Questions, QuestionTyped, QuestionInv
  <2>. QED
    BY <2>2, <2>3, <2>4 DEF ConnInv
<1>2. CASE Next /\ HandOverBody /\ HandOverQuestions
  <2>1. ConnInv' /\ \A r \in Request : state[r] = "connecting" => state'[r] = "connecting"
    BY <1>2, NextKeepsConn, NextKeepsHandedOver
  <2>. QED
    BY <1>2, <2>1, HandOverKeepsBodies, HandOverKeepsQuestions
<1>3. ASSUME NEW c \in Plain, PlainStep(c)
      PROVE  RequestInv'
  <2>1. ConnInv' /\ UNCHANGED state
    BY <1>3, PlainKeepsConn
  <2>2. Bodies'
    BY <1>3, <2>1, PlainKeepsBodies
  <2>3. UNCHANGED questionVars
    BY <1>3 DEF PlainStep, BodyChunk, BodyEnds, ClientAborts, Responds, ResponseEnds, ProxyFails
  <2>4. Questions'
    BY <2>1, <2>3 DEF questionVars, Questions, QuestionTyped, QuestionInv
  <2>. QED
    BY <2>1, <2>2, <2>4
<1>4. ASSUME NEW d \in Dns, DnsStep(d)
      PROVE  RequestInv'
  <2>1. Questions' /\ UNCHANGED <<vars, bodyVars>>
    BY <1>4, DnsKeepsQuestions
  <2>2. /\ UNCHANGED <<freed, outbound, dataVars>> /\ client' = client /\ crashed' = crashed
        /\ UNCHANGED <<pool, joined, ready, down, state, via>>
    BY <2>1 DEF vars, socketVars, instanceVars
  <2>3. Routing'
    BY <2>2 DEF ConnInv, Routing, NamedRouting, NoMissedWakeup, ByName
  <2>4. Bytes'
    BY <2>2, ElsewhereKeepsBytes DEF ConnInv, Bytes, SocketsTyped
  <2>5. Bodies'
    BY <2>1, <2>2 DEF bodyVars, Bodies, BodyTyped, BodyInv, Counted
  <2>. QED
    BY <2>1, <2>3, <2>4, <2>5 DEF ConnInv
<1>. QED
  BY <1>1, <1>2, <1>3, <1>4 DEF RequestNext

(* The invariant, whatever comes to the servers and whatever dies.         *)
THEOREM RequestInvariant == RequestSpec => []RequestInv
<1>1. RequestInit => RequestInv
  BY RequestInvInit
<1>2. RequestInv /\ [RequestNext]_requestVars => RequestInv'
  BY RequestInvStep
<1>. QED
  BY <1>1, <1>2, PTL DEF RequestSpec

-----------------------------------------------------------------------------
(* A connection has an instance exactly in the states that need one.       *)
THEOREM ConnectionTypeCorrect == RequestSpec => []ConnectionTypeOK
<1>1. RequestInv => ConnectionTypeOK
  <2> SUFFICES ASSUME RequestInv
               PROVE  ConnectionTypeOK
    OBVIOUS
  <2>1. \A c \in Conn : IF state[c] \in Given THEN via[c] \in Instance ELSE via[c] = NoInstance
    BY DEF RequestInv, ConnInv, Routing
  <2>. QED
    BY <2>1 DEF RequestInv, ConnInv, Routing, Given, Bytes, SocketsTyped, ConnectionTypeOK
<1>. QED
  BY <1>1, RequestInvariant, PTL

(* The bytes of a SOCKS client are in order, however many it sends before  *)
(* and after the tunnel is there.                                          *)
THEOREM SocksBytesInOrder == RequestSpec => []BytesInOrder
<1>1. RequestInv => BytesInOrder
  <2> SUFFICES ASSUME RequestInv, NEW c \in Socks
               PROVE  /\ IsPrefix(delivered[c], Counted(sent[c]))
                      /\ ~freed[c] => delivered[c] \o buffer[c] = Counted(sent[c])
    BY DEF BytesInOrder, Counted
  <2>1. sent[c] \in Nat /\ piping[c] \in BOOLEAN
    BY ConnectionAssumption DEF RequestInv, ConnInv, Bytes, SocketsTyped
  <2>2. PICK m \in 0..sent[c] : delivered[c] = Counted(m)
    BY DEF RequestInv, ConnInv, Bytes, ByteOrder
  <2>3. IsPrefix(delivered[c], Counted(sent[c]))
    BY <2>1, <2>2, CountedPrefix
  <2>4. ASSUME ~freed[c]
        PROVE  delivered[c] \o buffer[c] = Counted(sent[c])
    <3>1. \/ delivered[c] = Counted(sent[c]) /\ buffer[c] = <<>>
          \/ delivered[c] = <<>> /\ buffer[c] = Counted(sent[c])
      BY <2>1, <2>4 DEF RequestInv, ConnInv, Bytes, ByteOrder
    <3>. QED
      BY <2>1, <3>1, CountedAppend
  <2>. QED
    BY <2>3, <2>4
<1>. QED
  BY <1>1, RequestInvariant, PTL

(* A name is a promise for the CONNECT and plain requests that carry it.   *)
THEOREM RequestsRoutedAsNamed == RequestSpec => []ConnectRoutedAsNamed
<1>1. RequestInv => ConnectRoutedAsNamed
  BY DEF RequestInv, ConnInv, Routing, NamedRouting, Given, ConnectRoutedAsNamed
<1>. QED
  BY <1>1, RequestInvariant, PTL

-----------------------------------------------------------------------------
(* No SOCKS connection loses the last instance of its name between its     *)
(* authentication and its request, which are two messages of the client.   *)
NamesPersist ==
    [][\A c \in Socks : state[c] = "authenticated" /\ Found(c) # {} => Found(c)' # {}]_requestVars

(* Then the second lookup finds what the first has found, and no named     *)
(* connection gets into the queue for any instance.                        *)
SocksNamed ==
    \A c \in Socks : ByName(c) =>
        /\ state[c] = "authenticated" => Found(c) # {}
        /\ state[c] # "waiting_pool"
        /\ via[c] # NoInstance => via[c] \in Identified[c]

(* Arrival is where a name is looked up, and the only step that can put a  *)
(* connection in a queue.                                                  *)
LEMMA ArrivalKeepsNames ==
    ASSUME Routing, SocksNamed, NEW d \in Conn, Arrival(d)
    PROVE  SocksNamed'
<1>1. UNCHANGED <<pool, joined, ready, down>>
  BY DEF Arrival, Authenticate, SocksRequest, RequestArrives, NextThrows, instanceVars
<1>2. ASSUME NEW c \in Socks, c # d
      PROVE  state'[c] = state[c] /\ via'[c] = via[c]
  <2>1. state' = state \/ \E s : state' = [state EXCEPT ![d] = s]
    BY DEF Arrival, Authenticate, SocksRequest, RequestArrives, NextThrows, AssignNamed,
           AssignAny
  <2>2. via' = via \/ \E i : via' = [via EXCEPT ![d] = i]
    BY DEF Arrival, Authenticate, SocksRequest, RequestArrives, NextThrows, AssignNamed,
           AssignAny
  <2>. QED
    BY <1>2, <2>1, <2>2, ConnectionAssumption DEF Routing
<1>3. ASSUME d \in Socks, ByName(d)
      PROVE  /\ state'[d] = "authenticated" => Found(d) # {}
             /\ state'[d] # "waiting_pool"
             /\ via'[d] # NoInstance => via'[d] \in Identified[d]
  <2>1. CASE Authenticate(d)
    BY <1>3, <2>1 DEF Authenticate, Routing, SocksNamed
  <2>2. CASE SocksRequest(d)
    <3>1. state[d] = "authenticated"
      BY <1>3, <2>2 DEF SocksRequest
    <3>2. AssignNamed(d)
      BY <1>3, <2>2, <3>1 DEF SocksRequest, SocksNamed
    <3>3. PICK i \in Found(d) :
             /\ via' = [via EXCEPT ![d] = i]
             /\ state' = [state EXCEPT ![d] = IF i \in ready THEN "connecting" ELSE "waiting_ready"]
      BY <3>2 DEF AssignNamed
    <3>. QED
      BY <3>3 DEF Routing, Found
  <2>3. CASE RequestArrives(d)
    BY <1>3, <2>3 DEF RequestArrives
  <2>4. CASE NextThrows(d)
    BY <1>3, <2>4, ConnectionAssumption DEF NextThrows, SocksNamed, Found
  <2>. QED
    BY <2>1, <2>2, <2>3, <2>4 DEF Arrival
<1>. QED
  BY <1>1, <1>2, <1>3 DEF SocksNamed, ByName, Found

(* Every step keeps the names, while none is lost at the wrong moment.     *)
LEMMA SocksNamedStep ==
    ASSUME RequestInv, SocksNamed, [RequestNext]_requestVars,
           \A c \in Socks : state[c] = "authenticated" /\ Found(c) # {} => Found(c)' # {}
    PROVE  SocksNamed'
<1> USE DEF RequestInv, ConnInv
<1>1. ASSUME UNCHANGED <<state, via>>
      PROVE  SocksNamed'
  BY <1>1 DEF SocksNamed, ByName
<1>2. CASE UNCHANGED requestVars
  BY <1>1, <1>2 DEF requestVars, vars
<1>3. ASSUME PoolStep
      PROVE  SocksNamed'
  <2>1. CASE Removed \/ \E i \in Instance : Joins(i) \/ Dies(i)
    BY <1>1, <2>1 DEF Joins, Removed, Dies
  <2>2. ASSUME NEW i \in Instance, BecomesReady(i)
        PROVE  SocksNamed'
    <3>1. \A c \in Conn :
             \/ state'[c] = state[c] /\ via'[c] = via[c]
             \/ state'[c] = "connecting" /\ via'[c] = i /\ state[c] = "waiting_pool"
             \/ state'[c] = "connecting" /\ via'[c] = via[c]
      BY <2>2 DEF BecomesReady
    <3>. QED
      BY <3>1, ConnectionAssumption DEF SocksNamed, ByName
  <2>. QED
    BY <1>3, <2>1, <2>2 DEF PoolStep
<1>4. ASSUME NEW c \in Conn, Arrival(c)
      PROVE  SocksNamed'
  BY <1>4, ArrivalKeepsNames
<1>5. ASSUME NEW c \in Conn \ Request, TunnelStep(c)
      PROVE  SocksNamed'
  <2>1. /\ UNCHANGED via
        /\ state' = state \/ \E s \in {"tunnel", "failed"} : state' = [state EXCEPT ![c] = s]
    BY <1>5 DEF TunnelStep, Connected, ConnectFails, OutboundCloses, ClientCloses,
                ClientFails, CloseNoticed, Data
  <2>. QED
    BY <2>1, ConnectionAssumption DEF SocksNamed, ByName, Routing
<1>6. ASSUME NEW c \in Plain, PlainStep(c)
      PROVE  UNCHANGED <<state, via>>
  BY <1>6 DEF PlainStep, BodyChunk, BodyEnds, ClientAborts, Responds, ResponseEnds,
              ProxyFails, vars
<1>7. ASSUME NEW d \in Dns, DnsStep(d)
      PROVE  UNCHANGED <<state, via>>
  BY <1>7 DEF DnsStep, Answered, TimedOut, QuestionEnds, vars
<1>. QED
  BY <1>1, <1>2, <1>3, <1>4, <1>5, <1>6, <1>7 DEF RequestNext, Next

(* A name is a promise for SOCKS connections too, but for the one window   *)
(* in which their instance may be removed: authentication and request are  *)
(* two messages, and the request looks the name up again.                  *)
THEOREM SocksRoutedWhileNamed == RequestSpec /\ NamesPersist => []RoutedAsNamed
<1>1. RequestInit => SocksNamed
  BY ConnectionAssumption DEF RequestInit, Init, SocksNamed
<1>2. RequestInv /\ SocksNamed /\ [RequestNext]_requestVars
         /\ [\A c \in Socks :
                state[c] = "authenticated" /\ Found(c) # {} => Found(c)' # {}]_requestVars
         => SocksNamed'
  <2>1. ASSUME SocksNamed, UNCHANGED requestVars
        PROVE  SocksNamed'
    BY <2>1 DEF requestVars, vars, instanceVars, SocksNamed, ByName, Found
  <2>. QED
    BY <2>1, SocksNamedStep
<1>3. RequestInv /\ SocksNamed => RoutedAsNamed
  BY DEF RequestInv, ConnInv, Routing, NamedRouting, SocksNamed, RoutedAsNamed
<1>. QED
  BY <1>1, <1>2, <1>3, RequestInvariant, PTL DEF RequestSpec, NamesPersist

-----------------------------------------------------------------------------
(* Nobody waits for an event that has already fired.                       *)
THEOREM WakeupsNotMissed == RequestSpec => []NoMissedWakeup
<1>1. RequestInv => NoMissedWakeup
  BY DEF RequestInv, ConnInv, Routing
<1>. QED
  BY <1>1, RequestInvariant, PTL

(* A question is answered or outstanding, and nothing is before connect(). *)
THEOREM RequestTypeCorrect == RequestSpec => []RequestTypeOK
<1>1. RequestInv => RequestTypeOK
  BY DEF RequestInv, Bodies, BodyTyped, Questions, QuestionTyped, QuestionInv, RequestTypeOK
<1>. QED
  BY <1>1, RequestInvariant, PTL

(* The body of a plain request is passed on whole, and ended once.         *)
THEOREM BodiesPassedOn == RequestSpec => []BodyPassedOn
<1>1. RequestInv => BodyPassedOn
  <2> SUFFICES ASSUME RequestInv, NEW c \in Plain
               PROVE  /\ written[c] \o held[c] = Counted(body[c])
                      /\ IF state[c] = "connecting"
                         THEN held[c] = <<>> /\ ends[c] = Cardinality({c} \intersect finished)
                         ELSE written[c] = <<>> /\ ends[c] = 0
    BY DEF BodyPassedOn, Counted
  <2>1. body[c] \in Nat
    BY DEF RequestInv, Bodies, BodyTyped
  <2>2. Cardinality({c} \intersect finished) = IF c \in finished THEN 1 ELSE 0
    <3>1. {c} \intersect finished = IF c \in finished THEN {c} ELSE {}
      OBVIOUS
    <3>. QED
      BY <3>1, FS_Singleton, FS_EmptySet
  <2>. QED
    BY <2>1, <2>2, CountedAppend DEF RequestInv, Bodies, BodyInv
<1>. QED
  BY <1>1, RequestInvariant, PTL
=============================================================================
