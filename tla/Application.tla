----------------------------- MODULE Application -----------------------------
(***************************************************************************)
(* The program around the pool: main() of launch.js, from the control      *)
(* server it awaits to the cleanUp it installs, and what a client of the   *)
(* control server (ControlServer.js) may do to the pool meanwhile.         *)
(*                                                                         *)
(* createTorPool puts a new pool in the place of the current one and       *)
(* leaves the old one as it is.  Creations and cleanUp take the pool of    *)
(* the moment; the RPC methods that remove and close are bound to the      *)
(* first.  A pool is the set of its members here, TorPool has the array.   *)
(***************************************************************************)
EXTENDS TorProcess, Naturals

CONSTANTS
    CleanUps,   \* the calls of cleanUp; the other callers of exit() are RPC clients
    Server,     \* the SOCKS, HTTP and DNS servers
    MaxPools    \* bound: the pools ever made, the one of the constructor included

ASSUME ApplicationAssumption ==
    /\ CleanUps \subseteq Call
    /\ MaxPools \in Nat \ {0}

VARIABLES
    phase,      \* where main() stands, see Phases
    status,     \* "up", or how the program ended
    awaited,    \* the instances main() still awaits
    binding,    \* the servers that have not been told yet whether they are bound
    current,    \* the pool of the control server
    home,       \* the pool that each instance was created in, 0 for none
    members,    \* the instances of each pool
    target,     \* the pool whose exit() each caller is inside, 0 for none
    failed,     \* the cleanUps called with an Error
    late        \* history: those pushed while an exit() of their pool was under way

poolsVars == <<current, home, members, target, failed, late>>
appVars == <<processVars, phase, status, awaited, binding, poolsVars>>

Pool == 1..MaxPools

(***************************************************************************)
(* "binding" awaits listenTcp(), "starting" the instances of the           *)
(* configuration; the handlers of signals and exceptions are there when    *)
(* the program is "running".                                               *)
(***************************************************************************)
Phases == {"binding", "starting", "running"}

(* "ok" and "error" are exit statuses 0 and 1; "killed" is by a signal. *)
Statuses == {"up", "ok", "error", "killed"}

AppTypeOK ==
    /\ ProcessTypeOK
    /\ phase \in Phases
    /\ status \in Statuses
    /\ awaited \subseteq Instance
    /\ binding \subseteq Server
    /\ current \in Pool
    /\ home \in [Instance -> {0} \union Pool]
    /\ members \in [Pool -> SUBSET Instance]
    /\ \A p \in Pool : \A i \in members[p] : home[i] = p /\ Spawned(i)
    /\ target \in [Call -> {0} \union Pool]
    /\ failed \subseteq CleanUps
    /\ late \subseteq Instance

Init ==
    /\ ProcessInit
    /\ phase = "binding"
    /\ status = "up"
    /\ awaited = {}
    /\ binding = {}
    /\ current = 1
    /\ home = [i \in Instance |-> 0]
    /\ members = [p \in Pool |-> {}]
    /\ target = [c \in Call |-> 0]
    /\ failed = {}
    /\ late = {}

-----------------------------------------------------------------------------
(* process.exit(1), or death by an exception or a signal nobody handles. *)
Dies(how) ==
    /\ phase # "running"
    /\ status' = how
    /\ UNCHANGED <<processVars, phase, awaited, binding, poolsVars>>

(* createInstances, addInstances, and main() itself: in the current pool. *)
CreateIn(S) ==
    /\ Create(S)
    /\ home' = [i \in Instance |-> IF i \in S THEN current ELSE home[i]]
    /\ UNCHANGED <<current, members, target, failed, late>>

(***************************************************************************)
(* The control server listens: the proxy servers T are told to listen too, *)
(* which nobody awaits, and the instances S are created and awaited.       *)
(***************************************************************************)
ControlListens(S, T) ==
    /\ phase = "binding"
    /\ phase' = IF S = {} THEN "running" ELSE "starting"
    /\ binding' = T
    /\ awaited' = S
    /\ CreateIn(S)
    /\ UNCHANGED status

ControlFails == phase = "binding" /\ Dies("error")

(* Mutated form: it is pushed to the pool of the moment. *)
PushedToCurrent(i) ==
    /\ Spawn(i)
    /\ members' = [members EXCEPT ![current] = @ \union {i}]
    /\ UNCHANGED <<phase, status, awaited, binding, current, home, target, failed, late>>

(* create() of an instance resolves: it is pushed to the pool it was       *)
(* created in, which somebody may be closing meanwhile.                    *)
Pushed(i) ==
    /\ Spawn(i)
    /\ members' = [members EXCEPT ![home[i]] = @ \union {i}]
    /\ late' = IF \E c \in Call : target[c] = home[i] THEN late \union {i} ELSE late
    /\ UNCHANGED <<phase, status, awaited, binding, current, home, target, failed>>

(* Of one that main() awaits, create() rejects, or the first event is an   *)
(* error: process.exit(1).                                                 *)
StartFails(i) ==
    /\ phase = "starting"
    /\ i \in awaited
    /\ Dies("error")

CreationFails(i) ==
    /\ i \notin awaited
    /\ CreateFails(i)
    /\ UNCHANGED <<phase, status, awaited, binding, poolsVars>>

(* With the last instance that main() awaits, the handlers are installed. *)
InstanceReady(i) ==
    /\ Ready(i)
    /\ awaited' = awaited \ {i}
    /\ phase' = IF phase = "starting" /\ awaited' = {} THEN "running" ELSE phase
    /\ UNCHANGED <<status, binding, poolsVars>>

(* After an exit() of the pool, the event still finds its listeners. *)
ProcessEnds(i) ==
    /\ Close(i) \/ Deleted(i) \/ DeleteFails(i)
    /\ UNCHANGED <<phase, status, awaited, binding, poolsVars>>

-----------------------------------------------------------------------------
Idle(c) == target[c] = 0 /\ exiting[c] = {}

(* exit() of pool p, up to its await. *)
ExitOf(c, p) ==
    /\ Idle(c)
    /\ ExitAll(c, members[p])
    /\ target' = [target EXCEPT ![c] = p]
    /\ UNCHANGED <<phase, status, awaited, binding, current, home, members, late>>

(* cleanUp, as the handler of a signal or with an uncaught exception. *)
CleanUp(c, error) ==
    /\ phase = "running"
    /\ c \in CleanUps
    /\ ExitOf(c, current)
    /\ failed' = IF error THEN failed \union {c} ELSE failed

Interrupted == phase # "running" /\ Dies("killed")

(* A server cannot bind: its error event has no listener, and is uncaught. *)
BindFails == binding # {} /\ phase # "running" /\ Dies("error")

Bound(s) ==
    /\ s \in binding
    /\ binding' = binding \ {s}
    /\ UNCHANGED <<processVars, phase, status, awaited, poolsVars>>

(* Mutated form: cleanUp is not installed as the handler of "exit". *)
QuitQuietly(c) ==
    /\ members' = [members EXCEPT ![target[c]] = {}]
    /\ status' = IF c \in failed THEN "error" ELSE "ok"
    /\ UNCHANGED <<processVars, phase, awaited, binding, current, home, target,
                   failed, late>>

(***************************************************************************)
(* What follows the await in cleanUp: the array is emptied and             *)
(* process.exit() called.  That emits "exit", whose handler is cleanUp     *)
(* again: what is synchronous of it signals the members of the current     *)
(* pool, which may be another one by now.                                  *)
(***************************************************************************)
Quit(c) ==
    /\ members' = [members EXCEPT ![target[c]] = {}]
    /\ killed' = killed \union members'[current]
    /\ status' = IF c \in failed THEN "error" ELSE "ok"
    /\ UNCHANGED <<stage, ready, directory, exiting, phase, awaited, binding,
                   current, home, target, failed, late>>

(* Mutated form: the exits are started and not awaited. *)
CleanUpDoneUnawaited(c) ==
    /\ c \in CleanUps /\ target[c] # 0
    /\ Quit(c)

(* Mutated form: the first cleanUp that could finish waits for the others. *)
CleanUpDoneLast(c) ==
    /\ c \in CleanUps /\ target[c] # 0
    /\ \A d \in CleanUps : exiting[d] = {}
    /\ Quit(c)

CleanUpDone(c) ==
    /\ c \in CleanUps /\ target[c] # 0
    /\ exiting[c] = {}
    /\ Quit(c)

-----------------------------------------------------------------------------
(* The RPC methods of the control server, once it listens. *)
CreateInstances(S) ==
    /\ phase # "binding"
    /\ CreateIn(S)
    /\ UNCHANGED <<phase, status, awaited, binding>>

(* removeInstances, removeInstanceAt, removeInstanceByName: first pool. *)
RemoveInstances(c, S) ==
    /\ Idle(c)
    /\ S \subseteq members[1]
    /\ ExitAll(c, S)
    /\ members' = [members EXCEPT ![1] = @ \ S]
    /\ UNCHANGED <<phase, status, awaited, binding, current, home, target, failed, late>>

(* closeInstances, of the first pool too, and its return. *)
CloseInstances(c) ==
    /\ phase # "binding"
    /\ ExitOf(c, 1)
    /\ UNCHANGED failed

InstancesClosed(c) ==
    /\ target[c] = 1
    /\ exiting[c] = {}
    /\ members' = [members EXCEPT ![1] = {}]
    /\ target' = [target EXCEPT ![c] = 0]
    /\ UNCHANGED <<processVars, phase, status, awaited, binding, current, home, failed, late>>

CreateTorPool ==
    /\ phase # "binding"
    /\ current < MaxPools
    /\ current' = current + 1
    /\ UNCHANGED <<processVars, phase, status, awaited, binding, home, members,
                   target, failed, late>>

(* createSocksServer, createHTTPServer, createDNSServer. *)
CreateServer(s) ==
    /\ phase # "binding"
    /\ binding' = binding \union {s}
    /\ UNCHANGED <<processVars, phase, status, awaited, poolsVars>>

-----------------------------------------------------------------------------
Starting ==
    \/ \E S \in SUBSET Instance, T \in SUBSET Server : ControlListens(S, T)
    \/ ControlFails
    \/ \E i \in Instance : StartFails(i)
    \/ Interrupted
    \/ BindFails

InstanceStep(i) ==
    \/ Pushed(i)
    \/ CreationFails(i)
    \/ InstanceReady(i)
    \/ ProcessEnds(i)

Rpc(c) ==
    \/ \E S \in SUBSET members[1] \ {{}} : RemoveInstances(c, S)
    \/ CloseInstances(c)
    \/ InstancesClosed(c)

Next ==
    /\ status = "up"
    /\ \/ Starting
       \/ \E i \in Instance : CreateInstances({i})
       \/ \E i \in Instance : InstanceStep(i)
       \/ \E c \in Call \ CleanUps : Rpc(c)
       \/ CreateTorPool
       \/ \E s \in Server : CreateServer(s) \/ Bound(s)
       \/ \E c \in CleanUps, error \in BOOLEAN : CleanUp(c, error)
       \/ \E c \in CleanUps : CleanUpDone(c)

(* What was signalled dies, the file system answers, promises continue. *)
Fairness ==
    /\ \A i \in Instance :
          /\ WF_appVars(status = "up" /\ i \in killed /\ stage[i] = "running" /\ ProcessEnds(i))
          /\ WF_appVars(status = "up" /\ stage[i] = "closed" /\ ProcessEnds(i))
    /\ \A c \in CleanUps : WF_appVars(status = "up" /\ CleanUpDone(c))

Spec == Init /\ [][Next]_appVars /\ Fairness

-----------------------------------------------------------------------------
(* cleanUp "kills all tor processes and exits": when the program has ended *)
(* by it, every Tor that runs was told to end, also where a second signal  *)
(* came, or the pool was replaced while the first was awaited.  Not so     *)
(* those of a pool that was replaced before any cleanUp, and those whose   *)
(* creation ended while exit() of their pool was awaited.                  *)
ShutdownSignalsAll ==
    phase = "running" /\ status # "up" =>
        \A i \in Instance :
            stage[i] = "running" /\ i \notin killed =>
                \/ i \in late
                \/ home[i] \notin {current} \union {target[c] : c \in CleanUps}

(* Exit status 0 comes from a cleanUp without an error, after every member *)
(* of the pool it closed is dead and, unless it has a Name, its directory  *)
(* deleted: nothing is left behind by a clean end.                         *)
CleanEndLeavesNothing ==
    [][status' = "ok" =>
          \E c \in CleanUps \ failed :
              /\ target[c] # 0
              /\ \A i \in members[target[c]] \ late :
                    stage[i] = "exited" /\ (i \in directory <=> i \in Named)]_appVars

(* A signal ends the program, and so does an exception, whatever comes     *)
(* while the members die: another signal, RPC calls, a new pool.  It takes *)
(* members whose process_exit is still to come, and deletions not refused. *)
CleanUpEnds ==
    \A c \in CleanUps :
        (target[c] # 0 /\ \A i \in exiting[c] : stage[i] \in {"running", "closed"})
            ~> (status # "up" \/ \E i \in Instance : stage[i] = "stuck")
=============================================================================
