----------------------------- MODULE TorProcess -----------------------------
(***************************************************************************)
(* The life of one Tor child process per instance, as TorProcess.js drives *)
(* it: create() awaits ports and a torrc file and then spawns; Tor reports *)
(* that it has bootstrapped; exit() sends SIGINT and waits for the         *)
(* process_exit event, which an unnamed instance emits only after it has   *)
(* deleted its data directory.  This module has the state and the actions; *)
(* TorControl and TorPool extend it and say who calls them.                *)
(*                                                                         *)
(* Everything runs on the one JavaScript thread, so an action is one       *)
(* macrotask: what happens between two awaits, or in one event handler.    *)
(***************************************************************************)
EXTENDS FiniteSets

CONSTANTS
    Instance,   \* the TorProcess objects that may ever be constructed
    Call,       \* the concurrent callers of exit()
    Named       \* the instances whose definition has a Name

ASSUME ProcessAssumption == Named \subseteq Instance

VARIABLES
    stage,      \* where the life of each instance stands, see Stages
    ready,      \* the instances whose ready event has fired
    killed,     \* the instances whose process was sent SIGINT
    directory,  \* the instances whose data directory exists
    exiting     \* the process_exit events each caller of exit() awaits

processVars == <<stage, ready, killed, directory, exiting>>

(***************************************************************************)
(* "new" is before the constructor; "creating" is inside create(), before  *)
(* spawn; "closed" is after the child's close event, while an unnamed      *)
(* instance deletes its directory; "exited" is after process_exit; "stuck" *)
(* is after a refused deletion (the close handler rejected and emitted     *)
(* nothing); "failed" is after a rejected create().                        *)
(***************************************************************************)
Stages == {"new", "creating", "running", "closed", "exited", "stuck", "failed"}

(* instance.process is set: there is something to signal and to wait for. *)
Spawned(i) == stage[i] \in {"running", "closed", "exited", "stuck"}

ProcessTypeOK ==
    /\ stage \in [Instance -> Stages]
    /\ ready \subseteq Instance
    /\ killed \subseteq Instance
    /\ directory \subseteq Instance
    /\ exiting \in [Call -> SUBSET Instance]

ProcessInit ==
    /\ stage = [i \in Instance |-> "new"]
    /\ ready = {}
    /\ killed = {}
    /\ directory = {}
    /\ exiting = [c \in Call |-> {}]

-----------------------------------------------------------------------------
(* The constructors of S make their directories; create() asks for ports. *)
Create(S) ==
    /\ \A i \in S : stage[i] = "new"
    /\ stage' = [i \in Instance |-> IF i \in S THEN "creating" ELSE stage[i]]
    /\ directory' = directory \union S
    /\ UNCHANGED <<ready, killed, exiting>>

(* The torrc is written: spawn, and create() resolves. *)
Spawn(i) ==
    /\ stage[i] = "creating"
    /\ stage' = [stage EXCEPT ![i] = "running"]
    /\ UNCHANGED <<ready, killed, directory, exiting>>

(* getPort, temp.open or writeFile rejected, and so does create(). *)
CreateFails(i) ==
    /\ stage[i] = "creating"
    /\ stage' = [stage EXCEPT ![i] = "failed"]
    /\ UNCHANGED <<ready, killed, directory, exiting>>

(* A chunk of stdout says that Tor has bootstrapped. *)
Ready(i) ==
    /\ stage[i] = "running"
    /\ ready' = ready \union {i}
    /\ UNCHANGED <<stage, killed, directory, exiting>>

(* c calls exit() on each of S and awaits them all. *)
ExitAll(c, S) ==
    /\ exiting' = [exiting EXCEPT ![c] = S]
    /\ killed' = killed \union S
    /\ UNCHANGED <<stage, ready, directory>>

(* Mutated form: one slot for the listener instead of a list of them. *)
EmitToOneListener(i) ==
    \E c \in Call : exiting' = [exiting EXCEPT ![c] = @ \ {i}]

(* emit('process_exit'): every exit() waiting for i resolves. *)
EmitProcessExit(i) == exiting' = [c \in Call |-> exiting[c] \ {i}]

(* Mutated form: process_exit is emitted before the deletion is awaited. *)
CloseWithoutAwait(i) ==
    /\ stage[i] = "running"
    /\ stage' = [stage EXCEPT ![i] = IF i \in Named THEN "exited" ELSE "closed"]
    /\ EmitProcessExit(i)
    /\ UNCHANGED <<ready, killed, directory>>

(* Mutated form: the Name of the definition is not looked at. *)
CloseAlwaysDeletes(i) ==
    /\ stage[i] = "running"
    /\ stage' = [stage EXCEPT ![i] = "closed"]
    /\ UNCHANGED <<ready, killed, directory, exiting>>

(* The close event of the child: it died, of SIGINT or by itself. *)
Close(i) ==
    /\ stage[i] = "running"
    /\ IF i \in Named
       THEN /\ stage' = [stage EXCEPT ![i] = "exited"]
            /\ EmitProcessExit(i)
       ELSE /\ stage' = [stage EXCEPT ![i] = "closed"]
            /\ UNCHANGED exiting
    /\ UNCHANGED <<ready, killed, directory>>

(* The deletion the close handler awaits is done. *)
Deleted(i) ==
    /\ stage[i] = "closed"
    /\ stage' = [stage EXCEPT ![i] = "exited"]
    /\ directory' = directory \ {i}
    /\ EmitProcessExit(i)
    /\ UNCHANGED <<ready, killed>>

(* It was refused: the handler rejects, and process_exit is never emitted. *)
DeleteFails(i) ==
    /\ stage[i] = "closed"
    /\ stage' = [stage EXCEPT ![i] = "stuck"]
    /\ UNCHANGED <<ready, killed, directory, exiting>>

-----------------------------------------------------------------------------
(* An exit() resolves only when the process it waited for is dead and, for *)
(* an unnamed instance, its directory deleted: the close handler awaits    *)
(* the deletion before it emits process_exit.                              *)
ExitResolvesDead ==
    [][\A c \in Call : \A i \in exiting[c] \ exiting'[c] :
            /\ stage'[i] = "exited"
            /\ i \in directory' <=> i \in Named]_processVars

(* A data directory outlives its instance only where that is meant: no     *)
(* unnamed instance that has emitted process_exit leaves its own behind,   *)
(* a Name keeps it, and no directory goes while its process runs.          *)
DirectoryKept ==
    \A i \in Instance :
        /\ stage[i] = "exited" => (i \in directory <=> i \in Named)
        /\ stage[i] \in {"creating", "running", "closed", "stuck"} => i \in directory

(* Two callers may wait for one process, and one may come while the        *)
(* directory is being deleted: as long as process_exit is still to come    *)
(* when exit() is called, every waiter resolves, unless the deletion is    *)
(* refused.                                                                *)
ExitSettles ==
    \A c \in Call, i \in Instance :
        (i \in exiting[c] /\ stage[i] \in {"running", "closed"})
            ~> (i \notin exiting[c] \/ stage[i] = "stuck")
=============================================================================
