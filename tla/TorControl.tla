----------------------------- MODULE TorControl -----------------------------
(***************************************************************************)
(* The event handlers of TorProcess.js around the process of an instance:  *)
(* the stdout chunks it searches for markers, the flags they raise, and    *)
(* the control connection (a granax controller over a socket) opened when  *)
(* Tor says that it listens for one.  Instances are used by themselves     *)
(* here, as the tests of TorProcess use them.                              *)
(***************************************************************************)
EXTENDS TorProcess

CONSTANTS
    Ported,     \* the instances whose definition carries its ports
    Marker      \* what a chunk of stdout may hold, in this instance

ASSUME ControlAssumption ==
    /\ Ported \subseteq Instance
    /\ Marker \subseteq {"ready", "control", "socks", "dns", "err"}

VARIABLES
    flags,      \* the other public booleans of each instance that are true
    control     \* the controller of each instance and its socket

controlVars == <<stage, ready, killed, directory, exiting, flags, control>>

Flags == {"control", "socks", "dns", "control_port_connected"}
ControlStates == {"none", "connecting", "open", "authenticated", "refused", "lost"}

ControlTypeOK ==
    /\ ProcessTypeOK
    /\ flags \in [Instance -> SUBSET Flags]
    /\ control \in [Instance -> ControlStates]

Init ==
    /\ ProcessInit
    /\ flags = [i \in Instance |-> {}]
    /\ control = [i \in Instance |-> "none"]

-----------------------------------------------------------------------------
(* Mutated form: every marker of the chunk becomes a flag. *)
OutputRaisesAll(i, M) ==
    /\ stage[i] = "running"
    /\ flags' = [flags EXCEPT ![i] = @ \union M]
    /\ UNCHANGED <<processVars, control>>

(***************************************************************************)
(* One chunk of stdout holding the markers M.  Tor opens its control       *)
(* listener once.  A control connection is attempted at once, to           *)
(* this.control_port: undefined when the definition carried no ports,      *)
(* because create() keeps the ports it asked for in locals.                *)
(***************************************************************************)
Output(i, M) ==
    /\ stage[i] = "running"
    /\ "control" \in M => "control" \notin flags[i]
    /\ IF "ready" \in M THEN Ready(i) ELSE UNCHANGED processVars
    /\ flags' = [flags EXCEPT ![i] = @ \union (M \ {"ready", "err"})]
    /\ control' = IF "control" \in M THEN [control EXCEPT ![i] = "connecting"]
                                     ELSE control

(* The socket is connected: the controller is asked to authenticate. *)
ControllerReady(i) ==
    /\ control[i] = "connecting"
    /\ i \in Ported
    /\ control' = [control EXCEPT ![i] = "open"]
    /\ UNCHANGED <<processVars, flags>>

Authenticated(i) ==
    /\ control[i] = "open"
    /\ control' = [control EXCEPT ![i] = "authenticated"]
    /\ flags' = [flags EXCEPT ![i] = @ \union {"control_port_connected"}]
    /\ UNCHANGED processVars

AuthenticationFails(i) ==
    /\ control[i] = "open"
    /\ control' = [control EXCEPT ![i] = "refused"]
    /\ UNCHANGED <<processVars, flags>>

(* The socket errs or ends; no handler clears anything. *)
SocketLost(i) ==
    /\ control[i] \in {"connecting", "open", "authenticated", "refused"}
    /\ control' = [control EXCEPT ![i] = "lost"]
    /\ UNCHANGED <<processVars, flags>>

-----------------------------------------------------------------------------
Exit(c, i) ==
    /\ exiting[c] = {}
    /\ Spawned(i)
    /\ ExitAll(c, {i})

(* The steps of the process itself, which leave the connection alone. *)
ProcessStep(i) ==
    \/ Create({i})
    \/ Spawn(i)
    \/ CreateFails(i)
    \/ \E c \in Call : Exit(c, i)
    \/ Close(i)
    \/ Deleted(i)
    \/ DeleteFails(i)

Step(i) ==
    \/ ProcessStep(i) /\ UNCHANGED <<flags, control>>
    \/ \E M \in SUBSET Marker \ {{}} : Output(i, M)
    \/ ControllerReady(i)
    \/ Authenticated(i)
    \/ AuthenticationFails(i)
    \/ SocketLost(i)

Next == \E i \in Instance : Step(i)

(* A process that got SIGINT dies, and the file system answers. *)
Fairness ==
    \A i \in Instance :
        /\ WF_controlVars(i \in killed /\ Close(i) /\ UNCHANGED <<flags, control>>)
        /\ WF_controlVars((Deleted(i) \/ DeleteFails(i)) /\ UNCHANGED <<flags, control>>)

Spec == Init /\ [][Next]_controlVars /\ Fairness

=============================================================================
