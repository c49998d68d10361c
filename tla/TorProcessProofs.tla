-------------------------- MODULE TorProcessProofs --------------------------
(***************************************************************************)
(* The processes as everything that uses them sees them: ProcessSpec is    *)
(* the abstract specification that an instance by itself, under commands,  *)
(* in the pool and in the program implements, and what is proved of it     *)
(* here holds in all of them.                                              *)
(***************************************************************************)
EXTENDS TorProcess, TLAPS

(* Only an unnamed instance ever waits for a deletion.                     *)
DeletionsUnnamed ==
    \A i \in Instance : stage[i] \in {"closed", "stuck"} => i \notin Named

ProcessInv ==
    /\ ProcessTypeOK
    /\ DirectoryKept
    /\ DeletionsUnnamed

(* exit() of S without anybody left to await it, at the end of the program. *)
Signal(S) ==
    /\ killed' = killed \union S
    /\ UNCHANGED <<stage, ready, directory, exiting>>

(* Who calls create() and exit(), and on what, is left open; but a caller  *)
(* of exit() is back before it calls again.                                *)
ProcessMoves ==
    \/ \E S \in SUBSET Instance : Create(S)
    \/ \E i \in Instance : Spawn(i) \/ CreateFails(i) \/ Ready(i)
    \/ \E c \in Call, S \in SUBSET Instance : exiting[c] = {} /\ ExitAll(c, S)
    \/ \E S \in SUBSET Instance : Signal(S)
    \/ \E i \in Instance : Close(i) \/ Deleted(i) \/ DeleteFails(i)

ProcessSpec == ProcessInit /\ [][ProcessMoves]_processVars

(* A step that ends some exit() ends it truthfully.                        *)
ExitsTruthful ==
    \A c \in Call : \A i \in exiting[c] \ exiting'[c] :
        /\ stage'[i] = "exited"
        /\ i \in directory' <=> i \in Named

(* The invariant holds before anything is constructed.                     *)
LEMMA ProcessInvInit ==
    ASSUME ProcessInit
    PROVE  ProcessInv
BY DEF ProcessInit, ProcessInv, ProcessTypeOK, DirectoryKept, DeletionsUnnamed, Stages

(* Each step of a process keeps its directory where it belongs, and lets   *)
(* an exit() resolve only for a process that is dead.                      *)
LEMMA ProcessInvStep ==
    ASSUME ProcessInv, [ProcessMoves]_processVars
    PROVE  ProcessInv' /\ ExitsTruthful
<1> USE DEF ProcessInv
<1>1. CASE UNCHANGED processVars
  BY <1>1 DEF processVars, ProcessTypeOK, DirectoryKept, DeletionsUnnamed, ExitsTruthful
<1>2. ASSUME NEW S \in SUBSET Instance, Create(S)
      PROVE  ProcessInv' /\ ExitsTruthful
  BY <1>2 DEF Create, ProcessTypeOK, Stages, DirectoryKept, DeletionsUnnamed, ExitsTruthful
<1>3. ASSUME NEW i \in Instance, Spawn(i) \/ CreateFails(i) \/ Ready(i)
      PROVE  ProcessInv' /\ ExitsTruthful
  BY <1>3 DEF Spawn, CreateFails, Ready, ProcessTypeOK, Stages, DirectoryKept,
              DeletionsUnnamed, ExitsTruthful
<1>4. ASSUME NEW c \in Call, NEW S \in SUBSET Instance, exiting[c] = {}, ExitAll(c, S)
      PROVE  ProcessInv' /\ ExitsTruthful
  <2>1. ProcessInv'
    BY <1>4 DEF ExitAll, ProcessTypeOK, DirectoryKept, DeletionsUnnamed
  <2>2. ExitsTruthful
    BY <1>4 DEF ExitAll, ProcessTypeOK, ExitsTruthful
  <2>. QED
    BY <2>1, <2>2
<1>5. ASSUME NEW i \in Instance, Close(i)
      PROVE  ProcessInv' /\ ExitsTruthful
  <2>1. CASE i \in Named
    <3>1. /\ stage[i] = "running"
          /\ stage' = [stage EXCEPT ![i] = "exited"]
          /\ exiting' = [c \in Call |-> exiting[c] \ {i}]
          /\ UNCHANGED <<ready, killed, directory>>
      BY <1>5, <2>1 DEF Close, EmitProcessExit
    <3>2. ProcessInv'
      BY <2>1, <3>1 DEF ProcessTypeOK, Stages, DirectoryKept, DeletionsUnnamed
    <3>3. ExitsTruthful
      BY <2>1, <3>1 DEF ProcessTypeOK, DirectoryKept, ExitsTruthful
    <3>. QED
      BY <3>2, <3>3
  <2>2. CASE i \notin Named
    <3>1. /\ stage[i] = "running"
          /\ stage' = [stage EXCEPT ![i] = "closed"]
          /\ UNCHANGED <<ready, killed, directory, exiting>>
      BY <1>5, <2>2 DEF Close
    <3>. QED
      BY <2>2, <3>1 DEF ProcessTypeOK, Stages, DirectoryKept, DeletionsUnnamed, ExitsTruthful
  <2>. QED
    BY <2>1, <2>2
<1>6. ASSUME NEW i \in Instance, Deleted(i)
      PROVE  ProcessInv' /\ ExitsTruthful
  <2>1. /\ stage[i] = "closed"
        /\ stage' = [stage EXCEPT ![i] = "exited"]
        /\ directory' = directory \ {i}
        /\ exiting' = [c \in Call |-> exiting[c] \ {i}]
        /\ UNCHANGED <<ready, killed>>
    BY <1>6 DEF Deleted, EmitProcessExit
  <2>2. i \notin Named
    BY <2>1 DEF DeletionsUnnamed
  <2>3. ProcessInv'
    BY <2>1, <2>2 DEF ProcessTypeOK, Stages, DirectoryKept, DeletionsUnnamed
  <2>4. ExitsTruthful
    BY <2>1, <2>2 DEF ProcessTypeOK, ExitsTruthful
  <2>. QED
    BY <2>3, <2>4
<1>7. ASSUME NEW i \in Instance, DeleteFails(i)
      PROVE  ProcessInv' /\ ExitsTruthful
  BY <1>7 DEF DeleteFails, ProcessTypeOK, Stages, DirectoryKept, DeletionsUnnamed,
              ExitsTruthful
<1>8. ASSUME NEW S \in SUBSET Instance, Signal(S)
      PROVE  ProcessInv' /\ ExitsTruthful
  BY <1>8 DEF Signal, ProcessTypeOK, DirectoryKept, DeletionsUnnamed, ExitsTruthful
<1>. QED
  BY <1>1, <1>2, <1>3, <1>4, <1>5, <1>6, <1>7, <1>8 DEF ProcessMoves

-----------------------------------------------------------------------------
(* The processes keep their invariant, whoever uses them and how.          *)
THEOREM ProcessInvariant == ProcessSpec => []ProcessInv
<1>1. ProcessInit => ProcessInv
  BY ProcessInvInit
<1>2. ProcessInv /\ [ProcessMoves]_processVars => ProcessInv'
  BY ProcessInvStep
<1>. QED
  BY <1>1, <1>2, PTL DEF ProcessSpec

(* A data directory is there as long as its process, stays with a Name,    *)
(* and is gone after the exit of an unnamed instance.                      *)
THEOREM ProcessKeepsDirectory == ProcessSpec => []DirectoryKept
<1>1. ProcessInv => DirectoryKept
  BY DEF ProcessInv
<1>. QED
  BY <1>1, ProcessInvariant, PTL

(* An exit() that resolves does so for a process that is dead, and whose   *)
(* directory is deleted unless it has a Name.                              *)
THEOREM ProcessExitMeansDead == ProcessSpec => ExitResolvesDead
<1>1. ProcessInv /\ [ProcessMoves]_processVars
         => [\A c \in Call : \A i \in exiting[c] \ exiting'[c] :
                /\ stage'[i] = "exited"
                /\ i \in directory' <=> i \in Named]_processVars
  BY ProcessInvStep DEF ExitsTruthful
<1>. QED
  BY <1>1, ProcessInvariant, PTL DEF ProcessSpec, ExitResolvesDead

(* The other half of it, and the safety half of ExitSettles: process_exit  *)
(* leaves nobody behind who was waiting for it.                            *)
WaitersWoken ==
    [][\A c \in Call, i \in Instance :
            stage[i] # "exited" /\ stage'[i] = "exited" => i \notin exiting'[c]]_processVars

(* A step that ends a process for good wakes all who wait for it.          *)
LEMMA WakesAll ==
    ASSUME ProcessInv, ProcessMoves, NEW c \in Call, NEW i \in Instance,
           stage[i] # "exited", stage'[i] = "exited"
    PROVE  i \notin exiting'[c]
<1> USE DEF ProcessInv, ProcessTypeOK
<1>1. ASSUME NEW S \in SUBSET Instance, Create(S)
      PROVE  FALSE
  BY <1>1 DEF Create
<1>2. ASSUME NEW j \in Instance, Spawn(j) \/ CreateFails(j) \/ Ready(j) \/ DeleteFails(j)
      PROVE  FALSE
  BY <1>2 DEF Spawn, CreateFails, Ready, DeleteFails
<1>3. ASSUME NEW d \in Call, NEW S \in SUBSET Instance, ExitAll(d, S) \/ Signal(S)
      PROVE  FALSE
  BY <1>3 DEF ExitAll, Signal
<1>4. ASSUME NEW j \in Instance, Close(j) \/ Deleted(j)
      PROVE  i \notin exiting'[c]
  <2>1. /\ stage' = [stage EXCEPT ![j] = "exited"] /\ EmitProcessExit(j)
        \/ stage' = [stage EXCEPT ![j] = "closed"]
    BY <1>4 DEF Close, Deleted
  <2>2. i = j /\ EmitProcessExit(j)
    BY <2>1
  <2>. QED
    BY <2>2 DEF EmitProcessExit
<1>. QED
  BY <1>1, <1>2, <1>3, <1>4 DEF ProcessMoves

(* Whoever waits in exit() when process_exit is emitted is woken by it,    *)
(* however many callers wait, and whenever they came.                      *)
THEOREM ProcessExitWakesAll == ProcessSpec => WaitersWoken
<1>1. ProcessInv /\ [ProcessMoves]_processVars
         => [\A c \in Call, i \in Instance :
                stage[i] # "exited" /\ stage'[i] = "exited" => i \notin exiting'[c]]_processVars
  BY WakesAll
<1>. QED
  BY <1>1, ProcessInvariant, PTL DEF ProcessSpec, WaitersWoken
=============================================================================
