-------------------------- MODULE ApplicationProofs --------------------------
(***************************************************************************)
(* What the end of the program leaves behind, for any number of instances, *)
(* pools, signals and RPC clients.                                         *)
(*                                                                         *)
(* ShutdownSignalsAll is not inductive: that no Tor of a pool is missed    *)
(* when the program ends has to be known of every pool whose exit() is     *)
(* under way (Signalled), and that follows, when exit() is called, from    *)
(* every running Tor being in the array of its pool (Tracked).             *)
(***************************************************************************)
EXTENDS Application, TorProcessProofs

(* A Tor that runs and was not told to end can be found: it is in the      *)
(* array of its pool, or came while that pool was being closed.            *)
Tracked ==
    \A i \in Instance :
        /\ stage[i] # "new" => home[i] \in Pool
        /\ stage[i] = "running" /\ i \notin killed =>
              i \in late \/ i \in members[home[i]]

(* Of a pool whose exit() is under way every Tor was signalled, but those  *)
(* that came later.                                                        *)
Signalled ==
    \A c \in Call, i \in Instance :
        stage[i] = "running" /\ target[c] # 0 /\ home[i] = target[c] =>
            i \in killed \/ i \in late

(* Who closes a pool awaits each member until it is dead.                  *)
Awaiting ==
    \A c \in Call : target[c] # 0 =>
        \A i \in members[target[c]] :
            i \in late \/ i \in exiting[c] \/ stage[i] = "exited"

(* All that does not speak of the end of the program.                      *)
AppCore ==
    /\ AppTypeOK
    /\ ProcessInv
    /\ Tracked
    /\ Signalled
    /\ Awaiting

AppInv == AppCore /\ ShutdownSignalsAll

(* The variables main() and the servers use, and nothing of the pools.     *)
MainTyped ==
    /\ phase \in Phases
    /\ status \in Statuses
    /\ awaited \subseteq Instance
    /\ binding \subseteq Server

(* Before main() has done anything.                                        *)
LEMMA AppInvInit ==
    ASSUME Init
    PROVE  AppInv
<1>1. ProcessInv
  BY ProcessInvInit DEF Init
<1>2. 1 \in Pool
  BY ApplicationAssumption DEF Pool
<1>3. AppTypeOK
  BY <1>1, <1>2 DEF Init, AppTypeOK, ProcessInv, Phases, Statuses
<1>4. Tracked /\ Signalled /\ Awaiting /\ ShutdownSignalsAll
  BY DEF Init, ProcessInit, Tracked, Signalled, Awaiting, ShutdownSignalsAll
<1>. QED
  BY <1>1, <1>3, <1>4 DEF AppInv, AppCore

-----------------------------------------------------------------------------
(* Steps of main() and of the servers alone.                               *)
LEMMA MainKeepsCore ==
    ASSUME AppCore, MainTyped', UNCHANGED <<processVars, poolsVars>>
    PROVE  AppCore'
<1> USE DEF AppCore, processVars, poolsVars
<1>1. ProcessInv'
  BY ProcessInvStep
<1>2. AppTypeOK'
  BY <1>1 DEF AppTypeOK, MainTyped, ProcessInv, Spawned
<1>. QED
  BY <1>1, <1>2 DEF Tracked, Signalled, Awaiting

(* Instances are created in the current pool, not yet in its array.        *)
LEMMA CreationKeepsCore ==
    ASSUME AppCore, MainTyped', NEW S \in SUBSET Instance, CreateIn(S)
    PROVE  AppCore'
<1> USE DEF AppCore
<1>1. ProcessInv'
  BY ProcessInvStep DEF CreateIn, ProcessMoves
<1>2. /\ \A i \in S : stage[i] = "new"
      /\ stage' = [i \in Instance |-> IF i \in S THEN "creating" ELSE stage[i]]
      /\ home' = [i \in Instance |-> IF i \in S THEN current ELSE home[i]]
      /\ UNCHANGED <<killed, exiting, current, members, target, failed, late>>
  BY DEF CreateIn, Create
<1>3. \A p \in Pool : members[p] \subseteq Instance
  BY DEF AppTypeOK
<1>4. \A p \in Pool : \A i \in members[p] : home'[i] = p /\ Spawned(i)'
  BY <1>2, <1>3 DEF AppTypeOK, Spawned
<1>5. AppTypeOK'
  BY <1>1, <1>2, <1>4 DEF AppTypeOK, MainTyped, ProcessInv
<1>6. Tracked'
  BY <1>2 DEF Tracked, AppTypeOK
<1>7. Signalled'
  BY <1>2 DEF Signalled, AppTypeOK
<1>8. Awaiting'
  BY <1>2, <1>3 DEF Awaiting, AppTypeOK
<1>. QED
  BY <1>1, <1>5, <1>6, <1>7, <1>8

(* One is pushed to the array of its pool: late, if that is being closed.  *)
LEMMA PushKeepsCore ==
    ASSUME AppCore, NEW i \in Instance, Pushed(i)
    PROVE  AppCore'
<1> USE DEF AppCore
<1>1. ProcessInv'
  BY ProcessInvStep DEF Pushed, ProcessMoves
<1>2. /\ stage[i] = "creating"
      /\ stage' = [stage EXCEPT ![i] = "running"]
      /\ members' = [members EXCEPT ![home[i]] = @ \union {i}]
      /\ late' = IF \E c \in Call : target[c] = home[i] THEN late \union {i} ELSE late
      /\ UNCHANGED <<killed, exiting, phase, status, awaited, binding, current, home,
                     target, failed>>
  BY DEF Pushed, Spawn
<1>3. home[i] \in Pool /\ 0 \notin Pool
  BY <1>2 DEF Tracked, Pool
<1>4. \A p \in Pool : members'[p] = IF p = home[i] THEN members[p] \union {i} ELSE members[p]
  BY <1>2 DEF AppTypeOK
<1>5. members' \in [Pool -> SUBSET Instance]
  BY <1>2 DEF AppTypeOK
<1>6. ASSUME NEW p \in Pool, NEW j \in members'[p]
      PROVE  home'[j] = p /\ Spawned(j)'
  BY <1>2, <1>4 DEF AppTypeOK, ProcessTypeOK, Spawned
<1>7. AppTypeOK'
  BY <1>1, <1>2, <1>5, <1>6 DEF AppTypeOK, ProcessInv
<1>8. Tracked'
  BY <1>2, <1>3, <1>4 DEF Tracked, AppTypeOK, ProcessTypeOK
<1>9. Signalled'
  BY <1>2 DEF Signalled, AppTypeOK, ProcessTypeOK
<1>10. Awaiting'
  <2>1. ASSUME NEW c \in Call, target'[c] # 0, NEW j \in members'[target'[c]]
        PROVE  j \in late' \/ j \in exiting'[c] \/ stage'[j] = "exited"
    <3>1. target[c] \in Pool /\ target'[c] = target[c]
      BY <1>2, <2>1 DEF AppTypeOK
    <3>2. CASE j = i /\ target[c] = home[i]
      BY <1>2, <3>2
    <3>3. CASE j \in members[target[c]]
      BY <1>2, <2>1, <3>1, <3>3 DEF Awaiting, AppTypeOK, ProcessTypeOK
    <3>. QED
      BY <1>4, <2>1, <3>1, <3>2, <3>3
  <2>. QED
    BY <2>1 DEF Awaiting
<1>. QED
  BY <1>1, <1>7, <1>8, <1>9, <1>10

(* A process that ends, or says that it has bootstrapped, wakes those who  *)
(* await it, and moves in no array.                                        *)
LEMMA ProcessKeepsCore ==
    ASSUME AppCore, MainTyped', NEW i \in Instance, UNCHANGED poolsVars,
           CreateFails(i) \/ Ready(i) \/ Close(i) \/ Deleted(i) \/ DeleteFails(i)
    PROVE  AppCore'
<1> USE DEF AppCore, poolsVars
<1>1. ProcessInv'
  BY ProcessInvStep DEF ProcessMoves
<1>2. /\ killed' = killed
      /\ \A j \in Instance : stage[j] # "running" => stage'[j] # "running"
      /\ \A j \in Instance : stage'[j] # "new" => stage[j] # "new"
      /\ \A j \in Instance : Spawned(j) => Spawned(j)'
      /\ \A j \in Instance : stage[j] = "exited" => stage'[j] = "exited"
      /\ \A c \in Call, j \in Instance :
            j \in exiting[c] => j \in exiting'[c] \/ stage'[j] = "exited"
  <2>1. CASE CreateFails(i) \/ Ready(i) \/ DeleteFails(i)
    BY <2>1 DEF CreateFails, Ready, DeleteFails, Spawned, AppTypeOK, ProcessTypeOK
  <2>2. CASE Close(i)
    BY <2>2 DEF Close, EmitProcessExit, Spawned, AppTypeOK, ProcessTypeOK
  <2>3. CASE Deleted(i)
    BY <2>3 DEF Deleted, EmitProcessExit, Spawned, AppTypeOK, ProcessTypeOK
  <2>. QED
    BY <2>1, <2>2, <2>3
<1>3. \A p \in Pool : \A j \in members[p] : j \in Instance /\ Spawned(j)'
  BY <1>2 DEF AppTypeOK
<1>4. AppTypeOK'
  BY <1>1, <1>3 DEF AppTypeOK, MainTyped, ProcessInv
<1>5. Tracked'
  BY <1>2 DEF Tracked
<1>6. Signalled'
  BY <1>2 DEF Signalled
<1>7. Awaiting'
  BY <1>2, <1>3 DEF Awaiting, AppTypeOK
<1>. QED
  BY <1>1, <1>4, <1>5, <1>6, <1>7

(* exit() of a pool signals and awaits all of its array at once: that the  *)
(* array holds every Tor still to be signalled makes the pool Signalled.   *)
LEMMA ExitKeepsCore ==
    ASSUME AppCore, NEW c \in Call, NEW p \in Pool, ExitOf(c, p), failed' \subseteq CleanUps
    PROVE  AppCore'
<1> USE DEF AppCore
<1>1. members[p] \in SUBSET Instance
  BY DEF AppTypeOK
<1>2. ProcessInv'
  BY <1>1, ProcessInvStep DEF ExitOf, Idle, ProcessMoves
<1>3. /\ exiting' = [exiting EXCEPT ![c] = members[p]]
      /\ killed' = killed \union members[p]
      /\ target' = [target EXCEPT ![c] = p]
      /\ UNCHANGED <<stage, phase, status, awaited, binding, current, home, members, late>>
  BY DEF ExitOf, ExitAll
<1>4. AppTypeOK'
  BY <1>2, <1>3 DEF AppTypeOK, ProcessInv, Spawned
<1>5. Tracked'
  BY <1>3 DEF Tracked
<1>6. Signalled'
  BY <1>3 DEF Signalled, Tracked, AppTypeOK
<1>7. Awaiting'
  BY <1>3 DEF Awaiting, AppTypeOK, ProcessTypeOK
<1>. QED
  BY <1>2, <1>4, <1>5, <1>6, <1>7

(* What is removed from the first pool is signalled before it is gone.     *)
LEMMA RemovalKeepsCore ==
    ASSUME AppCore, NEW c \in Call, NEW S, RemoveInstances(c, S)
    PROVE  AppCore'
<1> USE DEF AppCore
<1>1. 1 \in Pool
  BY ApplicationAssumption DEF Pool
<1>2. /\ target[c] = 0 /\ exiting[c] = {}
      /\ S \subseteq members[1]
      /\ exiting' = [exiting EXCEPT ![c] = S]
      /\ killed' = killed \union S
      /\ members' = [members EXCEPT ![1] = @ \ S]
      /\ UNCHANGED <<stage, phase, status, awaited, binding, current, home, target,
                     failed, late>>
  BY DEF RemoveInstances, ExitAll, Idle
<1>3. S \in SUBSET Instance
  BY <1>1, <1>2 DEF AppTypeOK
<1>4. ProcessInv'
  BY <1>2, <1>3, ProcessInvStep DEF RemoveInstances, ProcessMoves
<1>5. \A q \in Pool : members'[q] = IF q = 1 THEN members[q] \ S ELSE members[q]
  BY <1>2 DEF AppTypeOK
<1>6. members' \in [Pool -> SUBSET Instance]
  BY <1>2 DEF AppTypeOK
<1>7. AppTypeOK'
  BY <1>2, <1>4, <1>5, <1>6 DEF AppTypeOK, ProcessInv, Spawned
<1>8. Tracked'
  BY <1>2, <1>5 DEF Tracked
<1>9. Signalled'
  BY <1>2 DEF Signalled
<1>10. Awaiting'
  BY <1>2, <1>5 DEF Awaiting, AppTypeOK, ProcessTypeOK
<1>. QED
  BY <1>4, <1>7, <1>8, <1>9, <1>10

(* The array of a closed pool is emptied: of what was in it nobody runs    *)
(* unsignalled, and so nobody is lost.                                     *)
LEMMA EmptyingKeepsTracked ==
    ASSUME AppCore, NEW c \in Call, target[c] # 0,
           members' = [members EXCEPT ![target[c]] = {}],
           killed \subseteq killed',
           UNCHANGED <<stage, home, late>>
    PROVE  /\ members' \in [Pool -> SUBSET Instance]
           /\ \A p \in Pool : members'[p] = IF p = target[c] THEN {} ELSE members[p]
           /\ Tracked'
<1> USE DEF AppCore
<1>1. /\ members' \in [Pool -> SUBSET Instance]
      /\ \A p \in Pool : members'[p] = IF p = target[c] THEN {} ELSE members[p]
  BY DEF AppTypeOK
<1>2. Tracked'
  <2>1. ASSUME NEW i \in Instance, stage'[i] = "running", i \notin killed', i \notin late'
        PROVE  i \in members'[home'[i]]
    <3>1. stage[i] = "running" /\ i \notin killed /\ i \notin late
      BY <2>1
    <3>2. i \in members[home[i]] /\ home[i] \in Pool
      BY <3>1 DEF Tracked
    <3>3. home[i] # target[c]
      BY <3>1 DEF Signalled
    <3>. QED
      BY <1>1, <3>2, <3>3
  <2>. QED
    BY <2>1 DEF Tracked
<1>. QED
  BY <1>1, <1>2

(* closeInstances returns. *)
LEMMA ClosedKeepsCore ==
    ASSUME AppCore, NEW c \in Call, InstancesClosed(c)
    PROVE  AppCore'
<1> USE DEF AppCore
<1>1. /\ target[c] = 1
      /\ members' = [members EXCEPT ![target[c]] = {}]
      /\ target' = [target EXCEPT ![c] = 0]
      /\ UNCHANGED <<stage, ready, killed, directory, exiting, phase, status, awaited,
                     binding, current, home, failed, late>>
  BY DEF InstancesClosed, processVars
<1>2. /\ members' \in [Pool -> SUBSET Instance]
      /\ \A p \in Pool : members'[p] = IF p = target[c] THEN {} ELSE members[p]
      /\ Tracked'
  <2>1. /\ target[c] # 0 /\ killed \subseteq killed'
        /\ members' = [members EXCEPT ![target[c]] = {}]
        /\ UNCHANGED <<stage, home, late>>
    BY <1>1
  <2>. QED
    BY <2>1, EmptyingKeepsTracked
<1>3. ProcessInv'
  BY <1>1, ProcessInvStep DEF processVars
<1>4. target' \in [Call -> {0} \union Pool]
  BY <1>1 DEF AppTypeOK
<1>5. AppTypeOK'
  BY <1>1, <1>2, <1>3, <1>4 DEF AppTypeOK, ProcessInv, Spawned
<1>6. \A d \in Call : target'[d] # 0 => target'[d] = target[d]
  BY <1>1 DEF AppTypeOK
<1>7. Signalled'
  BY <1>1, <1>6 DEF Signalled
<1>8. Awaiting'
  <2>1. ASSUME NEW d \in Call, target'[d] # 0, NEW i \in members'[target'[d]]
        PROVE  i \in late' \/ i \in exiting'[d] \/ stage'[i] = "exited"
    <3>1. target[d] \in Pool /\ target[d] # 0 /\ i \in members[target[d]]
      BY <1>2, <1>6, <2>1 DEF AppTypeOK
    <3>. QED
      BY <1>1, <3>1 DEF Awaiting
  <2>. QED
    BY <2>1 DEF Awaiting
<1>. QED
  BY <1>2, <1>3, <1>5, <1>7, <1>8

(* The end: the last signals go to the pool that is the current one now.   *)
LEMMA QuitKeepsInv ==
    ASSUME AppCore, NEW c \in CleanUps, target[c] # 0, Quit(c)
    PROVE  AppInv'
<1> USE DEF AppCore
<1>1. c \in Call /\ CleanUps \subseteq Call
  BY ApplicationAssumption
<1>2. /\ members' = [members EXCEPT ![target[c]] = {}]
      /\ killed' = killed \union members'[current]
      /\ status' = IF c \in failed THEN "error" ELSE "ok"
      /\ UNCHANGED <<stage, ready, directory, exiting, phase, awaited, binding,
                     current, home, target, failed, late>>
  BY DEF Quit
<1>3. /\ members' \in [Pool -> SUBSET Instance]
      /\ \A p \in Pool : members'[p] = IF p = target[c] THEN {} ELSE members[p]
      /\ Tracked'
  BY <1>1, <1>2, EmptyingKeepsTracked
<1>4. current \in Pool /\ killed' \subseteq Instance
  BY <1>2, <1>3 DEF AppTypeOK, ProcessTypeOK
<1>5. ProcessInv'
  BY <1>2, <1>4 DEF ProcessInv, ProcessTypeOK, DirectoryKept, DeletionsUnnamed
<1>6. AppTypeOK'
  BY <1>2, <1>3, <1>4, <1>5 DEF AppTypeOK, ProcessInv, Statuses, Spawned
<1>7. Signalled'
  BY <1>2 DEF Signalled
<1>8. Awaiting'
  BY <1>2, <1>3 DEF Awaiting, AppTypeOK
<1>9. ShutdownSignalsAll'
  <2>1. ASSUME NEW i \in Instance, stage'[i] = "running", i \notin killed', i \notin late',
               home'[i] \in {current'} \union {target'[d] : d \in CleanUps}
        PROVE  FALSE
    <3>1. i \in members'[home[i]] /\ home[i] \in Pool /\ home[i] # 0
      BY <1>2, <1>3, <2>1 DEF Tracked, Pool
    <3>2. CASE home[i] = current
      BY <1>2, <2>1, <3>1, <3>2
    <3>3. ASSUME NEW d \in CleanUps, home[i] = target[d]
          PROVE  FALSE
      BY <1>1, <1>2, <2>1, <3>1, <3>3 DEF Signalled
    <3>. QED
      BY <1>2, <2>1, <3>2, <3>3
  <2>. QED
    BY <2>1 DEF ShutdownSignalsAll
<1>. QED
  BY <1>3, <1>5, <1>6, <1>7, <1>8, <1>9 DEF AppInv

-----------------------------------------------------------------------------
(* Every step: those of main() and of the servers, the instances, the RPC  *)
(* clients and the cleanUps.                                               *)
LEMMA AppInvStep ==
    ASSUME AppInv, [Next]_appVars
    PROVE  AppInv'
<1> USE DEF AppInv
<1>1. CASE UNCHANGED appVars
  <2>1. MainTyped'
    BY <1>1 DEF appVars, AppCore, AppTypeOK, MainTyped
  <2>2. AppCore'
    BY <1>1, <2>1, MainKeepsCore DEF appVars
  <2>3. ShutdownSignalsAll'
    BY <1>1 DEF appVars, processVars, poolsVars, ShutdownSignalsAll
  <2>. QED
    BY <2>2, <2>3
<1>2. MainTyped /\ CleanUps \subseteq Call
  BY ApplicationAssumption DEF AppCore, AppTypeOK, MainTyped
<1>3. SUFFICES ASSUME status = "up", Next
               PROVE  AppInv'
  BY <1>1 DEF Next
<1>4. ASSUME status' = "up"
      PROVE  ShutdownSignalsAll'
  BY <1>4 DEF ShutdownSignalsAll
<1>5. ASSUME NEW how \in Statuses, Dies(how)
      PROVE  AppInv'
  <2>1. MainTyped' /\ UNCHANGED <<processVars, poolsVars>> /\ phase' # "running"
    BY <1>2, <1>5 DEF Dies, MainTyped
  <2>2. AppCore'
    BY <2>1, MainKeepsCore
  <2>3. ShutdownSignalsAll'
    BY <2>1 DEF ShutdownSignalsAll
  <2>. QED
    BY <2>2, <2>3
<1>6. CASE Starting
  <2>1. ASSUME NEW S \in SUBSET Instance, NEW T \in SUBSET Server, ControlListens(S, T)
        PROVE  AppInv'
    <3>1. MainTyped' /\ status' = "up" /\ CreateIn(S)
      BY <1>2, <1>3, <2>1 DEF ControlListens, MainTyped, Phases
    <3>. QED
      BY <1>4, <3>1, CreationKeepsCore
  <2>2. CASE ControlFails \/ Interrupted \/ BindFails \/ \E i \in Instance : StartFails(i)
    BY <1>5, <2>2 DEF ControlFails, Interrupted, BindFails, StartFails, Statuses
  <2>. QED
    BY <1>6, <2>1, <2>2 DEF Starting
<1>7. ASSUME NEW i \in Instance, CreateInstances({i})
      PROVE  AppInv'
  <2>1. MainTyped' /\ status' = "up" /\ CreateIn({i}) /\ {i} \in SUBSET Instance
    BY <1>2, <1>3, <1>7 DEF CreateInstances, MainTyped
  <2>. QED
    BY <1>4, <2>1, CreationKeepsCore
<1>8. ASSUME NEW i \in Instance, InstanceStep(i)
      PROVE  AppInv'
  <2>1. CASE Pushed(i)
    <3>1. status' = "up"
      BY <1>3, <2>1 DEF Pushed
    <3>. QED
      BY <1>4, <2>1, <3>1, PushKeepsCore
  <2>2. CASE CreationFails(i) \/ InstanceReady(i) \/ ProcessEnds(i)
    <3>1. MainTyped' /\ status' = "up" /\ UNCHANGED poolsVars
      BY <1>2, <1>3, <2>2 DEF CreationFails, InstanceReady, ProcessEnds, MainTyped, Phases
    <3>2. CreateFails(i) \/ Ready(i) \/ Close(i) \/ Deleted(i) \/ DeleteFails(i)
      BY <2>2 DEF CreationFails, InstanceReady, ProcessEnds
    <3>. QED
      BY <1>4, <3>1, <3>2, ProcessKeepsCore
  <2>. QED
    BY <1>8, <2>1, <2>2 DEF InstanceStep
<1>9. ASSUME NEW c \in Call, Rpc(c)
      PROVE  AppInv'
  <2>1. ASSUME NEW S, RemoveInstances(c, S)
        PROVE  AppInv'
    <3>1. status' = "up"
      BY <1>3, <2>1 DEF RemoveInstances
    <3>. QED
      BY <1>4, <2>1, <3>1, RemovalKeepsCore
  <2>2. CASE CloseInstances(c)
    <3>1. 1 \in Pool
      BY ApplicationAssumption DEF Pool
    <3>2. ExitOf(c, 1) /\ status' = "up" /\ failed' \subseteq CleanUps
      BY <1>3, <2>2 DEF CloseInstances, ExitOf, AppCore, AppTypeOK
    <3>. QED
      BY <1>4, <3>1, <3>2, ExitKeepsCore
  <2>3. CASE InstancesClosed(c)
    <3>1. status' = "up"
      BY <1>3, <2>3 DEF InstancesClosed
    <3>. QED
      BY <1>4, <2>3, <3>1, ClosedKeepsCore
  <2>. QED
    BY <1>9, <2>1, <2>2, <2>3 DEF Rpc
<1>10. CASE CreateTorPool
  <2>1. /\ current' \in Pool
        /\ UNCHANGED <<stage, ready, killed, directory, exiting, phase, status, awaited,
                       binding, home, members, target, failed, late>>
    BY <1>10, ApplicationAssumption DEF CreateTorPool, processVars, Pool, AppCore, AppTypeOK
  <2>2. ProcessInv'
    BY <2>1, ProcessInvStep DEF AppCore, processVars
  <2>3. AppTypeOK'
    BY <2>1, <2>2 DEF AppCore, AppTypeOK, ProcessInv, Spawned
  <2>4. Tracked' /\ Signalled' /\ Awaiting'
    BY <2>1 DEF AppCore, Tracked, Signalled, Awaiting
  <2>. QED
    BY <1>3, <1>4, <2>1, <2>2, <2>3, <2>4 DEF AppCore
<1>11. ASSUME NEW s \in Server, CreateServer(s) \/ Bound(s)
       PROVE  AppInv'
  <2>1. MainTyped' /\ status' = "up" /\ UNCHANGED <<processVars, poolsVars>>
    BY <1>2, <1>3, <1>11 DEF CreateServer, Bound, MainTyped
  <2>. QED
    BY <1>4, <2>1, MainKeepsCore
<1>12. ASSUME NEW c \in CleanUps, NEW error \in BOOLEAN, CleanUp(c, error)
       PROVE  AppInv'
  <2>1. ExitOf(c, current) /\ status' = "up" /\ failed' \subseteq CleanUps
    BY <1>3, <1>12 DEF CleanUp, ExitOf, AppCore, AppTypeOK
  <2>2. c \in Call /\ current \in Pool
    BY <1>2 DEF AppCore, AppTypeOK
  <2>. QED
    BY <1>4, <2>1, <2>2, ExitKeepsCore
<1>13. ASSUME NEW c \in CleanUps, CleanUpDone(c)
       PROVE  AppInv'
  BY <1>13, QuitKeepsInv DEF CleanUpDone
<1>. QED
  BY <1>3, <1>6, <1>7, <1>8, <1>9, <1>10, <1>11, <1>12, <1>13 DEF Next

(* The invariant, whatever signals, exceptions and RPC calls come.         *)
THEOREM AppInvariant == Spec => []AppInv
<1>1. Init => AppInv
  BY AppInvInit
<1>2. AppInv /\ [Next]_appVars => AppInv'
  BY AppInvStep
<1>. QED
  BY <1>1, <1>2, PTL DEF Spec

-----------------------------------------------------------------------------
(* The arrays of the pools hold spawned instances, each in its own pool.   *)
THEOREM AppTypeCorrect == Spec => []AppTypeOK
<1>1. AppInv => AppTypeOK
  BY DEF AppInv, AppCore
<1>. QED
  BY <1>1, AppInvariant, PTL

(* A program that cleaned up has told every Tor to end, but those of pools *)
(* given up before and those that came while their pool was being closed.  *)
THEOREM EndSignalsAll == Spec => []ShutdownSignalsAll
<1>1. AppInv => ShutdownSignalsAll
  BY DEF AppInv
<1>. QED
  BY <1>1, AppInvariant, PTL

(* A step that ends the program with status 0 ends a cleanUp without an    *)
(* error, whose pool is dead and its unnamed directories deleted.          *)
LEMMA CleanEndStep ==
    ASSUME AppInv, [Next]_appVars
    PROVE  [status' = "ok" =>
              \E c \in CleanUps \ failed :
                  /\ target[c] # 0
                  /\ \A i \in members[target[c]] \ late :
                        stage[i] = "exited" /\ (i \in directory <=> i \in Named)]_appVars
<1>1. SUFFICES ASSUME Next, status' = "ok"
               PROVE  \E c \in CleanUps \ failed :
                          /\ target[c] # 0
                          /\ \A i \in members[target[c]] \ late :
                                stage[i] = "exited" /\ (i \in directory <=> i \in Named)
  OBVIOUS
<1>2. PICK c \in CleanUps : CleanUpDone(c)
  <2>1. status = "up"
    BY <1>1 DEF Next
  <2>2. CASE Starting
    BY <1>1, <2>1, <2>2 DEF Starting, ControlListens, ControlFails, StartFails, Interrupted,
                            BindFails, Dies
  <2>3. CASE \E i \in Instance : CreateInstances({i}) \/ InstanceStep(i)
    BY <1>1, <2>1, <2>3 DEF CreateInstances, InstanceStep, Pushed, CreationFails,
                            InstanceReady, ProcessEnds
  <2>4. CASE \E c \in Call \ CleanUps : Rpc(c)
    BY <1>1, <2>1, <2>4 DEF Rpc, RemoveInstances, CloseInstances, ExitOf, InstancesClosed
  <2>5. CASE CreateTorPool \/ \E s \in Server : CreateServer(s) \/ Bound(s)
    BY <1>1, <2>1, <2>5 DEF CreateTorPool, CreateServer, Bound
  <2>6. CASE \E c \in CleanUps, error \in BOOLEAN : CleanUp(c, error)
    BY <1>1, <2>1, <2>6 DEF CleanUp, ExitOf
  <2>. QED
    BY <1>1, <2>2, <2>3, <2>4, <2>5, <2>6 DEF Next
<1>3. c \notin failed /\ target[c] # 0 /\ exiting[c] = {}
  BY <1>1, <1>2 DEF CleanUpDone, Quit
<1>4. c \in Call /\ target[c] \in Pool /\ members[target[c]] \subseteq Instance
  BY <1>3, ApplicationAssumption DEF AppInv, AppCore, AppTypeOK
<1>5. \A i \in members[target[c]] \ late :
         stage[i] = "exited" /\ (i \in directory <=> i \in Named)
  BY <1>3, <1>4 DEF AppInv, AppCore, Awaiting, ProcessInv, DirectoryKept
<1>. QED
  BY <1>3, <1>5

(* Exit status 0 means that nothing was left behind.                       *)
THEOREM CleanEnd == Spec => CleanEndLeavesNothing
<1>1. AppInv /\ [Next]_appVars
         => [status' = "ok" =>
              \E c \in CleanUps \ failed :
                  /\ target[c] # 0
                  /\ \A i \in members[target[c]] \ late :
                        stage[i] = "exited" /\ (i \in directory <=> i \in Named)]_appVars
  BY CleanEndStep
<1>. QED
  BY <1>1, AppInvariant, PTL DEF Spec, CleanEndLeavesNothing

-----------------------------------------------------------------------------
(* Every step of the program is a step of its processes, or leaves them    *)
(* alone; process.exit() only signals, and awaits nobody.                  *)
LEMMA AppMovesProcess ==
    ASSUME AppCore, [Next]_appVars
    PROVE  [ProcessMoves]_processVars
<1> USE DEF AppCore, AppTypeOK
<1>1. ASSUME NEW S \in SUBSET Instance, CreateIn(S)
      PROVE  ProcessMoves
  BY <1>1 DEF CreateIn, ProcessMoves
<1>2. ASSUME NEW c \in Call, NEW p \in Pool, ExitOf(c, p)
      PROVE  ProcessMoves
  <2>1. exiting[c] = {} /\ members[p] \in SUBSET Instance
    BY <1>2 DEF ExitOf, Idle
  <2>. QED
    BY <1>2, <2>1 DEF ExitOf, ProcessMoves
<1>3. CASE Starting
  <2>1. ASSUME NEW S \in SUBSET Instance, NEW T \in SUBSET Server, ControlListens(S, T)
        PROVE  ProcessMoves
    BY <1>1, <2>1 DEF ControlListens
  <2>2. ASSUME NEW how, Dies(how)
        PROVE  UNCHANGED processVars
    BY <2>2 DEF Dies
  <2>. QED
    BY <1>3, <2>1, <2>2 DEF Starting, ControlFails, StartFails, Interrupted, BindFails
<1>4. ASSUME NEW i \in Instance, CreateInstances({i})
      PROVE  ProcessMoves
  BY <1>1, <1>4 DEF CreateInstances
<1>5. ASSUME NEW i \in Instance, InstanceStep(i)
      PROVE  ProcessMoves
  BY <1>5 DEF InstanceStep, Pushed, CreationFails, InstanceReady, ProcessEnds, ProcessMoves
<1>6. ASSUME NEW c \in Call, Rpc(c)
      PROVE  [ProcessMoves]_processVars
  <2>1. 1 \in Pool
    BY ApplicationAssumption DEF Pool
  <2>2. ASSUME NEW S \in SUBSET members[1], RemoveInstances(c, S)
        PROVE  ProcessMoves
    <3>1. S \in SUBSET Instance
      BY <2>1
    <3>. QED
      BY <2>2, <3>1 DEF RemoveInstances, Idle, ProcessMoves
  <2>3. CASE CloseInstances(c)
    BY <1>2, <2>1, <2>3 DEF CloseInstances
  <2>4. CASE InstancesClosed(c)
    BY <2>4 DEF InstancesClosed
  <2>. QED
    BY <1>6, <2>2, <2>3, <2>4 DEF Rpc
<1>7. ASSUME CreateTorPool \/ \E s \in Server : CreateServer(s) \/ Bound(s)
      PROVE  UNCHANGED processVars
  BY <1>7 DEF CreateTorPool, CreateServer, Bound
<1>8. ASSUME NEW c \in CleanUps, NEW error \in BOOLEAN, CleanUp(c, error)
      PROVE  ProcessMoves
  BY <1>2, <1>8, ApplicationAssumption DEF CleanUp
<1>9. ASSUME NEW c \in CleanUps, CleanUpDone(c)
      PROVE  ProcessMoves
  <2>1. target[c] \in Pool /\ 0 \notin Pool
    BY <1>9, ApplicationAssumption DEF CleanUpDone, Pool
  <2>2. members' \in [Pool -> SUBSET Instance] /\ current' = current
    BY <1>9 DEF CleanUpDone, Quit
  <2>3. Signal(members'[current])
    BY <1>9 DEF CleanUpDone, Quit, Signal
  <2>. QED
    BY <2>2, <2>3 DEF ProcessMoves
<1>. QED
  BY <1>3, <1>4, <1>5, <1>6, <1>7, <1>8, <1>9 DEF Next, appVars

(* The program implements the processes, through signals, exceptions, RPC  *)
(* calls and new pools.                                                    *)
THEOREM ProgramImplementsProcess == Spec => ProcessSpec
<1>1. Init => ProcessInit
  BY DEF Init
<1>2. AppInv /\ [Next]_appVars => [ProcessMoves]_processVars
  BY AppMovesProcess DEF AppInv
<1>. QED
  BY <1>1, <1>2, AppInvariant, PTL DEF Spec, ProcessSpec

(* No directory goes under a running process of the program, and an        *)
(* unnamed instance that has exited leaves none behind.                    *)
THEOREM ProgramKeepsDirectories == Spec => []DirectoryKept
BY ProgramImplementsProcess, ProcessKeepsDirectory, PTL

(* Every exit() that resolves, of cleanUp or of an RPC client, resolves    *)
(* for processes that are dead.                                            *)
THEOREM ProgramExitsTheDead == Spec => ExitResolvesDead
BY ProgramImplementsProcess, ProcessExitMeansDead, PTL
=============================================================================
