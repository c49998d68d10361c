---------------------------- MODULE TorPoolProofs ----------------------------
(***************************************************************************)
(* Proofs about the pool, for every set of instances, callers and names:   *)
(* an inductive invariant for the calls as they overlap, and one more for  *)
(* what the overlaps leave of the names and of the processes.              *)
(***************************************************************************)
EXTENDS TorPool, JsArrayProofs, TorProcessProofs

(***************************************************************************)
(* How far a process can be, given what create_instance() awaits: that is  *)
(* what makes an instance about to be pushed new to the pool, and its      *)
(* ready event unable to come early.                                       *)
(***************************************************************************)
StagesMatch ==
    \A i \in Instance :
        /\ stage[i] # "new" => promise[i] \in {"pending", "resolved", "rejected"}
        /\ stage[i] = "creating" => promise[i] = "pending"
        /\ i \in ready => Spawned(i)

PoolInv ==
    /\ PoolTypeOK
    /\ PoolSound
    /\ ListWithinPool
    /\ AddOutcome
    /\ StagesMatch

(* The invariant holds of the empty pool.                                  *)
LEMMA PoolInvInit ==
    ASSUME Init
    PROVE  PoolInv
<1>1. PoolTypeOK
  BY DEF Init, ProcessInit, PoolTypeOK, ProcessTypeOK, Stages, PromiseStates
<1>2. PoolSound /\ ListWithinPool
  BY EmptyArray DEF Init, PoolSound, ListWithinPool, Members
<1>3. AddOutcome /\ StagesMatch
  BY DEF Init, ProcessInit, AddOutcome, StagesMatch
<1>. QED
  BY <1>1, <1>2, <1>3 DEF PoolInv

(* create_instance() up to its first await after the name check. *)
LEMMA BeginPreserves ==
    ASSUME PoolInv, NEW S \in SUBSET Instance,
           \A i \in S : promise[i] \in {"none", "mkdir"},
           Begin(S), data_directory' \in BOOLEAN
    PROVE  PoolInv'
<1> DEFINE taken == {i \in S : \E m \in Members : SameName(i, m)}
           fresh == S \ taken
<1> USE DEF PoolInv
<1>1. /\ taken \subseteq S /\ fresh \subseteq S
      /\ Create(fresh)
      /\ promise' = [i \in Instance |-> CASE i \in taken -> "rejected"
                                          [] i \in fresh -> "pending"
                                          [] OTHER -> promise[i]]
      /\ weighted_list' = NoList \/ weighted_list' = weighted_list
      /\ rivals' \in [Instance -> SUBSET Instance]
      /\ UNCHANGED <<instances, load_balance_method, closing, late>>
  BY DEF Begin, PoolTypeOK
<1> HIDE DEF taken, fresh
<1>2. /\ \A i \in Instance \ S : promise'[i] = promise[i] /\ stage'[i] = stage[i]
      /\ \A i \in S : /\ stage[i] = "new"
                      /\ \/ promise'[i] = "rejected" /\ stage'[i] = "new"
                         \/ promise'[i] = "pending" /\ stage'[i] = "creating"
      /\ ready' = ready
  <2>1. \A i \in S : stage[i] = "new"
    BY DEF StagesMatch
  <2>2. S = taken \union fresh /\ taken \intersect fresh = {}
    BY DEF taken, fresh
  <2>. QED
    BY <1>1, <2>1, <2>2 DEF Create
<1>3. PoolTypeOK'
  <2>1. /\ promise' \in [Instance -> PromiseStates]
        /\ stage' \in [Instance -> Stages]
    BY <1>1, <1>2 DEF PoolTypeOK, ProcessTypeOK, PromiseStates, Stages, Create
  <2>. QED
    BY <1>1, <2>1 DEF PoolTypeOK, ProcessTypeOK, Create
<1>4. PoolSound'
  BY <1>1, <1>2, RangeOfArray DEF PoolSound, Members, Spawned, PoolTypeOK
<1>5. ListWithinPool'
  BY <1>1 DEF ListWithinPool, Members
<1>6. AddOutcome' /\ StagesMatch'
  <2>1. \A i \in S : i \notin ready
    BY <1>2 DEF StagesMatch, Spawned
  <2>. QED
    BY <1>2, <2>1 DEF AddOutcome, StagesMatch, Spawned
<1>. QED
  BY <1>3, <1>4, <1>5, <1>6

(* An instance takes its part of a step alone. *)
LEMMA SettlePreserves ==
    ASSUME PoolInv, NEW i \in Instance, Spawned(i),
           \/ ready' = ready /\ Settle(i, "rejected")
           \/ ready' = ready \union {i} /\ Settle(i, "resolved"),
           UNCHANGED <<stage, killed, directory, exiting, instances, weighted_list,
                       load_balance_method, data_directory, closing, late, rivals>>
    PROVE  PoolInv'
<1> USE DEF PoolInv
<1>1. \A j \in Instance \ {i} : promise'[j] = promise[j]
  BY DEF Settle, PoolTypeOK
<1>2. /\ promise[i] \in {"pending", "resolved", "rejected"}
      /\ promise'[i] \in {"resolved", "rejected"}
      /\ promise'[i] = "resolved" => i \in ready'
      /\ promise' \in [Instance -> PromiseStates]
  <2>1. promise[i] \in {"pending", "resolved", "rejected"}
    BY DEF StagesMatch, Spawned
  <2>2. promise[i] = "resolved" => i \in ready
    BY DEF AddOutcome
  <2>. QED
    BY <2>1, <2>2 DEF Settle, PoolTypeOK, PromiseStates
<1>3. PoolTypeOK'
  BY <1>2 DEF PoolTypeOK, ProcessTypeOK
<1>4. PoolSound' /\ ListWithinPool'
  BY DEF PoolSound, ListWithinPool, Members, Spawned
<1>5. AddOutcome'
  BY <1>1, <1>2 DEF AddOutcome
<1>6. StagesMatch'
  BY <1>1, <1>2 DEF StagesMatch, Spawned
<1>. QED
  BY <1>3, <1>4, <1>5, <1>6

(* A process moves on after its start; its creation is over. *)
LEMMA ProcessEndPreserves ==
    ASSUME PoolInv, NEW i \in Instance, ProcessEnds(i)
    PROVE  PoolInv'
<1> USE DEF PoolInv
<1>1. /\ stage[i] \in {"running", "closed"}
      /\ stage' \in [Instance -> Stages]
      /\ stage'[i] \in {"closed", "exited", "stuck"}
      /\ \A j \in Instance \ {i} : stage'[j] = stage[j]
      /\ exiting' \in [Call -> SUBSET Instance]
      /\ directory' \subseteq Instance
      /\ UNCHANGED <<ready, killed>>
  BY DEF ProcessEnds, Close, Deleted, DeleteFails, EmitProcessExit, PoolTypeOK,
         ProcessTypeOK, Stages
<1>2. UNCHANGED <<instances, weighted_list, load_balance_method, data_directory, promise,
                  closing, late, rivals>>
  BY DEF ProcessEnds, overlapVars
<1>3. PoolTypeOK'
  BY <1>1, <1>2 DEF PoolTypeOK, ProcessTypeOK
<1>4. PoolSound' /\ ListWithinPool'
  BY <1>1, <1>2, RangeOfArray DEF PoolSound, ListWithinPool, Members, Spawned, PoolTypeOK
<1>5. AddOutcome' /\ StagesMatch'
  BY <1>1, <1>2 DEF AddOutcome, StagesMatch, Spawned
<1>. QED
  BY <1>3, <1>4, <1>5

(* A removal keeps the array in order and drops the list. *)
LEMMA TakeOutPreserves ==
    ASSUME PoolInv, NEW c \in Call, NEW at \in 0..Len(instances), NEW n \in Nat,
           TakeOut(c, at, n)
    PROVE  /\ PoolInv'
           /\ Members' = Members \ SplicedOut(instances, at, n)
           /\ killed' = killed \union SplicedOut(instances, at, n)
<1> USE DEF PoolInv
<1>1. /\ instances' \in Seq(Instance)
      /\ IsInjective(instances')
      /\ Range(instances') = Range(instances) \ SplicedOut(instances, at, n)
      /\ SplicedOut(instances, at, n) \subseteq Instance
  BY SpliceArray, RangeOfArray DEF TakeOut, PoolSound, PoolTypeOK
<1>2. /\ weighted_list' = NoList
      /\ exiting' = [exiting EXCEPT ![c] = SplicedOut(instances, at, n)]
      /\ killed' = killed \union SplicedOut(instances, at, n)
      /\ UNCHANGED <<stage, ready, directory, load_balance_method, data_directory,
                     promise, closing, late, rivals>>
  BY DEF TakeOut, ExitAll, overlapVars
<1>3. PoolTypeOK'
  BY <1>1, <1>2 DEF PoolTypeOK, ProcessTypeOK
<1>4. PoolSound' /\ ListWithinPool'
  BY <1>1, <1>2 DEF PoolSound, ListWithinPool, Members, Spawned
<1>5. AddOutcome' /\ StagesMatch'
  BY <1>2 DEF AddOutcome, StagesMatch, Spawned
<1>. QED
  BY <1>1, <1>2, <1>3, <1>4, <1>5 DEF Members

(* next() only reorders the array: the same members, each of them once. *)
LEMMA NextKeepsMembers ==
    ASSUME PoolInv, NextRoundRobin \/ NextWeighted
    PROVE  /\ instances' \in Seq(Instance)
           /\ IsInjective(instances')
           /\ Members' = Members
           /\ weighted_list' = weighted_list \/ weighted_list' = Members
<1> USE DEF PoolInv
<1>1. CASE NextRoundRobin
  BY <1>1, RotateArray DEF NextRoundRobin, Members, PoolTypeOK, PoolSound
<1>2. CASE NextWeighted
  <2> DEFINE list == IF weighted_list = NoList THEN Members ELSE weighted_list
  <2>1. list \in SUBSET Range(instances)
    BY DEF ListWithinPool, Members
  <2>2. /\ instances \in Seq(Instance)
        /\ IsInjective(instances)
        /\ Len(instances) <= Cardinality(list)
        /\ instances' \in Injection(1..Len(instances), list)
        /\ weighted_list' = list
    BY <1>2 DEF NextWeighted, PoolTypeOK, PoolSound
  <2> HIDE DEF list
  <2>3. /\ instances' \in Seq(Instance)
        /\ IsInjective(instances')
        /\ Range(instances') = Range(instances)
        /\ list = Range(instances)
    BY <2>1, <2>2, DrawArray
  <2>. QED
    BY <2>2, <2>3 DEF Members
<1>. QED
  BY <1>1, <1>2

(* One step per call of the pool and per event of an instance.             *)
LEMMA PoolInvNext ==
    ASSUME PoolInv, [Next]_poolVars
    PROVE  PoolInv'
<1> USE DEF PoolInv
<1>1. CASE UNCHANGED poolVars
  BY <1>1 DEF poolVars, overlapVars, processVars, PoolTypeOK, ProcessTypeOK, PoolSound,
              ListWithinPool, AddOutcome, StagesMatch, Members, Spawned
<1>2. ASSUME NEW S \in SUBSET Instance \ {{}}, Add(S)
      PROVE  PoolInv'
  <2>1. CASE data_directory
    <3>1. /\ \A i \in S : promise[i] \in {"none", "mkdir"}
          /\ Begin(S)
          /\ data_directory' \in BOOLEAN
      BY <1>2, <2>1 DEF Add, PoolTypeOK
    <3>. QED
      BY <3>1, BeginPreserves
  <2>2. CASE ~data_directory
    <3>1. /\ UNCHANGED <<processVars, instances, weighted_list, load_balance_method,
                         data_directory, closing, late, rivals>>
          /\ promise' = [i \in Instance |-> IF i \in S THEN "mkdir" ELSE promise[i]]
          /\ \A i \in S : promise[i] = "none"
      BY <1>2, <2>2 DEF Add, overlapVars
    <3>2. \A i \in S : stage[i] = "new" /\ i \notin ready
      BY <3>1 DEF StagesMatch, Spawned
    <3>3. PoolTypeOK'
      BY <3>1 DEF PoolTypeOK, ProcessTypeOK, processVars, PromiseStates
    <3>4. PoolSound' /\ ListWithinPool'
      BY <3>1 DEF PoolSound, ListWithinPool, Members, Spawned, processVars
    <3>5. AddOutcome' /\ StagesMatch'
      BY <3>1, <3>2 DEF AddOutcome, StagesMatch, Spawned, processVars
    <3>. QED
      BY <3>3, <3>4, <3>5
  <2>. QED
    BY <2>1, <2>2
<1>3. ASSUME NEW i \in Instance, MkdirDone(i) \/ MkdirFails(i)
      PROVE  PoolInv'
  <2>1. CASE MkdirFails(i)
    <3>1. /\ UNCHANGED <<processVars, instances, weighted_list, load_balance_method,
                         data_directory, closing, late, rivals>>
          /\ promise' = [promise EXCEPT ![i] = "rejected"]
          /\ promise[i] = "mkdir"
      BY <2>1 DEF MkdirFails, overlapVars
    <3>2. stage[i] = "new" /\ i \notin ready
      BY <3>1 DEF StagesMatch, Spawned
    <3>3. PoolTypeOK'
      BY <3>1 DEF PoolTypeOK, ProcessTypeOK, processVars, PromiseStates
    <3>4. PoolSound' /\ ListWithinPool'
      BY <3>1 DEF PoolSound, ListWithinPool, Members, Spawned, processVars
    <3>5. AddOutcome' /\ StagesMatch'
      BY <3>1, <3>2 DEF AddOutcome, StagesMatch, Spawned, processVars, PoolTypeOK
    <3>. QED
      BY <3>3, <3>4, <3>5
  <2>2. CASE MkdirDone(i)
    <3>1. /\ \A j \in {i} : promise[j] \in {"none", "mkdir"}
          /\ Begin({i})
          /\ data_directory' \in BOOLEAN
          /\ {i} \in SUBSET Instance
      BY <2>2 DEF MkdirDone
    <3>. QED
      BY <3>1, BeginPreserves
  <2>. QED
    BY <1>3, <2>1, <2>2
<1>4. ASSUME NEW i \in Instance, Push(i)
      PROVE  PoolInv'
  <2>1. /\ stage[i] = "creating"
        /\ stage' = [stage EXCEPT ![i] = "running"]
        /\ instances' = Append(instances, i)
        /\ late' \in {late, late \union {i}}
        /\ UNCHANGED <<ready, killed, directory, exiting, weighted_list,
                       load_balance_method, data_directory, promise, closing, rivals>>
    BY <1>4 DEF Push, Spawn
  <2>2. i \notin Members
    BY <2>1 DEF PoolSound, Spawned
  <2>3. /\ instances' \in Seq(Instance)
        /\ IsInjective(instances')
        /\ Range(instances') = Range(instances) \union {i}
    BY <2>1, <2>2, PushArray DEF PoolTypeOK, PoolSound, Members
  <2>4. PoolTypeOK'
    BY <2>1, <2>3 DEF PoolTypeOK, ProcessTypeOK, Stages
  <2>5. PoolSound' /\ ListWithinPool'
    <3>1. Members \subseteq Instance
      BY RangeOfArray DEF Members, PoolTypeOK
    <3>. QED
      BY <2>1, <2>3, <3>1 DEF PoolSound, ListWithinPool, Members, Spawned, PoolTypeOK,
                              ProcessTypeOK
  <2>6. AddOutcome' /\ StagesMatch'
    BY <2>1 DEF AddOutcome, StagesMatch, Spawned, PoolTypeOK, ProcessTypeOK
  <2>. QED
    BY <2>4, <2>5, <2>6
<1>5. ASSUME NEW i \in Instance, CreateRejected(i)
      PROVE  PoolInv'
  <2>1. /\ stage[i] = "creating"
        /\ stage' = [stage EXCEPT ![i] = "failed"]
        /\ promise' = [promise EXCEPT ![i] = "rejected"]
        /\ UNCHANGED <<ready, killed, directory, exiting, instances, weighted_list,
                       load_balance_method, data_directory, closing, late, rivals>>
    BY <1>5 DEF CreateRejected, CreateFails, overlapVars
  <2>2. i \notin Members /\ i \notin ready
    BY <2>1 DEF PoolSound, StagesMatch, Spawned
  <2>3. PoolTypeOK'
    BY <2>1 DEF PoolTypeOK, ProcessTypeOK, Stages, PromiseStates
  <2>4. PoolSound' /\ ListWithinPool'
    <3>1. Members \subseteq Instance
      BY RangeOfArray DEF Members, PoolTypeOK
    <3>. QED
      BY <2>1, <2>2, <3>1 DEF PoolSound, ListWithinPool, Members, Spawned, PoolTypeOK,
                              ProcessTypeOK
  <2>5. AddOutcome' /\ StagesMatch'
    BY <2>1, <2>2 DEF AddOutcome, StagesMatch, Spawned, PoolTypeOK, ProcessTypeOK
  <2>. QED
    BY <2>3, <2>4, <2>5
<1>6. ASSUME NEW i \in Instance, ReadyEvent(i) \/ ErrorEvent(i)
      PROVE  PoolInv'
  <2>1. /\ Spawned(i)
        /\ \/ ready' = ready /\ Settle(i, "rejected")
           \/ ready' = ready \union {i} /\ Settle(i, "resolved")
        /\ UNCHANGED <<stage, killed, directory, exiting, instances, weighted_list,
                       load_balance_method, data_directory, closing, late, rivals>>
    BY <1>6 DEF ReadyEvent, ErrorEvent, Ready, Spawned, processVars, overlapVars
  <2>. QED
    BY <2>1, SettlePreserves
<1>7. CASE NextRoundRobin \/ NextWeighted
  <2>1. /\ instances' \in Seq(Instance)
        /\ IsInjective(instances')
        /\ Members' = Members
        /\ weighted_list' = weighted_list \/ weighted_list' = Members
    BY <1>7, NextKeepsMembers
  <2>2. UNCHANGED <<processVars, load_balance_method, data_directory, promise, closing,
                    late, rivals>>
    BY <1>7 DEF NextRoundRobin, NextWeighted, overlapVars
  <2>3. Members \subseteq Instance
    BY RangeOfArray DEF Members, PoolTypeOK
  <2>4. PoolTypeOK'
    BY <2>1, <2>2, <2>3 DEF PoolTypeOK, ProcessTypeOK, processVars
  <2>5. PoolSound' /\ ListWithinPool'
    BY <2>1, <2>2 DEF PoolSound, ListWithinPool, Spawned, processVars
  <2>6. AddOutcome' /\ StagesMatch'
    BY <2>2 DEF AddOutcome, StagesMatch, Spawned, processVars
  <2>. QED
    BY <2>4, <2>5, <2>6
<1>8. ASSUME NEW c \in Call, NEW at \in 0..Len(instances), NEW n \in 1..Len(instances),
             RemoveInstances(c, at, n)
      PROVE  PoolInv'
  BY <1>8, TakeOutPreserves DEF RemoveInstances
<1>9. ASSUME NEW c \in Call, NEW i \in Named, RemoveByName(c, i)
      PROVE  PoolInv'
  <2>1. PICK k \in DOMAIN instances : TakeOut(c, k - 1, 1)
    BY <1>9 DEF RemoveByName
  <2>2. k - 1 \in 0..Len(instances)
    BY LenProperties DEF PoolTypeOK
  <2>. QED
    BY <2>1, <2>2, TakeOutPreserves
<1>10. ASSUME NEW c \in Call, ExitDone(c)
       PROVE  PoolInv'
  <2>1. /\ instances' = <<>>
        /\ weighted_list' = NoList
        /\ closing' = closing \ {c}
        /\ UNCHANGED <<processVars, load_balance_method, data_directory, promise, late, rivals>>
    BY <1>10 DEF ExitDone, overlapVars
  <2>2. PoolTypeOK'
    BY <2>1, EmptySeq DEF PoolTypeOK, ProcessTypeOK, processVars
  <2>3. PoolSound' /\ ListWithinPool'
    BY <2>1, EmptyArray DEF PoolSound, ListWithinPool, Members
  <2>4. AddOutcome' /\ StagesMatch'
    BY <2>1 DEF AddOutcome, StagesMatch, Spawned, processVars
  <2>. QED
    BY <2>2, <2>3, <2>4
<1>11. ASSUME NEW m \in Methods, SetLoadBalanceMethod(m)
       PROVE  PoolInv'
  BY <1>11 DEF SetLoadBalanceMethod, overlapVars, processVars, PoolTypeOK, ProcessTypeOK, PoolSound,
               ListWithinPool, AddOutcome, StagesMatch, Members, Spawned
<1>12. ASSUME NEW c \in Call, ExitPool(c)
       PROVE  PoolInv'
  <2>1. /\ exiting' = [exiting EXCEPT ![c] = Members]
        /\ killed' = killed \union Members
        /\ closing' = closing \union {c}
        /\ UNCHANGED <<stage, ready, directory, instances, weighted_list,
                       load_balance_method, data_directory, promise, late, rivals>>
    BY <1>12 DEF ExitPool, ExitAll, overlapVars
  <2>2. Members \subseteq Instance
    BY RangeOfArray DEF Members, PoolTypeOK
  <2>3. PoolTypeOK'
    BY <2>1, <2>2 DEF PoolTypeOK, ProcessTypeOK
  <2>4. PoolSound' /\ ListWithinPool' /\ AddOutcome' /\ StagesMatch'
    BY <2>1 DEF PoolSound, ListWithinPool, Members, AddOutcome, StagesMatch, Spawned
  <2>. QED
    BY <2>3, <2>4
<1>13. ASSUME NEW i \in Instance, ProcessEnds(i)
       PROVE  PoolInv'
  BY <1>13, ProcessEndPreserves
<1>. QED
  BY <1>1, <1>2, <1>3, <1>4, <1>5, <1>6, <1>7, <1>8, <1>9, <1>10, <1>11, <1>12, <1>13
     DEF Next, Creating, Removing, Other

(* The invariant of the pool, as the code is, under any interleaving of    *)
(* calls: nothing is asked of the callers.                                 *)
THEOREM PoolInvariant == Spec => []PoolInv
<1>1. Init => PoolInv
  BY PoolInvInit
<1>2. PoolInv /\ [Next]_poolVars => PoolInv'
  BY PoolInvNext
<1>. QED
  BY <1>1, <1>2, PTL DEF Spec

-----------------------------------------------------------------------------
(* The variables of the pool hold what their declarations say.             *)
THEOREM TypeCorrect == Spec => []PoolTypeOK
<1>1. PoolInv => PoolTypeOK
  BY DEF PoolInv
<1>. QED
  BY <1>1, PoolInvariant, PTL

(* Every entry of the pool is there once and has a process to signal.      *)
THEOREM PoolIsSound == Spec => []PoolSound
<1>1. PoolInv => PoolSound
  BY DEF PoolInv
<1>. QED
  BY <1>1, PoolInvariant, PTL

(* The list that next() draws from by weight never holds an instance that  *)
(* was removed.                                                            *)
THEOREM ListStaysWithinPool == Spec => []ListWithinPool
<1>1. PoolInv => ListWithinPool
  BY DEF PoolInv
<1>. QED
  BY <1>1, PoolInvariant, PTL

(* create_instance() never misses the ready event.                         *)
THEOREM ReadyNotMissed == Spec => []AddOutcome
<1>1. PoolInv => AddOutcome
  BY DEF PoolInv
<1>. QED
  BY <1>1, PoolInvariant, PTL

(* No step but push() enlarges the pool, and push() ends a create().       *)
LEMMA JoinsStep ==
    ASSUME PoolInv, Next
    PROVE  \A i \in Members' \ Members : stage[i] = "creating" /\ stage'[i] = "running"
<1> DEFINE Joins == \A i \in Members' \ Members :
                       stage[i] = "creating" /\ stage'[i] = "running"
<1> USE DEF PoolInv
<1>1. ASSUME UNCHANGED instances
      PROVE  Joins
  BY <1>1 DEF Members
<1>2. ASSUME NEW S \in SUBSET Instance \ {{}}, Add(S)
      PROVE  Joins
  BY <1>1, <1>2 DEF Add, Begin
<1>3. ASSUME NEW i \in Instance, MkdirDone(i) \/ MkdirFails(i)
      PROVE  Joins
  BY <1>1, <1>3 DEF MkdirDone, MkdirFails, Begin
<1>4. ASSUME NEW i \in Instance, Push(i)
      PROVE  Joins
  <2>1. Members' = Members \union {i}
    BY <1>4, PushArray DEF Push, Members, PoolTypeOK
  <2>. QED
    BY <1>4, <2>1 DEF Push, Spawn, PoolTypeOK, ProcessTypeOK
<1>5. ASSUME NEW i \in Instance, CreateRejected(i) \/ ReadyEvent(i) \/ ErrorEvent(i)
      PROVE  Joins
  BY <1>1, <1>5 DEF CreateRejected, ReadyEvent, ErrorEvent
<1>6. CASE NextRoundRobin \/ NextWeighted
  BY <1>6, NextKeepsMembers
<1>7. ASSUME NEW c \in Call, NEW at \in 0..Len(instances), NEW n \in 1..Len(instances),
             RemoveInstances(c, at, n)
      PROVE  Joins
  BY <1>7, TakeOutPreserves DEF RemoveInstances
<1>8. ASSUME NEW c \in Call, NEW i \in Named, RemoveByName(c, i)
      PROVE  Joins
  <2>1. PICK k \in DOMAIN instances : TakeOut(c, k - 1, 1)
    BY <1>8 DEF RemoveByName
  <2>2. k - 1 \in 0..Len(instances)
    BY LenProperties DEF PoolTypeOK
  <2>. QED
    BY <2>1, <2>2, TakeOutPreserves
<1>9. ASSUME NEW c \in Call, ExitDone(c)
      PROVE  Joins
  BY <1>9, EmptyArray DEF ExitDone, Members
<1>10. CASE Other
  BY <1>1, <1>10 DEF Other, SetLoadBalanceMethod, ExitPool, ProcessEnds
<1>. QED
  BY <1>2, <1>3, <1>4, <1>5, <1>6, <1>7, <1>8, <1>9, <1>10 DEF Next, Creating, Removing

(* Only creation brings an instance into the pool.                         *)
THEOREM JoinsByCreation == Spec => OnlyCreationJoins
<1>1. PoolInv /\ [Next]_poolVars
         => [\A i \in Members' \ Members :
                stage[i] = "creating" /\ stage'[i] = "running"]_poolVars
  BY JoinsStep
<1>. QED
  BY <1>1, PoolInvariant, PTL DEF Spec, OnlyCreationJoins

-----------------------------------------------------------------------------
(***************************************************************************)
(* What the two overlaps leave.  While exit() is awaited, every member was *)
(* signalled or came late.  Of two namesakes in creation, the one that     *)
(* began later has the other among its rivals; and a name in creation is   *)
(* that of a member only where one of the two is a rival of the other.     *)
(***************************************************************************)
Overlapped(i, j) == j \in rivals[i] \/ i \in rivals[j]

LateOnly == closing # {} => Members \subseteq killed \union late

CreationsApart ==
    \A i, j \in Instance :
        stage[i] = "creating" /\ SameName(i, j) /\ (stage[j] = "creating" \/ j \in Members)
            => i = j \/ Overlapped(i, j)

OverlapInv ==
    /\ LateOnly
    /\ CreationsApart
    /\ UniqueNames
    /\ NoOrphan

(* What the overlaps leave holds of the empty pool.                        *)
LEMMA OverlapInvInit ==
    ASSUME Init
    PROVE  OverlapInv
<1>1. Members = {}
  BY EmptyArray DEF Init, Members
<1>2. \A i \in Instance : stage[i] = "new"
  BY DEF Init, ProcessInit
<1>. QED
  BY <1>1, <1>2 DEF OverlapInv, LateOnly, CreationsApart, UniqueNames, NoOrphan, Init

(* Whatever starts no creation and lets no live process out of the pool.   *)
LEMMA OverlapKept ==
    ASSUME OverlapInv, Members \subseteq Instance,
           Members' \subseteq Members,
           killed \subseteq killed',
           \A i \in Members \ Members' : i \in killed' \union late,
           \A i \in Instance : stage'[i] \in {"creating", "running"} => stage'[i] = stage[i],
           closing' \subseteq closing \/ Members' \subseteq killed',
           UNCHANGED <<late, rivals>>
    PROVE  OverlapInv'
<1> USE DEF OverlapInv
<1>1. LateOnly'
  BY DEF LateOnly
<1>2. CreationsApart'
  BY DEF CreationsApart, SameName, Overlapped
<1>3. UniqueNames'
  BY DEF UniqueNames, SameName
<1>4. NoOrphan'
  BY DEF NoOrphan
<1>. QED
  BY <1>1, <1>2, <1>3, <1>4

(* What starts is apart from the members, by the check in                  *)
(* create_instance(), and has what is being created among its rivals.      *)
LEMMA OverlapBegin ==
    ASSUME OverlapInv, PoolInv, NEW S \in SUBSET Instance, Begin(S),
           \A i \in S : promise[i] \in {"none", "mkdir"}
    PROVE  OverlapInv'
<1> DEFINE taken == {i \in S : \E m \in Members : SameName(i, m)}
           fresh == S \ taken
           Underway(i) == {j \in Instance \ {i} : /\ j \in fresh \/ stage[j] = "creating"
                                                  /\ SameName(i, j)}
<1> USE DEF OverlapInv
<1>1. /\ fresh \subseteq S
      /\ \A i \in fresh : stage[i] = "new"
      /\ stage' = [i \in Instance |-> IF i \in fresh THEN "creating" ELSE stage[i]]
      /\ rivals' = [i \in Instance |-> IF i \in fresh THEN Underway(i) ELSE rivals[i]]
      /\ UNCHANGED <<instances, closing, killed, late>>
      /\ \A i \in fresh, m \in Members : ~SameName(i, m)
  BY DEF Begin, Create
<1>2. /\ \A i \in fresh, j \in Instance :
            j \in rivals'[i] <=> /\ i # j
                                 /\ j \in fresh \/ stage[j] = "creating"
                                 /\ SameName(i, j)
      /\ \A i \in Instance \ fresh : rivals'[i] = rivals[i]
  BY <1>1
<1> HIDE DEF taken, fresh, Underway
<1>3. Members' = Members /\ Members \subseteq Instance
  BY <1>1, RangeOfArray DEF Members, PoolInv, PoolTypeOK
<1>4. \A i \in fresh : i \notin Members
  BY <1>1 DEF PoolInv, PoolSound, Spawned
<1>5. \A i, j \in Instance : SameName(i, j) => SameName(j, i)
  BY DEF SameName
<1>6. LateOnly'
  BY <1>1, <1>3 DEF LateOnly
<1>7. CreationsApart'
  <2>1. ASSUME NEW i \in Instance, NEW j \in Instance, i # j, SameName(i, j),
               stage'[i] = "creating", stage'[j] = "creating" \/ j \in Members
        PROVE  Overlapped(i, j)'
    <3>1. /\ i \in fresh \/ stage[i] = "creating"
          /\ j \in fresh \/ stage[j] = "creating" \/ j \in Members
      BY <1>1, <2>1
    <3>2. CASE i \in fresh
      <4>1. j \notin Members
        BY <1>1, <2>1, <3>2
      <4>2. j \in rivals'[i]
        BY <1>2, <2>1, <3>1, <3>2, <4>1
      <4>. QED
        BY <4>2 DEF Overlapped
    <3>3. CASE i \notin fresh /\ j \in fresh
      <4>1. i \in rivals'[j]
        BY <1>2, <1>5, <2>1, <3>1, <3>3
      <4>. QED
        BY <4>1 DEF Overlapped
    <3>4. CASE i \notin fresh /\ j \notin fresh
      <4>1. Overlapped(i, j)
        BY <2>1, <3>1, <3>4 DEF CreationsApart
      <4>. QED
        BY <1>2, <3>4, <4>1 DEF Overlapped
    <3>. QED
      BY <3>2, <3>3, <3>4
  <2>. QED
    BY <1>3, <2>1 DEF CreationsApart, SameName
<1>8. UniqueNames'
  <2>1. \A m \in Members : rivals'[m] = rivals[m]
    BY <1>2, <1>3, <1>4
  <2>. QED
    BY <1>3, <2>1 DEF UniqueNames, SameName
<1>9. NoOrphan'
  BY <1>1, <1>3 DEF NoOrphan
<1>. QED
  BY <1>6, <1>7, <1>8, <1>9

(* The push: what it adds was apart from the members, and is recorded as   *)
(* late where somebody is inside exit().                                   *)
LEMMA OverlapPush ==
    ASSUME OverlapInv, PoolInv, NEW i \in Instance, Push(i)
    PROVE  OverlapInv'
<1> USE DEF OverlapInv
<1>1. /\ stage[i] = "creating"
      /\ stage' = [stage EXCEPT ![i] = "running"]
      /\ late' = IF closing = {} THEN late ELSE late \union {i}
      /\ UNCHANGED <<killed, closing, rivals>>
      /\ Members' = Members \union {i}
  BY PushArray DEF Push, Spawn, Members, PoolInv, PoolTypeOK
<1>2. /\ stage'[i] = "running"
      /\ \A j \in Instance : j # i => stage'[j] = stage[j]
  BY <1>1 DEF PoolInv, PoolTypeOK, ProcessTypeOK
<1>3. Members \subseteq Instance
  BY RangeOfArray DEF Members, PoolInv, PoolTypeOK
<1>4. \A j \in Instance : SameName(i, j) => SameName(j, i)
  BY DEF SameName
<1>5. \A m \in Members : SameName(i, m) => i = m \/ Overlapped(i, m)
  BY <1>1, <1>3 DEF CreationsApart
<1>6. LateOnly'
  BY <1>1 DEF LateOnly
<1>7. CreationsApart'
  <2>1. ASSUME NEW j \in Instance, NEW k \in Instance, j # k, SameName(j, k),
               stage'[j] = "creating", stage'[k] = "creating" \/ k \in Members \union {i}
        PROVE  Overlapped(j, k)
    <3>1. stage[j] = "creating" /\ (stage[k] = "creating" \/ k \in Members)
      BY <1>1, <1>2, <2>1
    <3>. QED
      BY <2>1, <3>1 DEF CreationsApart
  <2>. QED
    BY <1>1, <2>1 DEF CreationsApart, SameName, Overlapped
<1>8. UniqueNames'
  <2>1. ASSUME NEW j \in Members \union {i}, NEW k \in Members \union {i},
               SameName(j, k), j # k
        PROVE  Overlapped(j, k)
    <3>1. CASE j = i
      BY <1>5, <2>1, <3>1
    <3>2. CASE k = i
      <4>1. SameName(i, j)
        BY <2>1, <3>2 DEF SameName
      <4>. QED
        BY <1>5, <2>1, <3>2, <4>1 DEF Overlapped
    <3>3. CASE j # i /\ k # i
      BY <2>1, <3>3 DEF UniqueNames, Overlapped
    <3>. QED
      BY <3>1, <3>2, <3>3
  <2>. QED
    BY <1>1, <2>1 DEF UniqueNames, SameName, Overlapped
<1>9. NoOrphan'
  BY <1>1, <1>2 DEF NoOrphan
<1>. QED
  BY <1>6, <1>7, <1>8, <1>9

(* One step per call of the pool and per event of an instance.             *)
LEMMA OverlapInvNext ==
    ASSUME PoolInv, OverlapInv, [Next]_poolVars
    PROVE  OverlapInv'
<1>0. Members \subseteq Instance
  BY RangeOfArray DEF Members, PoolInv, PoolTypeOK
<1>1. CASE UNCHANGED poolVars
  BY <1>0, <1>1, OverlapKept DEF poolVars, processVars, overlapVars, Members
<1>2. ASSUME NEW S \in SUBSET Instance \ {{}}, Add(S)
      PROVE  OverlapInv'
  <2>1. CASE data_directory
    BY <1>2, <2>1, OverlapBegin DEF Add
  <2>2. CASE ~data_directory
    BY <1>0, <1>2, <2>2, OverlapKept DEF Add, processVars, overlapVars, Members
  <2>. QED
    BY <2>1, <2>2
<1>3. ASSUME NEW i \in Instance, MkdirDone(i)
      PROVE  OverlapInv'
  <2>1. /\ Begin({i}) /\ {i} \in SUBSET Instance
        /\ \A j \in {i} : promise[j] \in {"none", "mkdir"}
    BY <1>3 DEF MkdirDone
  <2>. QED
    BY <2>1, OverlapBegin
<1>4. ASSUME NEW i \in Instance, Push(i)
      PROVE  OverlapInv'
  BY <1>4, OverlapPush
<1>5. ASSUME NEW i \in Instance, CreateRejected(i)
      PROVE  OverlapInv'
  <2>1. /\ stage' = [stage EXCEPT ![i] = "failed"]
        /\ UNCHANGED <<killed, instances, closing, late, rivals>>
    BY <1>5 DEF CreateRejected, CreateFails, overlapVars
  <2>. QED
    BY <1>0, <2>1, OverlapKept DEF Members, PoolInv, PoolTypeOK, ProcessTypeOK
<1>6. ASSUME NEW i \in Instance, MkdirFails(i) \/ ReadyEvent(i) \/ ErrorEvent(i)
      PROVE  OverlapInv'
  <2>1. UNCHANGED <<stage, killed, instances, closing, late, rivals>>
    BY <1>6 DEF MkdirFails, ReadyEvent, ErrorEvent, Ready, processVars, overlapVars
  <2>. QED
    BY <1>0, <2>1, OverlapKept DEF Members
<1>7. CASE NextRoundRobin \/ NextWeighted
  <2>1. Members' = Members
    BY <1>7, NextKeepsMembers
  <2>2. UNCHANGED <<stage, killed, closing, late, rivals>>
    BY <1>7 DEF NextRoundRobin, NextWeighted, processVars, overlapVars
  <2>. QED
    BY <1>0, <2>1, <2>2, OverlapKept
<1>8. ASSUME NEW c \in Call, NEW at \in 0..Len(instances), NEW n \in Nat, TakeOut(c, at, n)
      PROVE  OverlapInv'
  <2>1. /\ Members' = Members \ SplicedOut(instances, at, n)
        /\ killed' = killed \union SplicedOut(instances, at, n)
    BY <1>8, TakeOutPreserves
  <2>2. UNCHANGED <<stage, closing, late, rivals>>
    BY <1>8 DEF TakeOut, ExitAll, overlapVars
  <2>. QED
    BY <1>0, <2>1, <2>2, OverlapKept
<1>9. ASSUME NEW c \in Call, NEW i \in Named, RemoveByName(c, i)
      PROVE  OverlapInv'
  <2>1. PICK k \in DOMAIN instances : TakeOut(c, k - 1, 1)
    BY <1>9 DEF RemoveByName
  <2>2. k - 1 \in 0..Len(instances)
    BY LenProperties DEF PoolInv, PoolTypeOK
  <2>. QED
    BY <1>8, <2>1, <2>2
<1>10. ASSUME NEW c \in Call, ExitDone(c)
       PROVE  OverlapInv'
  <2>1. /\ Members' = {}
        /\ closing' = closing \ {c}
        /\ c \in closing
        /\ UNCHANGED <<stage, killed, late, rivals>>
    BY <1>10, EmptyArray DEF ExitDone, Members, processVars, overlapVars
  <2>2. Members \subseteq killed \union late
    BY <2>1 DEF OverlapInv, LateOnly
  <2>. QED
    BY <1>0, <2>1, <2>2, OverlapKept
<1>11. ASSUME NEW m \in Methods, SetLoadBalanceMethod(m)
       PROVE  OverlapInv'
  BY <1>0, <1>11, OverlapKept DEF SetLoadBalanceMethod, processVars, overlapVars, Members
<1>12. ASSUME NEW c \in Call, ExitPool(c)
       PROVE  OverlapInv'
  <2>1. /\ killed' = killed \union Members
        /\ UNCHANGED <<stage, instances, late, rivals>>
    BY <1>12 DEF ExitPool, ExitAll, overlapVars
  <2>. QED
    BY <1>0, <2>1, OverlapKept DEF Members
<1>13. ASSUME NEW i \in Instance, ProcessEnds(i)
       PROVE  OverlapInv'
  <2>1. /\ stage'[i] \in {"closed", "exited", "stuck"}
        /\ \A j \in Instance \ {i} : stage'[j] = stage[j]
        /\ UNCHANGED <<killed, instances, closing, late, rivals>>
    BY <1>13 DEF ProcessEnds, Close, Deleted, DeleteFails, PoolInv, PoolTypeOK, ProcessTypeOK,
                 overlapVars
  <2>. QED
    BY <1>0, <2>1, OverlapKept DEF Members
<1>14. ASSUME NEW c \in Call, NEW at \in 0..Len(instances), NEW n \in 1..Len(instances),
              RemoveInstances(c, at, n)
       PROVE  OverlapInv'
  BY <1>8, <1>14 DEF RemoveInstances
<1>. QED
  BY <1>1, <1>2, <1>3, <1>4, <1>5, <1>6, <1>7, <1>9, <1>10, <1>11, <1>12, <1>13, <1>14
     DEF Next, Creating, Removing, Other

(* What the overlaps leave of the pool, next to PoolInv.                   *)
THEOREM OverlapInvariant == Spec => []OverlapInv
<1>1. Init => OverlapInv
  BY OverlapInvInit
<1>2. PoolInv /\ OverlapInv /\ [Next]_poolVars => OverlapInv'
  BY OverlapInvNext
<1>. QED
  BY <1>1, <1>2, PoolInvariant, PTL DEF Spec

(* However the calls overlap, a Tor process that runs and was not told to  *)
(* end is in the pool, where exit() will find it, unless it was pushed     *)
(* while an exit() was awaited: the only way the code loses one.           *)
THEOREM NoProcessLost == Spec => []NoOrphan
<1>1. OverlapInv => NoOrphan
  BY DEF OverlapInv
<1>. QED
  BY <1>1, OverlapInvariant, PTL

(* However the calls overlap, two members of the pool have one Name only   *)
(* where both were being created at one time: the only way past the check  *)
(* in create_instance().                                                   *)
THEOREM NamesAreUnique == Spec => []UniqueNames
<1>1. OverlapInv => UniqueNames
  BY DEF OverlapInv
<1>. QED
  BY <1>1, OverlapInvariant, PTL

-----------------------------------------------------------------------------
(* The processes, as PoolView knows them: those that joined, those that    *)
(* have ended.                                                             *)
Joined == {i \in Instance : Spawned(i)}
Ended == {i \in Instance : stage[i] \in {"closed", "exited", "stuck"}}

(* What reorders, replaces or empties the array, and does not end or start *)
(* a process, is seen as a removal of some or of none.                     *)
LEMMA SeenAsRemoval ==
    ASSUME Members' \subseteq Members, UNCHANGED <<stage, ready>>
    PROVE  View!Next
BY DEF View!Next, View!Removed, Spawned

(* create_instance() shows nothing before the push.                        *)
LEMMA StartUnseen ==
    ASSUME PoolInv, NEW S \in SUBSET Instance, Begin(S)
    PROVE  View!Next
<1>1. PICK fresh \in SUBSET Instance : Create(fresh) /\ UNCHANGED instances
  BY DEF Begin
<1>2. \A i \in fresh : stage[i] = "new"
  BY <1>1 DEF Create
<1>3. /\ stage' = [i \in Instance |-> IF i \in fresh THEN "creating" ELSE stage[i]]
      /\ ready' = ready
  BY <1>1 DEF Create
<1>4. Joined' = Joined /\ Ended' = Ended
  BY <1>2, <1>3 DEF Joined, Ended, Spawned
<1>5. Members' \in SUBSET Members
  BY <1>1 DEF Members
<1>. QED
  BY <1>3, <1>4, <1>5 DEF View!Next, View!Removed, Joined, Ended

(* Each step of the pool is seen as at most one join, removal, ready or    *)
(* death.                                                                  *)
LEMMA PoolSeenStep ==
    ASSUME PoolInv, [Next]_poolVars
    PROVE  [View!Next]_(View!viewVars)
<1> USE DEF PoolInv
<1>0. stage \in [Instance -> Stages] /\ instances \in Seq(Instance)
  BY DEF PoolTypeOK, ProcessTypeOK
<1>1. CASE Creating
  <2>1. ASSUME NEW S \in SUBSET Instance \ {{}}, Add(S)
        PROVE  View!Next
    BY <2>1, StartUnseen, SeenAsRemoval DEF Add, processVars, Members
  <2>2. ASSUME NEW i \in Instance, MkdirDone(i) \/ MkdirFails(i)
        PROVE  View!Next
    <3>1. {i} \in SUBSET Instance
      OBVIOUS
    <3>. QED
      BY <2>2, <3>1, StartUnseen, SeenAsRemoval
         DEF MkdirDone, MkdirFails, processVars, Members
  <2>3. ASSUME NEW i \in Instance, Push(i)
        PROVE  View!Next
    <3>1. /\ stage[i] = "creating"
          /\ stage' = [stage EXCEPT ![i] = "running"]
          /\ ready' = ready
          /\ Members' = Members \union {i}
      BY <1>0, <2>3, PushArray DEF Push, Spawn, Members
    <3>2. i \notin Joined /\ Joined' = Joined \union {i} /\ Ended' = Ended
      BY <1>0, <3>1 DEF Joined, Ended, Spawned
    <3>3. View!Joins(i)
      BY <3>1, <3>2 DEF View!Joins, Joined, Ended
    <3>. QED
      BY <3>3 DEF View!Next
  <2>4. ASSUME NEW i \in Instance, CreateRejected(i)
        PROVE  View!Next
    <3>1. /\ stage[i] = "creating"
          /\ stage' = [stage EXCEPT ![i] = "failed"]
          /\ UNCHANGED <<ready, instances>>
      BY <2>4 DEF CreateRejected, CreateFails
    <3>2. Joined' = Joined /\ Ended' = Ended
      BY <1>0, <3>1 DEF Joined, Ended, Spawned
    <3>3. Members' \in SUBSET Members
      BY <3>1 DEF Members
    <3>. QED
      BY <3>1, <3>2, <3>3 DEF View!Next, View!Removed, Joined, Ended
  <2>5. ASSUME NEW i \in Instance, ReadyEvent(i)
        PROVE  View!Next
    <3>1. /\ stage[i] = "running"
          /\ ready' = ready \union {i}
          /\ UNCHANGED <<stage, instances>>
      BY <2>5 DEF ReadyEvent, Ready
    <3>2. CASE i \in ready
      <4>1. ready' = ready
        BY <3>1, <3>2
      <4>. QED
        BY <3>1, <4>1, SeenAsRemoval DEF Members
    <3>3. CASE i \notin ready
      <4>1. i \in Joined /\ i \notin Ended
        BY <3>1 DEF Joined, Ended, Spawned
      <4>2. Joined' = Joined /\ Ended' = Ended /\ Members' = Members
        BY <3>1 DEF Joined, Ended, Spawned, Members
      <4>3. View!BecomesReady(i)
        BY <3>1, <3>3, <4>1, <4>2 DEF View!BecomesReady, Joined, Ended
      <4>. QED
        BY <4>3 DEF View!Next
    <3>. QED
      BY <3>2, <3>3
  <2>6. ASSUME NEW i \in Instance, ErrorEvent(i)
        PROVE  View!Next
    BY <2>6, SeenAsRemoval DEF ErrorEvent, processVars, Members
  <2>. QED
    BY <1>1, <2>1, <2>2, <2>3, <2>4, <2>5, <2>6 DEF Creating
<1>2. CASE NextRoundRobin \/ NextWeighted
  <2>1. Members' = Members
    BY <1>2, NextKeepsMembers
  <2>. QED
    BY <1>2, <2>1, SeenAsRemoval DEF NextRoundRobin, NextWeighted, processVars
<1>3. ASSUME NEW c \in Call, NEW at \in 0..Len(instances), NEW n \in Nat, TakeOut(c, at, n)
      PROVE  View!Next
  <2>1. Members' \subseteq Members
    BY <1>3, TakeOutPreserves
  <2>. QED
    BY <1>3, <2>1, SeenAsRemoval DEF TakeOut, ExitAll
<1>4. CASE Removing
  <2>1. ASSUME NEW c \in Call, NEW at \in 0..Len(instances), NEW n \in 1..Len(instances),
               RemoveInstances(c, at, n)
        PROVE  View!Next
    BY <1>3, <2>1 DEF RemoveInstances
  <2>2. ASSUME NEW c \in Call, NEW i \in Named, RemoveByName(c, i)
        PROVE  View!Next
    <3>1. PICK k \in DOMAIN instances : TakeOut(c, k - 1, 1)
      BY <2>2 DEF RemoveByName
    <3>2. k - 1 \in 0..Len(instances)
      BY <1>0, LenProperties
    <3>. QED
      BY <1>3, <3>1, <3>2
  <2>3. ASSUME NEW c \in Call, ExitDone(c)
        PROVE  View!Next
    BY <2>3, EmptyArray, SeenAsRemoval DEF ExitDone, processVars, Members
  <2>. QED
    BY <1>4, <2>1, <2>2, <2>3 DEF Removing
<1>5. CASE Other
  <2>1. ASSUME NEW i \in Instance, ProcessEnds(i)
        PROVE  View!Next
    <3>1. /\ \/ stage[i] = "running" /\ stage'[i] \in {"closed", "exited"}
             \/ stage[i] = "closed" /\ stage'[i] \in {"exited", "stuck"}
          /\ \A j \in Instance \ {i} : stage'[j] = stage[j]
          /\ UNCHANGED <<ready, instances>>
      BY <1>0, <2>1 DEF ProcessEnds, Close, Deleted, DeleteFails
    <3>2. Joined' = Joined /\ Ended' = Ended \union {i} /\ i \in Joined
      BY <3>1 DEF Joined, Ended, Spawned
    <3>3. Members' = Members
      BY <3>1 DEF Members
    <3>4. CASE stage[i] = "running"
      <4>1. i \notin Ended
        BY <3>4 DEF Ended
      <4>2. View!Dies(i)
        BY <3>1, <3>2, <3>3, <4>1 DEF View!Dies, Joined, Ended
      <4>. QED
        BY <4>2 DEF View!Next
    <3>5. CASE stage[i] = "closed"
      <4>1. Ended' = Ended
        BY <3>2, <3>5 DEF Ended
      <4>. QED
        BY <3>1, <3>2, <3>3, <4>1 DEF View!Next, View!Removed, Joined, Ended
    <3>. QED
      BY <3>1, <3>4, <3>5
  <2>2. ASSUME NEW m \in Methods, SetLoadBalanceMethod(m)
        PROVE  View!Next
    BY <2>2, SeenAsRemoval DEF SetLoadBalanceMethod, processVars, Members
  <2>3. ASSUME NEW c \in Call, ExitPool(c)
        PROVE  View!Next
    BY <2>3, SeenAsRemoval DEF ExitPool, ExitAll, Members
  <2>. QED
    BY <1>5, <2>1, <2>2, <2>3 DEF Other
<1>6. CASE UNCHANGED poolVars
  BY <1>6, SeenAsRemoval DEF poolVars, processVars, Members
<1>. QED
  BY <1>1, <1>2, <1>4, <1>5, <1>6 DEF Next

(* What the proxy servers rely on is what the pool provides, through every *)
(* interleaving of its calls and with both load balance methods: whatever  *)
(* is proved of the proxies over a PoolView holds over this pool.          *)
THEOREM PoolServesProxies == Spec => ServesProxies
<1>1. Init => View!Init
  BY EmptyArray DEF Init, ProcessInit, View!Init, Members, Spawned
<1>2. PoolInv /\ [Next]_poolVars => [View!Next]_(View!viewVars)
  BY PoolSeenStep
<1>. QED
  BY <1>1, <1>2, PoolInvariant, PTL DEF Spec, ServesProxies, View!Spec

-----------------------------------------------------------------------------
(* Nobody calls next() by weight while the process of an instance is being *)
(* started: the window the code leaves open between dropping the list and  *)
(* the push.                                                               *)
NextApart == [][NextWeighted => \A i \in Instance : stage[i] # "creating"]_poolVars

(* Then the list is that of the members, for as long as there is one.      *)
ListExact ==
    weighted_list # NoList =>
        /\ weighted_list = Members
        /\ \A i \in Instance : stage[i] # "creating"

(* create_instance() drops the list when it starts a process, and the push *)
(* that follows finds none, unless next() has built one in between.        *)
LEMMA ListExactStep ==
    ASSUME PoolInv, ListExact, [Next]_poolVars,
           NextWeighted => \A i \in Instance : stage[i] # "creating"
    PROVE  ListExact'
<1>1. ASSUME weighted_list' = NoList
      PROVE  ListExact'
  BY <1>1 DEF ListExact
<1>2. ASSUME UNCHANGED weighted_list, Members' = Members,
             \A i \in Instance : stage'[i] = "creating" => stage[i] = "creating"
      PROVE  ListExact'
  BY <1>2 DEF ListExact
<1>3. ASSUME NEW S \in SUBSET Instance, Begin(S)
      PROVE  ListExact'
  <2>1. PICK fresh \in SUBSET Instance :
           /\ Create(fresh)
           /\ weighted_list' = IF fresh = {} THEN weighted_list ELSE NoList
           /\ UNCHANGED instances
    BY <1>3 DEF Begin
  <2>2. CASE fresh = {}
    <3>1. \A i \in Instance : stage'[i] = stage[i]
      BY <2>1, <2>2 DEF Create
    <3>. QED
      BY <1>2, <2>1, <2>2, <3>1 DEF Members
  <2>3. CASE fresh # {}
    BY <1>1, <2>1, <2>3
  <2>. QED
    BY <2>2, <2>3
<1>4. CASE Creating
  <2>1. ASSUME NEW S \in SUBSET Instance \ {{}}, Add(S)
        PROVE  ListExact'
    BY <1>2, <1>3, <2>1 DEF Add, processVars, Members
  <2>2. ASSUME NEW i \in Instance, MkdirDone(i) \/ MkdirFails(i)
        PROVE  ListExact'
    <3>1. {i} \in SUBSET Instance
      OBVIOUS
    <3>. QED
      BY <1>2, <1>3, <2>2, <3>1 DEF MkdirDone, MkdirFails, processVars, Members
  <2>3. ASSUME NEW i \in Instance, Push(i) \/ CreateRejected(i)
        PROVE  ListExact'
    <3>1. stage[i] = "creating" /\ UNCHANGED weighted_list
      BY <2>3 DEF Push, CreateRejected, Spawn, CreateFails
    <3>2. weighted_list = NoList
      BY <3>1 DEF ListExact
    <3>. QED
      BY <1>1, <3>1, <3>2
  <2>4. ASSUME NEW i \in Instance, ReadyEvent(i) \/ ErrorEvent(i)
        PROVE  ListExact'
    BY <1>2, <2>4 DEF ReadyEvent, ErrorEvent, Ready, processVars, Members
  <2>. QED
    BY <1>4, <2>1, <2>2, <2>3, <2>4 DEF Creating
<1>5. CASE NextRoundRobin \/ NextWeighted
  <2>1. Members' = Members
    BY <1>5, NextKeepsMembers
  <2>2. stage' = stage
    BY <1>5 DEF NextRoundRobin, NextWeighted, processVars
  <2>3. CASE NextRoundRobin
    BY <1>2, <2>1, <2>2, <2>3 DEF NextRoundRobin
  <2>4. CASE NextWeighted
    <3>1. weighted_list' = weighted_list \/ weighted_list' = Members
      BY <2>4, NextKeepsMembers
    <3>. QED
      BY <2>1, <2>2, <2>4, <3>1 DEF ListExact
  <2>. QED
    BY <1>5, <2>3, <2>4
<1>6. CASE Removing
  BY <1>1, <1>6 DEF Removing, RemoveInstances, RemoveByName, TakeOut, ExitDone
<1>7. CASE Other
  <2>1. ASSUME NEW i \in Instance, ProcessEnds(i)
        PROVE  ListExact'
    <3>1. \A j \in Instance : stage'[j] = "creating" => stage[j] = "creating"
      BY <2>1 DEF ProcessEnds, Close, Deleted, DeleteFails, PoolInv, PoolTypeOK, ProcessTypeOK
    <3>. QED
      BY <1>2, <2>1, <3>1 DEF ProcessEnds, Members
  <2>2. ASSUME NEW m \in Methods, SetLoadBalanceMethod(m)
        PROVE  ListExact'
    BY <1>2, <2>2 DEF SetLoadBalanceMethod, processVars, Members
  <2>3. ASSUME NEW c \in Call, ExitPool(c)
        PROVE  ListExact'
    BY <1>2, <2>3 DEF ExitPool, ExitAll, Members
  <2>. QED
    BY <1>7, <2>1, <2>2, <2>3 DEF Other
<1>8. CASE UNCHANGED poolVars
  BY <1>2, <1>8 DEF poolVars, processVars, Members
<1>. QED
  BY <1>4, <1>5, <1>6, <1>7, <1>8 DEF Next

(* A list of the members is long enough for an array without repetitions.  *)
LEMMA ExactListCovers ==
    ASSUME PoolInv, ListExact
    PROVE  ListCoversPool
<1>1. /\ instances \in Seq(Instance) /\ IsInjective(instances)
      /\ Len(instances) \in Nat
  BY LenProperties DEF PoolInv, PoolTypeOK, PoolSound
<1>2. Cardinality(Members) = Len(instances)
  BY <1>1, CardinalityOfArray DEF Members
<1>. QED
  BY <1>1, <1>2 DEF ListExact, ListCoversPool

(* next() by weight can always serve the pool, provided that it is not     *)
(* called between the start of an instance and its push.  That call is the *)
(* only way to the list that is too short, and so to a next() that throws. *)
THEOREM WeightedListCovers == Spec /\ NextApart => []ListCoversPool
<1>1. Init => ListExact
  BY DEF Init, ListExact
<1>2. PoolInv /\ ListExact /\ [Next]_poolVars
         /\ [NextWeighted => \A i \in Instance : stage[i] # "creating"]_poolVars
         => ListExact'
  <2>1. ASSUME PoolInv, ListExact, UNCHANGED poolVars
        PROVE  ListExact'
    BY <2>1 DEF poolVars, processVars, ListExact, Members
  <2>. QED
    BY <2>1, ListExactStep
<1>3. PoolInv /\ ListExact => ListCoversPool
  BY ExactListCovers
<1>. QED
  BY <1>1, <1>2, <1>3, PoolInvariant, PTL DEF Spec, NextApart

-----------------------------------------------------------------------------
(* Whatever the pool does to a process is a step of TorProcess: it creates *)
(* what is new, and no caller of exit() calls it again before it is back.  *)
LEMMA PoolMovesProcess ==
    ASSUME PoolInv, [Next]_poolVars
    PROVE  [ProcessMoves]_processVars
<1>1. ASSUME NEW S \in SUBSET Instance, Begin(S)
      PROVE  ProcessMoves
  <2>1. PICK fresh \in SUBSET Instance : Create(fresh)
    BY <1>1 DEF Begin
  <2>. QED
    BY <2>1 DEF ProcessMoves
<1>2. ASSUME NEW c \in Call, NEW at \in 0..Len(instances), NEW n \in Nat,
             exiting[c] = {}, TakeOut(c, at, n)
      PROVE  ProcessMoves
  <2>1. SplicedOut(instances, at, n) \in SUBSET Instance
    BY RangeOfArray DEF SplicedOut, PoolInv, PoolTypeOK
  <2>. QED
    BY <1>2, <2>1 DEF TakeOut, ProcessMoves
<1>3. CASE Creating
  <2>1. ASSUME NEW S \in SUBSET Instance \ {{}}, Add(S)
        PROVE  ProcessMoves \/ UNCHANGED processVars
    BY <1>1, <2>1 DEF Add
  <2>2. ASSUME NEW i \in Instance, MkdirDone(i) \/ MkdirFails(i)
        PROVE  ProcessMoves \/ UNCHANGED processVars
    BY <1>1, <2>2 DEF MkdirDone, MkdirFails
  <2>3. ASSUME NEW i \in Instance, Push(i) \/ CreateRejected(i) \/ ReadyEvent(i)
        PROVE  ProcessMoves
    BY <2>3 DEF Push, CreateRejected, ReadyEvent, ProcessMoves
  <2>4. ASSUME NEW i \in Instance, ErrorEvent(i)
        PROVE  UNCHANGED processVars
    BY <2>4 DEF ErrorEvent
  <2>. QED
    BY <1>3, <2>1, <2>2, <2>3, <2>4 DEF Creating
<1>4. CASE Removing
  <2>1. ASSUME NEW c \in Call, NEW at \in 0..Len(instances), NEW n \in 1..Len(instances),
               RemoveInstances(c, at, n)
        PROVE  ProcessMoves
    BY <1>2, <2>1 DEF RemoveInstances, Idle
  <2>2. ASSUME NEW c \in Call, NEW i \in Named, RemoveByName(c, i)
        PROVE  ProcessMoves
    <3>1. PICK k \in DOMAIN instances : TakeOut(c, k - 1, 1)
      BY <2>2 DEF RemoveByName
    <3>2. k - 1 \in 0..Len(instances)
      BY LenProperties DEF PoolInv, PoolTypeOK
    <3>. QED
      BY <1>2, <2>2, <3>1, <3>2 DEF RemoveByName, Idle
  <2>3. ASSUME NEW c \in Call, ExitDone(c)
        PROVE  UNCHANGED processVars
    BY <2>3 DEF ExitDone
  <2>. QED
    BY <1>4, <2>1, <2>2, <2>3 DEF Removing
<1>5. CASE Other
  <2>1. ASSUME NEW c \in Call, ExitPool(c)
        PROVE  ProcessMoves
    <3>1. Members \in SUBSET Instance
      BY RangeOfArray DEF Members, PoolInv, PoolTypeOK
    <3>. QED
      BY <2>1, <3>1 DEF ExitPool, Idle, ProcessMoves
  <2>2. ASSUME NEW i \in Instance, ProcessEnds(i)
        PROVE  ProcessMoves
    BY <2>2 DEF ProcessEnds, ProcessMoves
  <2>. QED
    BY <1>5, <2>1, <2>2 DEF Other, SetLoadBalanceMethod
<1>6. CASE NextRoundRobin \/ NextWeighted \/ UNCHANGED poolVars
  BY <1>6 DEF NextRoundRobin, NextWeighted, poolVars
<1>. QED
  BY <1>3, <1>4, <1>5, <1>6 DEF Next

(* The pool implements the processes: overlapping calls of create(),       *)
(* remove*() and exit() do to them only what a single user may.            *)
THEOREM PoolImplementsProcess == Spec => ProcessSpec
<1>1. Init => ProcessInit
  BY DEF Init
<1>2. PoolInv /\ [Next]_poolVars => [ProcessMoves]_processVars
  BY PoolMovesProcess
<1>. QED
  BY <1>1, <1>2, PoolInvariant, PTL DEF Spec, ProcessSpec

(* No directory goes under a running process of the pool, a Name keeps its *)
(* own, and an unnamed instance that has exited leaves none behind.        *)
THEOREM PoolKeepsDirectories == Spec => []DirectoryKept
BY PoolImplementsProcess, ProcessKeepsDirectory, PTL

(* The exits that remove*() and exit() of the pool await resolve only for  *)
(* processes that are dead, whatever calls overlap.                        *)
THEOREM PoolExitsTheDead == Spec => ExitResolvesDead
BY PoolImplementsProcess, ProcessExitMeansDead, PTL
=============================================================================
