------------------------- MODULE TorPoolFairProofs -------------------------
(***************************************************************************)
(* The proof that the pool in round_robin mode implements FairSelection:   *)
(* PassedStandBehind is the invariant that ties the order of the array to  *)
(* the history.                                                            *)
(***************************************************************************)
EXTENDS TorPoolFair, TorPoolProofs

(* Only members are remembered, and only by members.                       *)
HistoryTyped ==
    /\ passed \in [Instance -> SUBSET Members]
    /\ \A i \in Instance \ Members : passed[i] = {}

FairInv ==
    /\ PoolInv
    /\ HistoryTyped
    /\ PassedStandBehind

(* The array as a function on 1..Len, its entries all different.           *)
LEMMA ArrayFacts ==
    ASSUME PoolInv
    PROVE  /\ instances \in Seq(Instance)
           /\ Len(instances) \in Nat
           /\ DOMAIN instances = 1..Len(instances)
           /\ Members \subseteq Instance
           /\ \A x : x \in Members <=> \E k \in 1..Len(instances) : instances[k] = x
           /\ \A j, k \in 1..Len(instances) : instances[j] = instances[k] => j = k
           /\ LastInLine = IF Len(instances) = 0 THEN {} ELSE {instances[1]}
<1>1. instances \in Seq(Instance) /\ IsInjective(instances)
  BY DEF PoolInv, PoolTypeOK, PoolSound
<1>2. /\ Len(instances) \in Nat
      /\ DOMAIN instances = 1..Len(instances)
      /\ instances = <<>> <=> Len(instances) = 0
  BY <1>1, LenProperties, EmptySeq
<1>3. instances # <<>> => Head(instances) = instances[1]
  BY <1>1
<1>. QED
  BY <1>1, <1>2, <1>3, RangeOfArray DEF Members, LastInLine

(* Nobody is in line, and nobody was passed.                               *)
LEMMA FairInvInit ==
    ASSUME FairInit
    PROVE  FairInv /\ Fair!Init
<1>1. PoolInv
  BY PoolInvInit DEF FairInit
<1>2. Members = {} /\ DOMAIN instances = {}
  BY EmptyArray DEF FairInit, Init, Members
<1>3. passed = [i \in Instance |-> {}]
  BY DEF FairInit
<1>4. HistoryTyped
  BY <1>2, <1>3 DEF HistoryTyped
<1>5. PassedStandBehind
  BY <1>2 DEF PassedStandBehind
<1>. QED
  BY <1>1, <1>2, <1>3, <1>4, <1>5 DEF FairInv, Fair!Init

(* Whatever leaves the array and the history alone is a stutter.           *)
LEMMA FairStutter ==
    ASSUME FairInv, PoolInv', UNCHANGED <<instances, passed>>
    PROVE  FairInv' /\ UNCHANGED Fair!vars
BY DEF FairInv, HistoryTyped, PassedStandBehind, PlaceInLine, Members, Fair!vars

(* A new member stands last but one: behind everyone but the head.         *)
LEMMA FairPush ==
    ASSUME FairInv, PoolInv', NEW i \in Instance, Push(i), UNCHANGED passed
    PROVE  FairInv' /\ Fair!Join(i)
<1> DEFINE n == Len(instances)
<1> USE DEF FairInv
<1>1. i \notin Members
  BY DEF Push, Spawn, PoolInv, PoolSound, Spawned
<1>2. /\ n \in Nat
      /\ DOMAIN instances = 1..n
      /\ \A x : x \in Members <=> \E k \in 1..n : instances[k] = x
  BY ArrayFacts
<1>3. /\ Members' = Members \union {i}
      /\ Len(instances') = n + 1
      /\ DOMAIN instances' = 1..(n + 1)
      /\ \A k \in 1..n : instances'[k] = instances[k]
      /\ instances'[n + 1] = i
  <2>1. instances' = Append(instances, i) /\ instances \in Seq(Instance)
    BY ArrayFacts DEF Push
  <2>. QED
    BY <2>1, PushArray, AppendProperties, LenProperties DEF Members
<1> HIDE DEF n
<1>4. HistoryTyped'
  BY <1>3 DEF HistoryTyped
<1>5. PassedStandBehind'
  <2>1. ASSUME NEW j \in 1..(n + 1), NEW k \in 1..(n + 1),
               instances'[j] \in passed[instances'[k]]
        PROVE  PlaceInLine(k)' < PlaceInLine(j)'
    <3>1. k \in 1..n
      BY <1>1, <1>2, <1>3, <2>1 DEF HistoryTyped
    <3>2. instances'[j] \in Members
      BY <1>2, <1>3, <2>1, <3>1, ArrayFacts DEF HistoryTyped
    <3>3. j \in 1..n
      BY <1>1, <1>2, <1>3, <3>2
    <3>4. PlaceInLine(k) < PlaceInLine(j)
      BY <1>2, <1>3, <2>1, <3>1, <3>3 DEF PassedStandBehind
    <3>. QED
      BY <1>2, <1>3, <3>1, <3>3, <3>4 DEF PlaceInLine, n
  <2>. QED
    BY <1>3, <2>1 DEF PassedStandBehind
<1>. QED
  BY <1>1, <1>3, <1>4, <1>5 DEF Fair!Join

(* next() serves the second of the array; the head was served last.        *)
LEMMA FairServed ==
    ASSUME FairInv, PoolInv', Served
    PROVE  FairInv' /\ (Fair!Next \/ UNCHANGED Fair!vars)
<1> DEFINE n == Len(instances)
<1> USE DEF FairInv
<1>1. /\ n \in Nat
      /\ DOMAIN instances = 1..n
      /\ Members \subseteq Instance
      /\ \A x : x \in Members <=> \E k \in 1..n : instances[k] = x
      /\ \A j, k \in 1..n : instances[j] = instances[k] => j = k
      /\ LastInLine' = IF n = 0 THEN {} ELSE {instances'[1]}
      /\ Len(instances') = n
      /\ DOMAIN instances' = 1..n
      /\ Members' = Members
      /\ \A k \in 1..n : instances'[k] = IF k = n THEN instances[1] ELSE instances[k + 1]
  <2>1. instances' = Rotate(instances) /\ instances \in Seq(Instance)
    BY ArrayFacts DEF Served, NextRoundRobin
  <2>2. Rotate(instances) \in Seq(Instance) /\ Len(Rotate(instances)) = n
    BY <2>1, RotateArray
  <2>3. LastInLine' = IF Len(instances)' = 0 THEN {} ELSE {instances'[1]}
    BY <2>1, <2>2, LenProperties, EmptySeq DEF LastInLine
  <2>4. DOMAIN instances' = 1..n
    BY <2>1, <2>2, LenProperties
  <2>. QED
    BY <2>1, <2>2, <2>3, <2>4, RotateArray, ArrayFacts DEF Members
<1>2. passed' = [i \in Instance |-> IF i \in Members \ LastInLine'
                                    THEN passed[i] \union LastInLine' ELSE {}]
  BY DEF Served
<1>0. \A k \in 1..n : LET place == IF k = 1 THEN n + 1 ELSE k
                     IN  PlaceInLine(k) = place /\ PlaceInLine(k)' = place
  BY <1>1 DEF PlaceInLine
<1> HIDE DEF n
<1>3. CASE n = 0
  <2>1. Members = {} /\ LastInLine' = {}
    BY <1>1, <1>3
  <2>2. UNCHANGED passed
    BY <1>2, <2>1 DEF HistoryTyped
  <2>3. HistoryTyped' /\ PassedStandBehind'
    BY <1>1, <1>3, <2>1, <2>2 DEF HistoryTyped, PassedStandBehind
  <2>. QED
    BY <1>1, <2>2, <2>3 DEF Fair!vars
<1>4. CASE n # 0
  <2> DEFINE m == instances'[1]
  <2>1. m \in Members /\ LastInLine' = {m} /\ m = (IF n = 1 THEN instances[1] ELSE instances[2])
    BY <1>1, <1>4
  <2> HIDE DEF m
  <2>2. \A w \in Members \ {m} : m \notin passed[w]
    <3>1. ASSUME NEW w \in Members \ {m}, m \in passed[w]
          PROVE  FALSE
      <4>1. PICK k \in 1..n : instances[k] = w
        BY <1>1
      <4>2. n # 1
        BY <1>1, <2>1, <3>1, <4>1
      <4>3. 2 \in 1..n /\ m = instances[2]
        BY <1>1, <1>4, <2>1, <4>2
      <4>4. PlaceInLine(k) < PlaceInLine(2)
        BY <1>1, <3>1, <4>1, <4>3 DEF PassedStandBehind
      <4>5. k # 2
        BY <3>1, <4>1, <4>3
      <4>. QED
        BY <1>0, <1>1, <4>2, <4>3, <4>4, <4>5
    <3>. QED
      BY <3>1
  <2>3. passed' = [i \in Instance |-> IF i \in Members \ {m} THEN passed[i] \union {m} ELSE {}]
    BY <1>2, <2>1
  <2>4. Fair!Serve(m)
    BY <1>1, <2>1, <2>2, <2>3 DEF Fair!Serve
  <2>5. HistoryTyped'
    BY <1>1, <2>1, <2>3 DEF HistoryTyped
  <2>6. PassedStandBehind'
    <3>1. ASSUME NEW j \in 1..n, NEW k \in 1..n,
                 instances'[j] \in passed'[instances'[k]]
          PROVE  PlaceInLine(k)' < PlaceInLine(j)'
      <4> DEFINE J == IF j = n THEN 1 ELSE j + 1
                 K == IF k = n THEN 1 ELSE k + 1
      <4>1. /\ J \in 1..n /\ K \in 1..n
            /\ instances'[j] = instances[J]
            /\ instances'[k] = instances[K]
        BY <1>1, <1>4
      <4>2. instances[K] \in Members \ {m} /\ instances[K] \in Instance
        BY <1>1, <2>3, <3>1, <4>1
      <4>3. k # 1
        BY <4>1, <4>2 DEF m
      <4>4. CASE j = 1
        BY <1>0, <1>1, <4>3, <4>4
      <4>5. CASE j # 1
        <5>1. instances[J] # m
          BY <1>1, <1>4, <4>1, <4>5 DEF m
        <5>2. instances[J] \in passed[instances[K]]
          BY <2>3, <3>1, <4>1, <4>2, <5>1
        <5>3. PlaceInLine(K) < PlaceInLine(J)
          BY <1>1, <4>1, <5>2 DEF PassedStandBehind
        <5>. QED
          BY <1>0, <1>1, <4>1, <4>3, <4>5, <5>3
      <4>. QED
        BY <4>4, <4>5
    <3>. QED
      BY <1>1, <3>1 DEF PassedStandBehind
  <2>. QED
    BY <1>1, <2>1, <2>4, <2>5, <2>6 DEF Fair!Next
<1>. QED
  BY <1>3, <1>4

(* What a removal does to the line: those who stay keep their order, but   *)
(* for the one that becomes the head in place of a removed one.            *)
LEMMA FairTakeOut ==
    ASSUME FairInv, PoolInv', Removed,
           NEW c \in Call, NEW at \in 0..Len(instances), NEW n \in Nat,
           TakeOut(c, at, n)
    PROVE  PassedStandBehind'
<1> USE DEF FairInv
<1>1. /\ Len(instances) \in Nat
      /\ DOMAIN instances = 1..Len(instances)
      /\ instances \in Seq(Instance)
      /\ \A x : x \in Members <=> \E k \in 1..Len(instances) : instances[k] = x
      /\ \A j, k \in 1..Len(instances) : instances[j] = instances[k] => j = k
      /\ LastInLine = IF Len(instances) = 0 THEN {} ELSE {instances[1]}
      /\ IsInjective(instances)
  BY ArrayFacts DEF PoolInv, PoolSound
<1>2. /\ instances' \in Seq(Instance)
      /\ Len(instances') = IF at + n <= Len(instances) THEN Len(instances) - n ELSE at
      /\ \A k \in 1..Len(instances') :
            instances'[k] = IF k <= at THEN instances[k] ELSE instances[k + n]
  <2>1. instances' = Spliced(instances, at, n)
    BY DEF TakeOut
  <2>2. /\ Spliced(instances, at, n) \in Seq(Instance)
        /\ Len(Spliced(instances, at, n)) =
              IF at + n <= Len(instances) THEN Len(instances) - n ELSE at
        /\ \A k \in 1..Len(Spliced(instances, at, n)) :
              Spliced(instances, at, n)[k] = IF k <= at THEN instances[k] ELSE instances[k + n]
    <3>1. instances \in Seq(Instance) /\ IsInjective(instances)
      BY <1>1
    <3>. QED
      BY ONLY <3>1, SpliceArray, at \in 0..Len(instances), n \in Nat
  <2>. QED
    BY <2>1, <2>2
<1>3. /\ Len(instances') \in Nat
      /\ DOMAIN instances' = 1..Len(instances')
      /\ LastInLine' = IF Len(instances') = 0 THEN {} ELSE {instances'[1]}
  <2>1. instances' # <<>> => Head(instances') = instances'[1]
    BY <1>2
  <2>. QED
    BY <1>2, <2>1, LenProperties, EmptySeq DEF LastInLine
<1>4. passed' = [i \in Instance |-> IF i \in Members' \ (LastInLine' \ LastInLine)
                                    THEN passed[i] \intersect Members' ELSE {}]
  BY DEF Removed
<1>5. ASSUME NEW j \in 1..Len(instances'), NEW k \in 1..Len(instances'),
             instances'[j] \in passed'[instances'[k]]
      PROVE  PlaceInLine(k)' < PlaceInLine(j)'
  <2> DEFINE J == IF j <= at THEN j ELSE j + n
             K == IF k <= at THEN k ELSE k + n
  <2>1. /\ J \in 1..Len(instances) /\ K \in 1..Len(instances)
        /\ instances'[j] = instances[J]
        /\ instances'[k] = instances[K]
    <3> DEFINE old == Len(instances)
               new == Len(instances')
    <3>1. \A p \in 1..new : IF p <= at THEN p \in 1..old ELSE p + n \in 1..old
      <4>1. /\ old \in Nat /\ new \in Nat /\ n \in Nat /\ at \in 0..old
            /\ new = IF at + n <= old THEN old - n ELSE at
        BY <1>1, <1>2, <1>3
      <4>. HIDE DEF old, new
      <4>. QED
        BY ONLY <4>1
    <3>. QED
      BY <1>2, <3>1
  <2>2. instances[K] \in Instance
    BY <1>1, <2>1, RangeOfArray
  <2>3. /\ instances[K] \notin LastInLine' \ LastInLine
        /\ instances[J] \in passed[instances[K]]
    BY <1>4, <1>5, <2>1, <2>2
  <2>4. PlaceInLine(K) < PlaceInLine(J)
    BY <1>1, <2>1, <2>3 DEF PassedStandBehind
  <2>5. K # 1
    BY <1>1, <2>1, <2>4 DEF PlaceInLine
  <2>6. k # 1
    <3>1. ASSUME k = 1
          PROVE  instances[K] \in LastInLine' \ LastInLine
      BY <1>1, <1>3, <2>1, <2>5, <3>1
    <3>. QED
      BY <2>3, <3>1
  <2>7. PlaceInLine(k)' = k /\ k <= Len(instances')
    BY <2>6 DEF PlaceInLine
  <2>8. CASE j = 1
    BY <1>3, <2>7, <2>8 DEF PlaceInLine
  <2>9. CASE j # 1
    <3>1. PlaceInLine(K) = K /\ PlaceInLine(J) = J
      BY <2>5, <2>9 DEF PlaceInLine
    <3>2. K < J
      BY <2>4, <3>1
    <3>3. k < j
      BY <3>2
    <3>. QED
      BY <2>7, <2>9, <3>3 DEF PlaceInLine
  <2>. QED
    BY <2>8, <2>9
<1>. QED
  BY <1>3, <1>5 DEF PassedStandBehind

(* remove(), remove_at(), remove_by_name() and the end of exit(): those    *)
(* who leave are a Leave of the abstract specification.                    *)
LEMMA FairRemoved ==
    ASSUME FairInv, PoolInv', Removed
    PROVE  FairInv' /\ Fair!Next
<1> USE DEF FairInv
<1>1. Removing
  BY DEF Removed
<1>2. Members' \subseteq Members /\ PassedStandBehind'
  <2>1. ASSUME NEW c \in Call, NEW at \in 0..Len(instances), NEW n \in Nat, TakeOut(c, at, n)
        PROVE  Members' \subseteq Members /\ PassedStandBehind'
    BY <2>1, FairTakeOut, TakeOutPreserves
  <2>2. ASSUME NEW c \in Call, NEW at \in 0..Len(instances), NEW n \in 1..Len(instances),
               RemoveInstances(c, at, n)
        PROVE  Members' \subseteq Members /\ PassedStandBehind'
    BY <2>1, <2>2 DEF RemoveInstances
  <2>3. ASSUME NEW c \in Call, NEW i \in Named, RemoveByName(c, i)
        PROVE  Members' \subseteq Members /\ PassedStandBehind'
    <3>1. PICK k \in DOMAIN instances : TakeOut(c, k - 1, 1)
      BY <2>3 DEF RemoveByName
    <3>2. k - 1 \in 0..Len(instances)
      BY ArrayFacts
    <3>. QED
      BY <2>1, <3>1, <3>2
  <2>4. ASSUME NEW c \in Call, ExitDone(c)
        PROVE  Members' \subseteq Members /\ PassedStandBehind'
    <3>1. instances' = <<>>
      BY <2>4 DEF ExitDone
    <3>. QED
      BY <3>1, EmptyArray DEF Members, PassedStandBehind
  <2>. QED
    BY <1>1, <2>2, <2>3, <2>4 DEF Removing
<1>3. passed' = [i \in Instance |-> IF i \in Members' \ (LastInLine' \ LastInLine)
                                    THEN passed[i] \intersect Members' ELSE {}]
  BY DEF Removed
<1>4. HistoryTyped'
  BY <1>3 DEF HistoryTyped
<1>5. Fair!Next
  <2> DEFINE S == Members \ Members'
             F == (LastInLine' \ LastInLine) \intersect Members'
  <2>1. Members' = Members \ S
    BY <1>2
  <2>2. F \in {{}} \union {{m} : m \in Members'}
    BY DEF LastInLine
  <2>3. Members \subseteq Instance
    BY ArrayFacts
  <2>4. passed' = [w \in Instance |-> IF w \in (Members \ S) \ F THEN passed[w] \ S ELSE {}]
    BY <1>3, <2>1, <2>3 DEF HistoryTyped
  <2>5. Fair!Leave(S)
    BY <2>1, <2>2, <2>4 DEF Fair!Leave
  <2>. QED
    BY <2>5 DEF Fair!Next
<1>. QED
  BY <1>2, <1>4, <1>5

(* Every step of the pool is a step of the abstract specification, or a    *)
(* stutter, and keeps the line in order.                                   *)
LEMMA FairStep ==
    ASSUME FairInv, [FairNext]_fairVars
    PROVE  FairInv' /\ [Fair!Next]_(Fair!vars)
<1>1. PoolInv'
  <2>1. [Next]_poolVars
    BY DEF FairNext, fairVars, Served, Removed, Next
  <2>. QED
    BY <2>1, PoolInvNext DEF FairInv
<1>2. CASE UNCHANGED fairVars
  BY <1>1, <1>2, FairStutter DEF fairVars, poolVars
<1>3. CASE Creating /\ UNCHANGED passed
  <2>1. ASSUME UNCHANGED instances
        PROVE  FairInv' /\ [Fair!Next]_(Fair!vars)
    BY <1>1, <1>3, <2>1, FairStutter
  <2>2. ASSUME NEW i \in Instance, Push(i)
        PROVE  FairInv' /\ [Fair!Next]_(Fair!vars)
    BY <1>1, <1>3, <2>2, FairPush DEF Fair!Next
  <2>3. ASSUME NEW S \in SUBSET Instance \ {{}}, Add(S)
        PROVE  UNCHANGED instances
    BY <2>3 DEF Add, Begin
  <2>4. ASSUME NEW i \in Instance,
               \/ MkdirDone(i) \/ MkdirFails(i)
               \/ CreateRejected(i) \/ ReadyEvent(i) \/ ErrorEvent(i)
        PROVE  UNCHANGED instances
    BY <2>4 DEF MkdirDone, MkdirFails, Begin, CreateRejected, ReadyEvent, ErrorEvent
  <2>. QED
    BY <1>3, <2>1, <2>2, <2>3, <2>4 DEF Creating
<1>4. CASE Served
  BY <1>1, <1>4, FairServed
<1>5. CASE Removed
  BY <1>1, <1>5, FairRemoved
<1>6. CASE Other /\ UNCHANGED passed
  <2>1. UNCHANGED instances
    BY <1>6 DEF Other, SetLoadBalanceMethod, ExitPool, ProcessEnds
  <2>. QED
    BY <1>1, <1>6, <2>1, FairStutter
<1>. QED
  BY <1>2, <1>3, <1>4, <1>5, <1>6 DEF FairNext

(* The array of the pool is the line of the abstract specification, as far *)
(* as the history of next() is concerned, through every call.              *)
THEOREM FairInvariant == RoundRobinSpec => []FairInv
<1>1. FairInit => FairInv
  BY FairInvInit
<1>2. FairInv /\ [FairNext]_fairVars => FairInv'
  BY FairStep
<1>. QED
  BY <1>1, <1>2, PTL DEF RoundRobinSpec

-----------------------------------------------------------------------------
(* Whoever was served since a member's turn stands behind it in line.      *)
THEOREM PassedBehind == RoundRobinSpec => []PassedStandBehind
<1>1. FairInv => PassedStandBehind
  BY DEF FairInv
<1>. QED
  BY <1>1, FairInvariant, PTL

(* Round robin is fair, whatever creations, removals and exits come in     *)
(* between: the pool implements FairSelection.                             *)
THEOREM PoolServesInTurn == RoundRobinSpec => ServesInTurn
<1>1. FairInit => Fair!Init
  BY FairInvInit
<1>2. FairInv /\ [FairNext]_fairVars => [Fair!Next]_(Fair!vars)
  BY FairStep
<1>. QED
  BY <1>1, <1>2, FairInvariant, PTL DEF RoundRobinSpec, ServesInTurn, Fair!Spec
=============================================================================
