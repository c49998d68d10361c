------------------------ MODULE InstanceGroupsProofs ------------------------
(***************************************************************************)
(* The groups, for any number of instances, names and groups: sorting by   *)
(* the saved indexes gives back the array that was saved, and as long as   *)
(* no instance is in two groups at once, each group serves its members in  *)
(* turn, whoever leaves it and comes back.                                 *)
(***************************************************************************)
EXTENDS InstanceGroups, FiniteSetTheorems, TLAPS

(* A group is a finite part of the instances.                              *)
LEMMA GroupIsFinite ==
    ASSUME TypeOK, NEW g
    PROVE  /\ Members(g) \subseteq Instance
           /\ IsFiniteSet(Members(g))
           /\ NoIndex \in Nat
           /\ Cardinality(Members(g)) \in 0..NoIndex
<1>1. Members(g) \in SUBSET Instance
  BY DEF Members, TypeOK
<1>2. /\ IsFiniteSet(Members(g))
      /\ Cardinality(Members(g)) <= Cardinality(Instance)
  BY <1>1, FS_Subset, GroupAssumption
<1>. QED
  BY <1>1, <1>2, FS_CardinalityType, GroupAssumption DEF NoIndex

(* sortBy leaves no choice: names tell apart those whose _index is equal.  *)
LEMMA BeforeIsTotal ==
    ASSUME TypeOK, NEW i \in Instance, NEW j \in Instance
    PROVE  /\ ~Before(i, i)
           /\ Before(i, j) => ~Before(j, i)
           /\ Before(i, j) \/ Before(j, i) \/ i = j
           /\ \A k \in Instance : Before(i, j) /\ Before(j, k) => Before(i, k)
<1>1. NoIndex \in Nat
  BY GroupIsFinite
<1>2. /\ \A k \in Instance : _index[k] \in Nat /\ Rank[k] \in Nat
      /\ Rank[i] = Rank[j] => i = j
  BY <1>1, GroupAssumption DEF TypeOK
<1>. QED
  BY <1>2 DEF Before

(* The indexes of an array are those of an array of its size.              *)
LEMMA PositionInArray ==
    ASSUME TypeOK, NEW g, NEW i \in Members(g)
    PROVE  /\ Cardinality(Members(g)) \in 1..NoIndex
           /\ Position(g, i) \in 0..(Cardinality(Members(g)) - 1)
<1> DEFINE ahead == {j \in Members(g) : Before(j, i)}
           others == Members(g) \ {i}
<1>1. /\ IsFiniteSet(others)
      /\ Cardinality(others) = Cardinality(Members(g)) - 1
  BY GroupIsFinite, FS_RemoveElement
<1>2. ahead \in SUBSET others
  BY GroupIsFinite, BeforeIsTotal
<1>3. Cardinality(ahead) \in Nat /\ Cardinality(ahead) <= Cardinality(others)
  BY <1>1, <1>2, FS_Subset, FS_CardinalityType
<1>4. Cardinality(others) \in Nat
  BY <1>1, FS_CardinalityType
<1>5. Position(g, i) = Cardinality(ahead)
  BY DEF Position
<1> HIDE DEF ahead, others
<1>. QED
  BY <1>1, <1>3, <1>4, <1>5, GroupIsFinite

(* The positions are in the order of the sort.                             *)
LEMMA PositionFollowsOrder ==
    ASSUME TypeOK, NEW g, NEW i \in Members(g), NEW j \in Members(g)
    PROVE  /\ Before(i, j) <=> Position(g, i) < Position(g, j)
           /\ Position(g, i) = Position(g, j) => i = j
<1> DEFINE ahead(k) == {l \in Members(g) : Before(l, k)}
<1>1. \A k : Position(g, k) = Cardinality(ahead(k))
  BY DEF Position
<1>2. ASSUME NEW k \in Members(g), NEW l \in Members(g), Before(k, l)
      PROVE  Position(g, k) < Position(g, l)
  <2>1. k \in Instance /\ l \in Instance /\ Members(g) \subseteq Instance
    BY GroupIsFinite
  <2>2. ahead(k) \in SUBSET ahead(l)
    BY <1>2, <2>1, BeforeIsTotal
  <2>3. k \in ahead(l) /\ k \notin ahead(k)
    BY <1>2, <2>1, BeforeIsTotal
  <2>4. ahead(l) \in SUBSET Members(g)
    OBVIOUS
  <2>5. IsFiniteSet(ahead(l))
    BY <2>4, GroupIsFinite, FS_Subset
  <2>6. /\ Cardinality(ahead(k)) <= Cardinality(ahead(l))
        /\ Cardinality(ahead(l)) # Cardinality(ahead(k))
    BY <2>2, <2>3, <2>5, FS_Subset
  <2>7. Position(g, k) \in Int /\ Position(g, l) \in Int
    BY PositionInArray
  <2> HIDE DEF ahead
  <2>. QED
    BY <1>1, <2>6, <2>7
<1>3. Before(i, j) \/ Before(j, i) \/ i = j
  BY GroupIsFinite, BeforeIsTotal
<1>4. ~Before(i, i)
  BY GroupIsFinite, BeforeIsTotal
<1>5. Position(g, i) \in Int /\ Position(g, j) \in Int
  BY PositionInArray
<1>6. /\ Before(i, j) => Position(g, i) < Position(g, j)
      /\ Before(j, i) => Position(g, j) < Position(g, i)
  BY <1>2
<1>. QED
  BY <1>3, <1>4, <1>5, <1>6

(* As many different places as there are members: every one is taken.     *)
LEMMA InjectionOnPlaces ==
    ASSUME NEW M, IsFiniteSet(M), NEW f \in [M -> 0..(Cardinality(M) - 1)],
           \A i, j \in M : f[i] = f[j] => i = j
    PROVE  f \in Bijection(M, 0..(Cardinality(M) - 1))
<1>1. f \in Injection(M, 0..(Cardinality(M) - 1))
  BY DEF Injection, IsInjective
<1>2. Cardinality(M) \in Nat
  BY FS_CardinalityType
<1>3. /\ IsFiniteSet(0..(Cardinality(M) - 1))
      /\ Cardinality(0..(Cardinality(M) - 1)) = Cardinality(M)
  <2>1. ASSUME NEW q \in Nat
        PROVE  IsFiniteSet(0..(q - 1)) /\ Cardinality(0..(q - 1)) = q
    BY FS_Interval
  <2>. QED
    BY ONLY <1>2, <2>1
<1>4. f \in Surjection(M, 0..(Cardinality(M) - 1))
  BY <1>1, <1>3, FS_Injection
<1>. QED
  BY <1>1, <1>4 DEF Bijection

(* Every place of the array of a group is taken by one member.             *)
LEMMA PositionIsTaken ==
    ASSUME TypeOK, NEW g, NEW p \in 0..(Cardinality(Members(g)) - 1)
    PROVE  \E i \in Members(g) : Position(g, i) = p
<1> DEFINE M == Members(g)
           f == [i \in M |-> Position(g, i)]
<1>1. f \in [M -> 0..(Cardinality(M) - 1)]
  BY PositionInArray
<1>2. \A i, j \in M : f[i] = f[j] => i = j
  BY PositionFollowsOrder
<1>3. IsFiniteSet(M)
  BY GroupIsFinite
<1> HIDE DEF f, M
<1>4. f \in Bijection(M, 0..(Cardinality(M) - 1))
  BY <1>1, <1>2, <1>3, InjectionOnPlaces
<1>5. PICK i \in M : f[i] = p
  BY <1>4 DEF Bijection, Surjection, M
<1>. QED
  BY <1>5 DEF f, M

(* Conversely, numbers from 0 on given to the members are the positions    *)
(* that sorting by them yields.                                            *)
LEMMA CountBelow ==
    ASSUME NEW M, NEW n \in Nat, NEW h \in Bijection(M, 0..(n - 1)), NEW i \in M
    PROVE  Cardinality({j \in M : h[j] < h[i]}) = h[i]
<1> DEFINE below == {j \in M : h[j] < h[i]}
           f == [j \in below |-> h[j]]
<1>1. /\ h \in [M -> 0..(n - 1)]
      /\ \A j, k \in M : h[j] = h[k] => j = k
      /\ \A p \in 0..(n - 1) : \E j \in M : h[j] = p
  BY DEF Bijection, Injection, Surjection, IsInjective
<1>2. h[i] \in 0..(n - 1)
  BY <1>1
<1>3. f \in [below -> 0..(h[i] - 1)]
  <2>1. \A j \in below : h[j] \in 0..(h[i] - 1)
    BY <1>1, <1>2
  <2>. QED
    BY <2>1
<1>4. \A j, k \in below : f[j] = f[k] => j = k
  BY <1>1
<1>5. ASSUME NEW p \in 0..(h[i] - 1)
      PROVE  \E j \in below : f[j] = p
  <2>1. p \in 0..(n - 1) /\ p < h[i]
    BY <1>2
  <2>2. PICK j \in M : h[j] = p
    BY <1>1, <2>1
  <2>. QED
    BY <2>1, <2>2
<1>6. f \in Bijection(below, 0..(h[i] - 1))
  <2> HIDE DEF f, below
  <2>. QED
    BY <1>3, <1>4, <1>5 DEF Bijection, Injection, Surjection, IsInjective
<1>7. /\ IsFiniteSet(0..(h[i] - 1))
      /\ Cardinality(0..(h[i] - 1)) = h[i]
  <2>1. ASSUME NEW q \in Nat
        PROVE  IsFiniteSet(0..(q - 1)) /\ Cardinality(0..(q - 1)) = q
    BY FS_Interval
  <2>2. h[i] \in Nat
    BY <1>2
  <2>. QED
    BY ONLY <2>1, <2>2
<1> HIDE DEF f
<1>8. IsFiniteSet(below) /\ Cardinality(below) = h[i]
  BY <1>6, <1>7, FS_Injection DEF Bijection
<1>. QED
  BY <1>8

-----------------------------------------------------------------------------
(* What save_index() writes: the indexes of an array turned by one, or not *)
(* at all, are again the indexes of an array of the same members.          *)
LEMMA SavedIndex ==
    ASSUME TypeOK, NEW g, NEW n \in {0, 1}, SaveIndex(g, n)
    PROVE  /\ \A i \in Members(g) :
                 /\ _index'[i] = (Position(g, i) + Cardinality(Members(g)) - n)
                                    % Cardinality(Members(g))
                 /\ _index'[i] \in 0..(Cardinality(Members(g)) - 1)
                 /\ _index'[i] = IF Position(g, i) >= n THEN Position(g, i) - n
                                 ELSE Cardinality(Members(g)) - 1
           /\ \A i \in Instance \ Members(g) : _index'[i] = _index[i]
           /\ _index' \in [Instance -> 0..NoIndex]
<1> DEFINE size == Cardinality(Members(g))
<1>1. Members(g) \subseteq Instance
  BY GroupIsFinite
<1>2. _index' = [i \in Instance |-> IF i \in Members(g) THEN (Position(g, i) + size - n) % size
                                                        ELSE _index[i]]
  BY DEF SaveIndex
<1>3. NoIndex \in Nat /\ size \in 0..NoIndex
  BY GroupIsFinite
<1>4. ASSUME NEW i \in Members(g)
      PROVE  /\ _index'[i] = (Position(g, i) + size - n) % size
             /\ _index'[i] \in 0..(size - 1)
             /\ _index'[i] = IF Position(g, i) >= n THEN Position(g, i) - n ELSE size - 1
  <2>1. size \in 1..NoIndex /\ Position(g, i) \in 0..(size - 1)
    BY PositionInArray
  <2>2. _index'[i] = (Position(g, i) + size - n) % size
    BY <1>1, <1>2
  <2> HIDE DEF size
  <2>3. \A s \in Nat \ {0} : \A p \in 0..(s - 1) :
           (p + s) % s = p /\ (p + s - 1) % s = IF p >= 1 THEN p - 1 ELSE s - 1
    OBVIOUS
  <2>4. (Position(g, i) + size - n) % size
           = IF Position(g, i) >= n THEN Position(g, i) - n ELSE size - 1
    <3>1. size \in Nat \ {0} /\ Position(g, i) \in 0..(size - 1)
      BY <1>3, <2>1
    <3>2. CASE n = 0
      BY <2>3, <3>1, <3>2
    <3>3. CASE n = 1
      BY <2>3, <3>1, <3>3
    <3>. QED
      BY <3>2, <3>3
  <2>. QED
    BY <1>3, <2>1, <2>2, <2>4
<1>5. \A i \in Instance \ Members(g) : _index'[i] = _index[i]
  BY <1>2
<1> HIDE DEF size
<1>6. _index' \in [Instance -> 0..NoIndex]
  <2>1. \A i \in Instance : _index'[i] \in 0..NoIndex
    BY <1>1, <1>3, <1>4, <1>5 DEF TypeOK
  <2>. QED
    BY <1>2, <2>1
<1>. QED
  BY <1>4, <1>5, <1>6 DEF size

(* next_by_group(), and any other save: the array sorted anew is the array *)
(* that was saved.                                                         *)
LEMMA SortedAsSaved ==
    ASSUME TypeOK, NEW g, NEW n \in {0, 1}, SaveIndex(g, n), UNCHANGED <<pool, Group>>
    PROVE  \A i \in Members(g) : Position(g, i)' = _index'[i]
<1> DEFINE M == Members(g)
           size == Cardinality(M)
           h == [i \in M |-> _index'[i]]
<1>1. Members(g)' = M /\ M \subseteq Instance
  BY GroupIsFinite DEF Members
<1>2. IsFiniteSet(M) /\ size \in Nat
  BY GroupIsFinite
<1>3. ASSUME NEW i \in M
      PROVE  /\ _index'[i] \in 0..(size - 1)
             /\ _index'[i] = IF Position(g, i) >= n THEN Position(g, i) - n ELSE size - 1
             /\ Position(g, i) \in 0..(size - 1)
  BY SavedIndex, PositionInArray
<1>4. ASSUME NEW i \in M, NEW j \in M, Position(g, i) = Position(g, j)
      PROVE  i = j
  BY <1>4, PositionFollowsOrder
<1> HIDE DEF M, size
<1>5. ASSUME NEW i \in M, NEW j \in M, _index'[i] = _index'[j]
      PROVE  i = j
  <2>1. Position(g, i) = Position(g, j)
    BY <1>2, <1>3, <1>5
  <2>. QED
    BY <1>4, <2>1
<1>6. h \in Bijection(M, 0..(size - 1))
  <2>1. h \in [M -> 0..(size - 1)] /\ \A i, j \in M : h[i] = h[j] => i = j
    BY <1>3, <1>5
  <2>. HIDE DEF h
  <2>. QED
    BY <1>2, <2>1, InjectionOnPlaces DEF size
<1>7. ASSUME NEW i \in M, NEW j \in M
      PROVE  Before(j, i)' <=> h[j] < h[i]
  <2>1. _index'[i] = _index'[j] => ~(Rank[j] < Rank[i])
    <3>1. Rank[i] \in Nat
      BY <1>1, GroupAssumption
    <3>. QED
      BY <1>5, <3>1
  <2>. QED
    BY <2>1 DEF Before
<1>8. ASSUME NEW i \in M
      PROVE  Position(g, i)' = _index'[i]
  <2>1. {j \in M : h[j] < h[i]} = {j \in M : Before(j, i)'}
    BY <1>7
  <2>2. Cardinality({j \in M : h[j] < h[i]}) = h[i]
    BY <1>2, <1>6, CountBelow
  <2>3. Position(g, i)' = Cardinality({j \in M : Before(j, i)'})
    BY <1>1 DEF Position
  <2>. QED
    BY <2>1, <2>2, <2>3
<1>. QED
  BY <1>8 DEF M

-----------------------------------------------------------------------------
(* Before any instance is there.                                           *)
LEMMA GroupTypeInit ==
    ASSUME Init
    PROVE  TypeOK
<1>1. Cardinality(Instance) \in Nat
  BY FS_CardinalityType, GroupAssumption
<1>. QED
  BY <1>1 DEF Init, TypeOK, NoIndex

(* Every operation leaves the variables within their types.                *)
LEMMA GroupTypeStep ==
    ASSUME TypeOK, [Next]_vars
    PROVE  TypeOK'
<1>1. ASSUME Forget, pool' \subseteq Instance
      PROVE  passed' \in [Instance -> SUBSET Instance]
  <2>1. \A i \in Instance : passed'[i] \subseteq Instance
    BY <1>1 DEF Forget, TypeOK
  <2>. QED
    BY <1>1, <2>1 DEF Forget
<1>0. ASSUME NEW i, Welcome(i)
      PROVE  passed' \in [Instance -> SUBSET Instance]
  <2>1. \A j \in Instance : passed'[j] \subseteq Instance
    BY <1>0 DEF Welcome, TypeOK
  <2>. QED
    BY <1>0, <2>1 DEF Welcome
<1>2. ASSUME NEW g, NEW n \in {0, 1}, SaveIndex(g, n)
      PROVE  _index' \in [Instance -> 0..NoIndex]
  BY <1>2, SavedIndex
<1>3. ASSUME NEW i \in Instance, NEW G \in SUBSET GroupName, AddInstance(i, G)
      PROVE  TypeOK'
  BY <1>0, <1>3 DEF AddInstance, TypeOK
<1>4. ASSUME NEW i \in Instance, RemoveInstance(i)
      PROVE  TypeOK'
  BY <1>1, <1>4 DEF RemoveInstance, TypeOK
<1>5. ASSUME NEW g \in GroupName, NEW i \in Instance, AddInstanceToGroup(g, i)
      PROVE  TypeOK'
  BY <1>0, <1>5 DEF AddInstanceToGroup, TypeOK
<1>6. ASSUME NEW g \in GroupName, NEW i \in Instance, GroupAdd(g, i)
      PROVE  TypeOK'
  BY <1>0, <1>2, <1>6 DEF GroupAdd, TypeOK
<1>7. ASSUME NEW g \in GroupName, NEW i \in Instance, RemoveInstanceFromGroup(g, i)
      PROVE  TypeOK'
  BY <1>1, <1>7 DEF RemoveInstanceFromGroup, TypeOK
<1>8. ASSUME NEW g \in GroupName, NEW i \in Instance, GroupRemove(g, i)
      PROVE  TypeOK'
  BY <1>1, <1>2, <1>8 DEF GroupRemove, TypeOK
<1>9. ASSUME NEW g \in GroupName, NextByGroup(g)
      PROVE  TypeOK'
  <2>1. UNCHANGED <<pool, gone, Group>> /\ SaveIndex(g, 1)
    BY <1>9 DEF NextByGroup
  <2>2. First(g)' \subseteq Instance
    BY <2>1 DEF First, Members, TypeOK
  <2>3. passed' \in [Instance -> SUBSET Instance]
    BY <1>9, <2>2 DEF NextByGroup, TypeOK
  <2>. QED
    BY <1>2, <2>1, <2>3 DEF TypeOK
<1>10. CASE UNCHANGED vars
  BY <1>10 DEF vars, TypeOK
<1>. QED
  BY <1>3, <1>4, <1>5, <1>6, <1>7, <1>8, <1>9, <1>10 DEF Next

(* An instance is in the pool or gone from it, and every saved _index is a *)
(* place in an array of instances, or none yet.                            *)
THEOREM GroupTypeCorrect == Spec => []TypeOK
<1>1. Init => TypeOK
  BY GroupTypeInit
<1>2. TypeOK /\ [Next]_vars => TypeOK'
  BY GroupTypeStep
<1>. QED
  BY <1>1, <1>2, PTL DEF Spec

(* next_by_group() turns the array of the group by one, whatever came      *)
(* before: instances that share an _index, have none, or left a gap.       *)
THEOREM NextTurnsTheArray == Spec => RotatesArray
<1>1. ASSUME TypeOK, NEW g \in GroupName, NextByGroup(g), NEW i \in Members(g)
      PROVE  Position(g, i)' = (Position(g, i) + Cardinality(Members(g)) - 1)
                                  % Cardinality(Members(g))
  <2>1. SaveIndex(g, 1) /\ UNCHANGED <<pool, Group>>
    BY <1>1 DEF NextByGroup
  <2>2. Position(g, i)' = _index'[i]
    BY <1>1, <2>1, SortedAsSaved
  <2>3. _index'[i] = (Position(g, i) + Cardinality(Members(g)) - 1) % Cardinality(Members(g))
    BY <1>1, <2>1, SavedIndex
  <2>. QED
    BY <2>2, <2>3
<1>2. TypeOK => [\A g \in GroupName :
                    NextByGroup(g) =>
                       LET size == Cardinality(Members(g))
                       IN  \A i \in Members(g) :
                              Position(g, i)' = (Position(g, i) + size - 1) % size]_vars
  BY <1>1
<1>. QED
  BY <1>2, GroupTypeCorrect, PTL DEF RotatesArray

-----------------------------------------------------------------------------
(* The head of a group is the member that nobody is before.                *)
LEMMA FirstIsHead ==
    TypeOK => \A g \in GroupName : \A i : i \in First(g) <=>
                 i \in Members(g) /\ \A j \in Members(g) : ~Before(j, i)
<1> SUFFICES ASSUME TypeOK, NEW g \in GroupName, NEW i \in Members(g)
             PROVE  Position(g, i) = 0 <=> \A j \in Members(g) : ~Before(j, i)
  BY DEF First
<1> DEFINE ahead == {j \in Members(g) : Before(j, i)}
<1>1. ahead \in SUBSET Members(g)
  OBVIOUS
<1>2. IsFiniteSet(ahead)
  BY <1>1, GroupIsFinite, FS_Subset
<1>3. Cardinality(ahead) = 0 <=> ahead = {}
  BY <1>2, FS_EmptySet
<1>. QED
  BY <1>3 DEF Position

(* There is one at most.                                                   *)
LEMMA OneHead ==
    TypeOK => \A g \in GroupName : \A i, j \in First(g) : i = j
BY PositionFollowsOrder DEF First

(* What was shown of heads and positions, as predicates of a state.        *)
HeadIsFirst ==
    /\ \A i : i \in First(Watched) <=>
          i \in Members(Watched) /\ \A j \in Members(Watched) : ~Before(j, i)
    /\ \A i, j \in First(Watched) : i = j

PositionsInOrder ==
    \A i, j \in Members(Watched) :
       Before(i, j) <=> Position(Watched, i) < Position(Watched, j)

OrderIsTotal ==
    \A i, j, k \in Instance :
       /\ ~Before(i, i)
       /\ Before(i, j) \/ Before(j, i) \/ i = j
       /\ Before(i, j) /\ Before(j, k) => Before(i, k)

(* They hold of the state after a step as well.                            *)
LEMMA OrderOfStates ==
    /\ TypeOK => HeadIsFirst /\ PositionsInOrder /\ OrderIsTotal
    /\ TypeOK' => HeadIsFirst' /\ PositionsInOrder' /\ OrderIsTotal'
<1>1. TypeOK => HeadIsFirst
  BY FirstIsHead, OneHead, GroupAssumption DEF HeadIsFirst
<1>2. TypeOK => PositionsInOrder
  BY PositionFollowsOrder DEF PositionsInOrder
<1>3. TypeOK => OrderIsTotal
  BY BeforeIsTotal DEF OrderIsTotal
<1>. QED
  BY <1>1, <1>2, <1>3, PTL

(* Who stands before whom in the line to be served: the head, which was    *)
(* served last, stands at its end.                                         *)
Stands(i, p) ==
    /\ i \notin First(Watched)
    /\ p \in First(Watched) \/ Before(i, p)

(* Without overlap an instance is in one group at a time.                  *)
OneGroup == \A i \in Instance : \A g, h \in Group[i] : g = h

HistoryTyped ==
    \A i \in Instance :
        /\ passed[i] \subseteq Members(Watched)
        /\ i \notin Members(Watched) => passed[i] = {}

PassedStandBehind == \A i \in Members(Watched) : \A p \in passed[i] : Stands(i, p)

(* The inductive invariant: the saved indexes keep the members of Watched  *)
(* in a line, with whom a member has passed behind it.                     *)
LineInv ==
    /\ TypeOK
    /\ OneGroup
    /\ HistoryTyped
    /\ PassedStandBehind

(* What most steps do to the line: the members keep their order.           *)
OrderKept == \A i, j \in Members(Watched) : Before(i, j)' <=> Before(i, j)

LineKept == HistoryTyped' /\ PassedStandBehind'

(* A save numbers the members of its group, and touches no other.          *)
LEMMA SaveIndexes ==
    ASSUME TypeOK, NEW g, NEW n \in {0, 1}, SaveIndex(g, n)
    PROVE  /\ \A i \in Members(g) : _index'[i] # NoIndex
           /\ \A i \in Instance \ Members(g) : _index'[i] = _index[i]
<1>1. NoIndex \in Nat /\ Cardinality(Members(g)) \in 0..NoIndex
  BY GroupIsFinite
<1>2. /\ \A i \in Members(g) : _index'[i] \in 0..(Cardinality(Members(g)) - 1)
      /\ \A i \in Instance \ Members(g) : _index'[i] = _index[i]
  BY SavedIndex
<1>. QED
  BY <1>1, <1>2

(* Saving the array as it is, or another group's, keeps the order.         *)
LEMMA SaveKeepsOrder ==
    ASSUME LineInv, NEW g \in GroupName, NEW n \in {0, 1}, SaveIndex(g, n),
           g = Watched => n = 0
    PROVE  OrderKept
<1> USE DEF LineInv
<1>2. Members(Watched) \subseteq Instance
  BY GroupIsFinite
<1>3. CASE g = Watched
  <2>1. \A i \in Members(g) : _index'[i] = Position(g, i)
    <3>1. ASSUME NEW i \in Members(g)
          PROVE  _index'[i] = Position(g, i)
      <4>1. /\ Position(g, i) \in Nat
            /\ _index'[i] = IF Position(g, i) >= 0 THEN Position(g, i) - 0
                            ELSE Cardinality(Members(g)) - 1
        BY <1>3, SavedIndex, PositionInArray
      <4>. QED
        BY <4>1
    <3>. QED
      BY <3>1
  <2>2. ASSUME NEW i \in Members(g), NEW j \in Members(g)
        PROVE  Before(i, j)' <=> Before(i, j)
    <3>1. /\ Before(i, j) <=> Position(g, i) < Position(g, j)
          /\ Position(g, i) = Position(g, j) => i = j
      BY PositionFollowsOrder
    <3>2. Rank[i] \in Nat
      BY <1>2, <1>3, GroupAssumption
    <3>3. Before(i, j)' <=> \/ Position(g, i) < Position(g, j)
                            \/ Position(g, i) = Position(g, j) /\ Rank[i] < Rank[j]
      BY <2>1 DEF Before
    <3>. QED
      BY <3>1, <3>2, <3>3
  <2>. QED
    BY <1>3, <2>2 DEF OrderKept
<1>4. CASE g # Watched
  <2>1. Members(g) \intersect Members(Watched) = {}
    BY <1>2, <1>4 DEF OneGroup, Members
  <2>2. \A i \in Members(Watched) : _index'[i] = _index[i]
    BY <1>2, <2>1, SaveIndexes
  <2>. QED
    BY <2>2 DEF OrderKept, Before
<1>. QED
  BY <1>3, <1>4

-----------------------------------------------------------------------------
(* A step that leaves the members and their order alone leaves the line.   *)
LEMMA LineUnmoved ==
    ASSUME LineInv, TypeOK', OrderKept, Members(Watched)' = Members(Watched), UNCHANGED passed
    PROVE  LineKept /\ UNCHANGED Fair!vars
<1> USE DEF LineInv, LineKept
<1>1. HistoryTyped'
  BY GroupIsFinite DEF HistoryTyped
<1>2. \A i \in Instance : i \in First(Watched)' <=> i \in First(Watched)
  <2>1. \A i : i \in First(Watched) <=>
           i \in Members(Watched) /\ \A j \in Members(Watched) : ~Before(j, i)
    BY OrderOfStates DEF HeadIsFirst
  <2>2. \A i : i \in First(Watched)' <=>
           i \in Members(Watched)' /\ \A j \in Members(Watched)' : ~Before(j, i)'
    BY OrderOfStates DEF HeadIsFirst
  <2>. QED
    BY <2>1, <2>2 DEF OrderKept
<1>3. PassedStandBehind'
  BY <1>2, GroupIsFinite DEF PassedStandBehind, Stands, HistoryTyped, OrderKept
<1>. QED
  BY <1>1, <1>3 DEF Fair!vars

(* Who joins behind the head changes nothing for the others.  Who joins as *)
(* the head, with an _index from before, makes the last served the second  *)
(* of the array, and nobody has passed that any more.                      *)
LEMMA LineJoined ==
    ASSUME LineInv, TypeOK', OrderKept, NEW i \in Instance \ Members(Watched),
           Members(Watched)' = Members(Watched) \union {i}, Welcome(i)
    PROVE  LineKept /\ (Fair!Join(i) \/ Fair!JoinAhead(i))
<1> USE DEF LineInv, LineKept
<1> DEFINE M == Members(Watched)
<1>1. M \subseteq Instance /\ passed[i] = {}
  BY GroupIsFinite DEF HistoryTyped
<1>2. /\ \A x : x \in First(Watched) <=> x \in M /\ \A j \in M : ~Before(j, x)
      /\ \A x, y \in First(Watched) : x = y
  BY OrderOfStates DEF HeadIsFirst
<1>3. /\ \A x : x \in First(Watched)' <=> x \in M' /\ \A j \in M' : ~Before(j, x)'
      /\ \A x, y \in First(Watched)' : x = y
  BY OrderOfStates DEF HeadIsFirst
<1>4. passed' = [j \in Instance |-> IF i \in First(Watched)'
                                    THEN passed[j] \ First(Watched) ELSE passed[j]]
  BY DEF Welcome
<1>5. HistoryTyped'
  BY <1>1, <1>4 DEF HistoryTyped
<1>6. CASE i \in First(Watched)'
  <2>1. PassedStandBehind'
    <3> SUFFICES ASSUME NEW w \in M', NEW p \in passed'[w]
                 PROVE  Stands(w, p)'
      BY DEF PassedStandBehind
    <3>1. w \in M /\ p \in M /\ p \in passed[w] /\ p \notin First(Watched)
      BY <1>1, <1>4, <1>6 DEF HistoryTyped
    <3>2. Before(w, p)' /\ w \notin First(Watched)'
      BY <1>3, <1>6, <3>1 DEF PassedStandBehind, Stands, OrderKept
    <3>. QED
      BY <3>2 DEF Stands
  <2>2. First(Watched) \in {{}} \union {{f} : f \in M}
    BY <1>2
  <2>3. Fair!JoinAhead(i)
    BY <1>4, <1>6, <2>2 DEF Fair!JoinAhead
  <2>. QED
    BY <1>5, <2>1, <2>3
<1>7. CASE i \notin First(Watched)'
  <2>1. UNCHANGED passed
    BY <1>4, <1>7 DEF TypeOK
  <2>2. PICK j \in M : Before(j, i)'
    BY <1>3, <1>7, OrderOfStates DEF OrderIsTotal
  <2>3. ASSUME NEW x \in First(Watched)
        PROVE  x \in First(Watched)'
    <3>1. ~Before(j, x)' /\ x \in M
      BY <1>2, <2>2, <2>3 DEF OrderKept
    <3>2. OrderIsTotal'
      BY OrderOfStates
    <3>3. ~Before(i, x)'
      BY <1>1, <2>2, <3>1, <3>2 DEF OrderIsTotal
    <3>. QED
      BY <1>2, <1>3, <2>3, <3>3 DEF OrderKept
  <2>4. ASSUME NEW x \in First(Watched)'
        PROVE  x \in First(Watched)
    BY <1>2, <1>3, <1>7, <2>4 DEF OrderKept
  <2>5. PassedStandBehind'
    <3> SUFFICES ASSUME NEW w \in M', NEW p \in passed[w]
                 PROVE  Stands(w, p)'
      BY <2>1 DEF PassedStandBehind
    <3>1. w \in M /\ p \in M
      BY <1>1 DEF HistoryTyped
    <3>. QED
      BY <2>3, <2>4, <3>1 DEF PassedStandBehind, Stands, OrderKept
  <2>6. Fair!Join(i)
    BY <2>1 DEF Fair!Join
  <2>. QED
    BY <1>5, <2>5, <2>6
<1>. QED
  BY <1>6, <1>7

(* Who leaves takes nobody's place; the head it may make forgets.          *)
LEMMA LineLeft ==
    ASSUME LineInv, TypeOK', OrderKept, Members(Watched)' \subseteq Members(Watched), Forget
    PROVE  LineKept /\ Fair!Next
<1> USE DEF LineInv, LineKept
<1> DEFINE M == Members(Watched)
           S == M \ M'
           F == First(Watched)' \ First(Watched)
<1>1. /\ M \subseteq Instance
      /\ M' = M \ S
      /\ First(Watched)' \subseteq M'
  BY GroupIsFinite DEF First
<1>2. passed' = [x \in Instance |-> IF x \in M' \ F THEN passed[x] \intersect M' ELSE {}]
  BY DEF Forget
<1>3. HistoryTyped'
  BY <1>1, <1>2 DEF HistoryTyped
<1>4. PassedStandBehind'
  <2> SUFFICES ASSUME NEW w \in M', NEW p \in passed'[w]
               PROVE  Stands(w, p)'
    BY DEF PassedStandBehind
  <2>1. w \in M /\ w \notin F /\ p \in passed[w] /\ p \in M /\ p \in M'
    BY <1>1, <1>2
  <2>2. Stands(w, p)
    BY <2>1 DEF PassedStandBehind
  <2>3. \A x : x \in First(Watched)' <=> x \in M' /\ \A j \in M' : ~Before(j, x)'
    BY OrderOfStates DEF HeadIsFirst
  <2>4. \A x : x \in First(Watched) <=> x \in M /\ \A j \in M : ~Before(j, x)
    BY OrderOfStates DEF HeadIsFirst
  <2>. QED
    BY <1>1, <2>1, <2>2, <2>3, <2>4 DEF Stands, OrderKept
<1>5. Fair!Leave(S)
  <2>1. F \in {{}} \union {{m} : m \in M'}
    <3>1. \A x, y \in First(Watched)' : x = y
      BY OrderOfStates DEF HeadIsFirst
    <3>. QED
      BY <1>1, <3>1
  <2>2. passed' = [x \in Instance |-> IF x \in (M \ S) \ F THEN passed[x] \ S ELSE {}]
    BY <1>1, <1>2 DEF HistoryTyped
  <2>. QED
    BY <1>1, <2>1, <2>2 DEF Fair!Leave
<1>. QED
  BY <1>3, <1>4, <1>5 DEF Fair!Next

(* Who is served was the second of the array, and everybody else waits, or *)
(* had its turn before; now it is the head, at the end of the line.        *)
LEMMA LineServed ==
    ASSUME LineInv, TypeOK', NextByGroup(Watched)
    PROVE  LineKept /\ [Fair!Next]_(Fair!vars)
<1> USE DEF LineInv, LineKept
<1> DEFINE M == Members(Watched)
           size == Cardinality(M)
           P(x) == Position(Watched, x)
<1>1. /\ SaveIndex(Watched, 1)
      /\ UNCHANGED <<pool, Group>>
      /\ passed' = [x \in Instance |-> IF x \in M \ First(Watched)'
                                       THEN passed[x] \union First(Watched)' ELSE {}]
  BY DEF NextByGroup
<1>2. M' = M /\ M \subseteq Instance /\ size \in Nat /\ (size = 0 <=> M = {})
  <2>1. M' = M
    BY <1>1 DEF Members
  <2>2. M \subseteq Instance /\ IsFiniteSet(M) /\ size \in Nat
    BY GroupIsFinite
  <2>. HIDE DEF M
  <2>. QED
    BY <2>1, <2>2, FS_EmptySet
<1>3. ASSUME NEW x \in M
      PROVE  /\ P(x) \in 0..(size - 1)
             /\ P(x)' = IF P(x) = 0 THEN size - 1 ELSE P(x) - 1
  <2>1. P(x)' = _index'[x]
    BY <1>1, SortedAsSaved
  <2>2. /\ P(x) \in 0..(size - 1)
        /\ _index'[x] = IF P(x) >= 1 THEN P(x) - 1 ELSE size - 1
    BY <1>1, SavedIndex, PositionInArray
  <2>. QED
    BY <2>1, <2>2
<1>4. /\ \A x : x \in First(Watched) <=> x \in M /\ P(x) = 0
      /\ \A x : x \in First(Watched)' <=> x \in M /\ P(x)' = 0
  BY <1>2 DEF First
<1>5. \A x, y \in M : Before(x, y) <=> P(x) < P(y)
  BY PositionFollowsOrder
<1>6. \A x, y \in M : P(x) = P(y) => x = y
  BY PositionFollowsOrder
<1>7. \A x, y \in M : Before(x, y)' <=> P(x)' < P(y)'
  BY <1>2, OrderOfStates DEF PositionsInOrder
<1>9. HistoryTyped'
  BY <1>1, <1>2, <1>4 DEF HistoryTyped
<1>10. \A w \in M : \A p \in passed[w] :
          w \in M /\ p \in M /\ P(w) # 0 /\ (P(p) = 0 \/ P(w) < P(p))
  BY <1>2, <1>4, <1>5 DEF PassedStandBehind, Stands, HistoryTyped
<1>11. CASE M = {}
  <2>1. UNCHANGED passed
    BY <1>1, <1>4, <1>11 DEF HistoryTyped, TypeOK
  <2>. QED
    BY <1>2, <1>9, <1>11, <2>1 DEF PassedStandBehind, Fair!vars
<1>12. CASE M # {}
  <2>1. PICK m \in M : P(m) = IF size = 1 THEN 0 ELSE 1
    <3>1. (IF size = 1 THEN 0 ELSE 1) \in 0..(size - 1)
      BY <1>2, <1>12
    <3>. QED
      BY <3>1, PositionIsTaken
  <2>2. First(Watched)' = {m}
    BY <1>2, <1>3, <1>4, <1>6, <2>1
  <2> HIDE DEF M, size, P
  <2>3. passed' = [x \in Instance |-> IF x \in M \ {m} THEN passed[x] \union {m} ELSE {}]
    BY <1>1, <2>2 DEF M
  <2>4. \A w \in M \ {m} : m \notin passed[w]
    <3>1. ASSUME NEW w \in M \ {m}, m \in passed[w]
          PROVE  FALSE
      BY <1>2, <1>3, <1>10, <2>1, <3>1
    <3>. QED
      BY <3>1
  <2>5. Fair!Serve(m)
    BY <1>2, <2>1, <2>3, <2>4 DEF Fair!Serve, M
  <2>6. ASSUME NEW w \in M, NEW p \in passed'[w]
        PROVE  Stands(w, p)'
    <3>1. w # m /\ w \in M /\ (p = m \/ p \in passed[w])
      BY <1>2, <2>3, <2>6
    <3>2. w \notin First(Watched)'
      BY <2>2, <3>1
    <3>3. ASSUME p # m
          PROVE  Before(w, p)'
      <4>1. p \in M /\ P(w) # 0 /\ (P(p) = 0 \/ P(w) < P(p)) /\ w # p
        BY <1>3, <1>10, <3>1, <3>3
      <4>2. P(w)' < P(p)'
        BY <1>2, <1>3, <3>1, <4>1, <1>6
      <4>. QED
        BY <1>7, <3>1, <4>1, <4>2
    <3>. QED
      BY <2>2, <3>2, <3>3 DEF Stands
  <2>7. PassedStandBehind'
    BY <1>2, <2>6 DEF PassedStandBehind, M
  <2>. QED
    BY <1>2, <1>9, <2>1, <2>5, <2>7 DEF Fair!Next
<1>. QED
  BY <1>11, <1>12

-----------------------------------------------------------------------------
(* Without overlap no step puts an instance in a second group.             *)
LEMMA GroupsStayApart ==
    ASSUME ~Overlap, TypeOK, OneGroup, [Next]_vars
    PROVE  OneGroup'
<1>1. ASSUME NEW i \in Instance, NEW G \in SUBSET GroupName, AddInstance(i, G)
      PROVE  OneGroup'
  BY <1>1 DEF AddInstance, OneGroup, TypeOK
<1>2. ASSUME NEW i \in Instance, RemoveInstance(i)
      PROVE  OneGroup'
  BY <1>2 DEF RemoveInstance, OneGroup
<1>3. ASSUME NEW g \in GroupName, NEW i \in Instance, AddInstanceToGroup(g, i) \/ GroupAdd(g, i)
      PROVE  OneGroup'
  <2>1. Group[i] \ {g} = {} /\ Group' = [Group EXCEPT ![i] = @ \union {g}]
    BY <1>3 DEF AddInstanceToGroup, GroupAdd, MayJoin
  <2>. QED
    BY <2>1 DEF OneGroup, TypeOK
<1>4. ASSUME NEW g \in GroupName, NEW i \in Instance,
             RemoveInstanceFromGroup(g, i) \/ GroupRemove(g, i)
      PROVE  OneGroup'
  BY <1>4 DEF RemoveInstanceFromGroup, GroupRemove, OneGroup, TypeOK
<1>5. ASSUME NEW g \in GroupName, NextByGroup(g)
      PROVE  OneGroup'
  BY <1>5 DEF NextByGroup, OneGroup
<1>6. CASE UNCHANGED vars
  BY <1>6 DEF vars, OneGroup
<1>. QED
  BY <1>1, <1>2, <1>3, <1>4, <1>5, <1>6 DEF Next

(* A step that saves nothing leaves the order as it is.                    *)
LEMMA SameOrder ==
    ASSUME UNCHANGED _index
    PROVE  OrderKept
BY DEF OrderKept, Before

(* The calls that may put an instance in a group.                          *)
Joining(i) ==
    \/ \E G \in SUBSET GroupName : AddInstance(i, G)
    \/ \E g \in GroupName : AddInstanceToGroup(g, i) \/ GroupAdd(g, i)

(* Of the line of Watched they change nothing, or i joins it with the      *)
(* _index it has.                                                          *)
LEMMA JoiningIsAJoin ==
    ASSUME ~Overlap, LineInv, NEW i \in Instance, Joining(i)
    PROVE  /\ OrderKept /\ Welcome(i)
           /\ \/ Members(Watched)' = Members(Watched) /\ UNCHANGED passed
              \/ /\ i \notin Members(Watched)
                 /\ Members(Watched)' = Members(Watched) \union {i}
                 /\ _index'[i] = _index[i]
<1> USE DEF LineInv
<1>1. pool \subseteq Instance /\ First(Watched)' \subseteq Members(Watched)'
  BY DEF TypeOK, First
<1>2. ASSUME Welcome(i), Members(Watched)' = Members(Watched)
      PROVE  UNCHANGED passed
  BY <1>1, <1>2 DEF Welcome, TypeOK
<1>3. ASSUME NEW G \in SUBSET GroupName, AddInstance(i, G)
      PROVE  /\ OrderKept /\ Welcome(i)
             /\ \/ Members(Watched)' = Members(Watched)
                \/ /\ i \notin Members(Watched)
                   /\ Members(Watched)' = Members(Watched) \union {i}
                   /\ _index'[i] = _index[i]
  <2>1. /\ i \notin pool /\ pool' = pool \union {i}
        /\ Group'[i] = G /\ \A j \in Instance : j # i => Group'[j] = Group[j]
        /\ OrderKept /\ Welcome(i) /\ _index'[i] = _index[i]
    BY <1>3, SameOrder DEF AddInstance, TypeOK
  <2>. QED
    BY <1>1, <2>1 DEF Members
<1>4. ASSUME NEW g \in GroupName, AddInstanceToGroup(g, i) \/ GroupAdd(g, i)
      PROVE  /\ OrderKept /\ Welcome(i)
             /\ \/ Members(Watched)' = Members(Watched)
                \/ /\ i \notin Members(Watched)
                   /\ Members(Watched)' = Members(Watched) \union {i}
                   /\ _index'[i] = _index[i]
  <2>1. /\ i \in pool /\ UNCHANGED pool /\ Group[i] \ {g} = {}
        /\ Group'[i] = Group[i] \union {g}
        /\ \A j \in Instance : j # i => Group'[j] = Group[j]
        /\ Welcome(i)
    BY <1>1, <1>4 DEF AddInstanceToGroup, GroupAdd, MayJoin, TypeOK
  <2>2. OrderKept
    BY <1>4, SameOrder, SaveKeepsOrder DEF AddInstanceToGroup, GroupAdd
  <2>3. i \notin Members(g) => _index'[i] = _index[i]
    BY <1>4, SaveIndexes DEF AddInstanceToGroup, GroupAdd
  <2>. QED
    BY <1>1, <2>1, <2>2, <2>3 DEF Members
<1>. QED
  BY <1>2, <1>3, <1>4 DEF Joining

(* The calls that may take one out of a group keep the order, and forget.  *)
Leaving(i) ==
    \/ RemoveInstance(i)
    \/ \E g \in GroupName : RemoveInstanceFromGroup(g, i) \/ GroupRemove(g, i)

LEMMA LeavingIsALeave ==
    ASSUME LineInv, NEW i \in Instance, Leaving(i)
    PROVE  OrderKept /\ Forget /\ Members(Watched)' \subseteq Members(Watched)
<1> USE DEF LineInv
<1>1. CASE RemoveInstance(i)
  BY <1>1, SameOrder DEF RemoveInstance, Members
<1>2. ASSUME NEW g \in GroupName, RemoveInstanceFromGroup(g, i) \/ GroupRemove(g, i)
      PROVE  OrderKept /\ Forget /\ Members(Watched)' \subseteq Members(Watched)
  <2>1. \A j \in Instance : Group'[j] \subseteq Group[j]
    BY <1>2 DEF RemoveInstanceFromGroup, GroupRemove, TypeOK
  <2>2. Members(Watched)' \subseteq Members(Watched)
    BY <1>2, <2>1 DEF RemoveInstanceFromGroup, GroupRemove, Members, TypeOK
  <2>3. OrderKept /\ Forget
    BY <1>2, SameOrder, SaveKeepsOrder DEF RemoveInstanceFromGroup, GroupRemove
  <2>. QED
    BY <2>2, <2>3
<1>. QED
  BY <1>1, <1>2 DEF Leaving

(* The steps of the groups, as the line sees them.                         *)
LEMMA StepsOfTheLine ==
    ASSUME [Next]_vars
    PROVE  \/ \E i \in Instance : Joining(i) \/ Leaving(i)
           \/ \E g \in GroupName : NextByGroup(g)
           \/ UNCHANGED vars
BY DEF Next, Joining, Leaving

(* Every operation of the groups is a step of the abstract specification,  *)
(* or a stutter, and keeps the line.                                       *)
LEMMA LineStep ==
    ASSUME ~Overlap, LineInv, [Next]_vars
    PROVE  LineInv' /\ [Fair!RejoiningNext]_(Fair!vars)
<1>1. TypeOK' /\ OneGroup'
  BY GroupTypeStep, GroupsStayApart DEF LineInv
<1> SUFFICES LineKept /\ [Fair!RejoiningNext]_(Fair!vars)
  BY <1>1 DEF LineInv, LineKept
<1>2. ASSUME NEW i \in Instance, Joining(i)
      PROVE  LineKept /\ [Fair!RejoiningNext]_(Fair!vars)
  BY <1>1, <1>2, JoiningIsAJoin, LineJoined, LineUnmoved DEF Fair!RejoiningNext, Fair!Next
<1>3. ASSUME NEW i \in Instance, Leaving(i)
      PROVE  LineKept /\ [Fair!RejoiningNext]_(Fair!vars)
  BY <1>1, <1>3, LeavingIsALeave, LineLeft DEF Fair!RejoiningNext
<1>4. ASSUME NEW g \in GroupName, NextByGroup(g)
      PROVE  LineKept /\ [Fair!RejoiningNext]_(Fair!vars)
  <2>1. CASE g = Watched
    BY <1>1, <1>4, <2>1, LineServed DEF Fair!RejoiningNext
  <2>2. CASE g # Watched
    <3>1. /\ SaveIndex(g, 1) /\ UNCHANGED passed
          /\ Members(Watched)' = Members(Watched)
      BY <1>4, <2>2 DEF NextByGroup, Members
    <3>2. OrderKept
      BY <2>2, <3>1, SaveKeepsOrder
    <3>. QED
      BY <1>1, <3>1, <3>2, LineUnmoved
  <2>. QED
    BY <2>1, <2>2
<1>5. CASE UNCHANGED vars
  <2>1. Members(Watched)' = Members(Watched) /\ UNCHANGED <<_index, passed>>
    BY <1>5 DEF vars, Members
  <2>. QED
    BY <1>1, <2>1, SameOrder, LineUnmoved
<1>. QED
  BY <1>2, <1>3, <1>4, <1>5, StepsOfTheLine

(* Nobody is in a group at first.                                          *)
LEMMA LineInit ==
    ASSUME Init
    PROVE  LineInv /\ Fair!Init
<1>1. TypeOK
  BY GroupTypeInit
<1>2. Members(Watched) = {}
  BY DEF Init, Members
<1>3. OneGroup /\ HistoryTyped /\ PassedStandBehind
  BY <1>2 DEF Init, OneGroup, HistoryTyped, PassedStandBehind
<1>. QED
  BY <1>1, <1>2, <1>3 DEF LineInv, Init, Fair!Init

(* The line is kept through every operation on any group, also where an    *)
(* instance comes back with the _index it left with.                       *)
THEOREM GroupLine ==
    ASSUME ~Overlap
    PROVE  Spec => []LineInv
<1>1. Init => LineInv
  BY LineInit
<1>2. LineInv /\ [Next]_vars => LineInv'
  BY LineStep
<1>. QED
  BY <1>1, <1>2, PTL DEF Spec

(* As long as no instance is in two groups at once, a group serves its     *)
(* members in turn, through additions, removals, returns, moves between    *)
(* groups and the rotations of other groups: it implements FairSelection,  *)
(* where a joiner that comes to the head gives the last served a turn.     *)
THEOREM GroupServesInTurn ==
    ASSUME ~Overlap
    PROVE  Spec => ServesInTurn
<1>1. Init => Fair!Init
  BY LineInit
<1>2. LineInv /\ [Next]_vars => [Fair!RejoiningNext]_(Fair!vars)
  BY LineStep
<1>. QED
  BY <1>1, <1>2, GroupLine, PTL DEF Spec, ServesInTurn, Fair!RejoiningSpec

-----------------------------------------------------------------------------
(* Who joins Watched has no _index from an earlier membership, in any      *)
(* group: it joins for the first time, or was never in a group that was    *)
(* saved.                                                                  *)
JoinsUnindexed == \A i \in Members(Watched)' \ Members(Watched) : _index[i] = NoIndex

(* Where somebody has been served, the indexes have been saved.            *)
PassedIndexed ==
    \A i \in Instance : \A p \in passed[i] : _index[i] # NoIndex /\ _index[p] # NoIndex

(* An _index once saved is never forgotten.                                *)
LEMMA IndexesStay ==
    ASSUME TypeOK, [Next]_vars
    PROVE  \A i \in Instance : _index[i] # NoIndex => _index'[i] # NoIndex
<1>1. ASSUME NEW g, NEW n \in {0, 1}, SaveIndex(g, n)
      PROVE  \A i \in Instance : _index[i] # NoIndex => _index'[i] # NoIndex
  BY <1>1, SaveIndexes
<1>. QED
  BY <1>1 DEF Next, vars, AddInstance, RemoveInstance, AddInstanceToGroup, GroupAdd,
              RemoveInstanceFromGroup, GroupRemove, NextByGroup

(* A member is recorded as served only when its whole group is saved.      *)
LEMMA PassedIndexedStep ==
    ASSUME ~Overlap, LineInv, PassedIndexed, [Next]_vars
    PROVE  PassedIndexed'
<1> USE DEF LineInv
<1>1. \A i \in Instance : _index[i] # NoIndex => _index'[i] # NoIndex
  BY IndexesStay
<1>2. ASSUME \A i \in Instance : passed'[i] \subseteq passed[i]
      PROVE  PassedIndexed'
  BY <1>1, <1>2 DEF PassedIndexed, TypeOK
<1>3. ASSUME NEW i \in Instance, Joining(i)
      PROVE  PassedIndexed'
  BY <1>2, <1>3, JoiningIsAJoin DEF Welcome
<1>4. ASSUME NEW i \in Instance, Leaving(i)
      PROVE  PassedIndexed'
  BY <1>2, <1>4, LeavingIsALeave DEF Forget
<1>5. ASSUME NEW g \in GroupName, NextByGroup(g)
      PROVE  PassedIndexed'
  <2>1. CASE g = Watched
    <3>1. \A x \in Members(Watched) : _index'[x] # NoIndex
      BY <1>5, <2>1, SaveIndexes DEF NextByGroup
    <3>2. First(Watched)' \subseteq Members(Watched)
      BY <1>5 DEF NextByGroup, First, Members
    <3>3. \A x \in Instance :
             passed'[x] \subseteq Members(Watched) /\ (passed'[x] # {} => x \in Members(Watched))
      BY <1>5, <2>1, <3>2 DEF NextByGroup, HistoryTyped
    <3>. QED
      BY <3>1, <3>3 DEF PassedIndexed
  <2>2. CASE g # Watched
    BY <1>2, <1>5, <2>2 DEF NextByGroup
  <2>. QED
    BY <2>1, <2>2
<1>6. CASE UNCHANGED vars
  BY <1>2, <1>6 DEF vars
<1>. QED
  BY <1>3, <1>4, <1>5, <1>6, StepsOfTheLine

(* A joiner without an _index comes to the head only where nobody has      *)
(* been served, and then there is nobody to give a turn to.                *)
LEMMA UnindexedJoin ==
    ASSUME ~Overlap, LineInv, PassedIndexed, [Next]_vars, JoinsUnindexed
    PROVE  [Fair!Next]_(Fair!vars)
<1> USE DEF LineInv
<1>1. TypeOK' /\ [Fair!RejoiningNext]_(Fair!vars)
  BY LineStep
<1>2. ASSUME NEW m \in Instance, Fair!JoinAhead(m)
      PROVE  UNCHANGED passed
  <2>1. m \notin Members(Watched) /\ m \in Members(Watched)'
    BY <1>2 DEF Fair!JoinAhead
  <2>2. PICK i \in Instance : Joining(i)
    <3>1. ASSUME NEW j \in Instance, Leaving(j)
          PROVE  FALSE
      BY <2>1, <3>1, LeavingIsALeave
    <3>2. ~\E g \in GroupName : NextByGroup(g)
      BY <2>1 DEF NextByGroup, Members
    <3>3. ~UNCHANGED vars
      BY <2>1 DEF vars, Members
    <3>. QED
      BY <3>1, <3>2, <3>3, StepsOfTheLine
  <2>3. /\ Members(Watched)' = Members(Watched) \union {m}
        /\ _index'[m] = NoIndex
        /\ OrderKept /\ Welcome(m)
    BY <2>1, <2>2, JoiningIsAJoin DEF JoinsUnindexed
  <2>4. Members(Watched) \subseteq Instance /\ NoIndex \in Nat
    BY GroupIsFinite
  <2>5. CASE m \in First(Watched)'
    <3>1. ASSUME NEW j \in Members(Watched)
          PROVE  _index'[j] = NoIndex
      <4>1. ~Before(j, m)'
        BY <1>1, <2>3, <2>5, OrderOfStates DEF HeadIsFirst
      <4>2. _index'[j] \in 0..NoIndex
        BY <1>1, <2>4 DEF TypeOK
      <4>. QED
        BY <2>3, <2>4, <4>1, <4>2 DEF Before
    <3>2. \A j \in Instance : passed[j] = {}
      BY <2>4, <3>1, IndexesStay DEF PassedIndexed, HistoryTyped
    <3>. QED
      BY <2>3, <3>2 DEF Welcome, TypeOK
  <2>6. CASE m \notin First(Watched)'
    BY <2>3, <2>6 DEF Welcome, TypeOK
  <2>. QED
    BY <2>5, <2>6
<1>3. ASSUME NEW m \in Instance, Fair!JoinAhead(m)
      PROVE  Fair!Join(m)
  BY <1>2, <1>3 DEF Fair!JoinAhead, Fair!Join
<1>. QED
  BY <1>1, <1>3 DEF Fair!RejoiningNext, Fair!Next

(* Where in addition nobody joins with an _index, a group serves as        *)
(* strictly as the pool does: not even a join gives the last served        *)
(* another turn.  What an instance brings along from where it was before   *)
(* is the only way to that.                                                *)
THEOREM FirstJoinersServeStrictly ==
    ASSUME ~Overlap
    PROVE  Spec /\ [][JoinsUnindexed]_vars => Fair!Spec
<1>1. Init => Fair!Init /\ PassedIndexed
  BY LineInit DEF Init, PassedIndexed
<1>2. LineInv /\ PassedIndexed /\ [Next]_vars => PassedIndexed'
  BY PassedIndexedStep
<1>3. LineInv /\ PassedIndexed /\ [Next]_vars /\ [JoinsUnindexed]_vars
         => [Fair!Next]_(Fair!vars)
  <2>1. UNCHANGED vars => UNCHANGED Fair!vars
    BY DEF vars, Fair!vars, Members
  <2>. QED
    BY <2>1, UnindexedJoin
<1>. QED
  BY <1>1, <1>2, <1>3, GroupLine, PTL DEF Spec, Fair!Spec
=============================================================================
