--------------------------- MODULE InstanceGroups ---------------------------
(***************************************************************************)
(* The groups of TorPool.js.  There is no group object: groups[g] is       *)
(* computed on each access from the instances whose definition names g,    *)
(* sorted by an _index that every operation of a group writes back to its  *)
(* instances.  An instance has one _index, whatever groups it is in.       *)
(***************************************************************************)
EXTENDS Naturals, FiniteSets

CONSTANTS
    Instance,
    GroupName,
    Rank,       \* the place of each instance_name in the order of strings
    Overlap,    \* whether an instance may be in more than one group at once
    Watched     \* the group whose service is recorded

ASSUME GroupAssumption ==
    /\ IsFiniteSet(Instance)
    /\ Rank \in [Instance -> Nat]
    /\ \A i, j \in Instance : Rank[i] = Rank[j] => i = j
    /\ Overlap \in BOOLEAN
    /\ Watched \in GroupName

VARIABLES
    pool,       \* the instances in the pool
    gone,       \* those that were in it and were removed
    Group,      \* definition.Group of each instance
    _index,     \* the saved _index of each instance
    passed      \* history: whom each member of Watched saw served since

vars == <<pool, gone, Group, _index, passed>>

(* An undefined _index, which sorts after every position. *)
NoIndex == Cardinality(Instance)

TypeOK ==
    /\ pool \subseteq Instance
    /\ gone \subseteq Instance \ pool
    /\ Group \in [Instance -> SUBSET GroupName]
    /\ _index \in [Instance -> 0..NoIndex]
    /\ passed \in [Instance -> SUBSET Instance]

Init ==
    /\ pool = {}
    /\ gone = {}
    /\ Group = [i \in Instance |-> {}]
    /\ _index = [i \in Instance |-> NoIndex]
    /\ passed = [i \in Instance |-> {}]

-----------------------------------------------------------------------------
Members(g) == {i \in pool : g \in Group[i]}

(* sortBy ['_index', 'instance_name']. *)
Before(i, j) == _index[i] < _index[j] \/ (_index[i] = _index[j] /\ Rank[i] < Rank[j])

(* The index of a member of g in the array groups[g]. *)
Position(g, i) == Cardinality({j \in Members(g) : Before(j, i)})

First(g) == {i \in Members(g) : Position(g, i) = 0}

(* Mutated form: the index is counted down without wrapping around. *)
SaveIndexUnwrapped(g, n) ==
    _index' = [i \in Instance |-> IF i \in Members(g) THEN Position(g, i) - n ELSE _index[i]]

(* Mutated form: the indexes are saved before the array is rotated. *)
SaveIndexFirst(g, n) ==
    _index' = [i \in Instance |-> IF i \in Members(g) THEN Position(g, i) ELSE _index[i]]

(* save_index() after the array of g has been rotated left by n. *)
SaveIndex(g, n) ==
    LET size == Cardinality(Members(g))
    IN  _index' = [i \in Instance |->
                     IF i \in Members(g) THEN (Position(g, i) + size - n) % size
                                         ELSE _index[i]]

(***************************************************************************)
(* The history: nobody outside the group remembers anything, and who       *)
(* becomes its first without being served goes to the end of the line.     *)
(* Where who joins becomes the first, the first before it is the second    *)
(* now, and has another turn.                                              *)
(***************************************************************************)
Forget ==
    passed' = [i \in Instance |->
                  IF i \in Members(Watched)' \ (First(Watched)' \ First(Watched))
                  THEN passed[i] \intersect Members(Watched)' ELSE {}]

Welcome(i) ==
    passed' = [j \in Instance |-> IF i \in First(Watched)' \ Members(Watched)
                                  THEN passed[j] \ First(Watched) ELSE passed[j]]

-----------------------------------------------------------------------------
(* What the groups see of create_instance(): a definition with its Group. *)
AddInstance(i, G) ==
    /\ i \notin pool \union gone
    /\ ~Overlap => \A g, h \in G : g = h
    /\ pool' = pool \union {i}
    /\ Group' = [Group EXCEPT ![i] = G]
    /\ UNCHANGED <<gone, _index>>
    /\ Welcome(i)

(* What they see of remove*() and exit(). *)
RemoveInstance(i) ==
    /\ i \in pool
    /\ pool' = pool \ {i}
    /\ gone' = gone \union {i}
    /\ UNCHANGED <<Group, _index>>
    /\ Forget

(* An instance may come back to a group that it left, or move to another   *)
(* one; it keeps the _index it has from there.                             *)
MayJoin(g, i) == Overlap \/ Group[i] \ {g} = {}

(* add_instance_to_group() and its variants by name and by index. *)
AddInstanceToGroup(g, i) ==
    /\ i \in pool
    /\ MayJoin(g, i)
    /\ Group' = [Group EXCEPT ![i] = @ \union {g}]
    /\ UNCHANGED <<pool, gone, _index>>
    /\ Welcome(i)

(* groups[g].add(): what is saved is the order before the instance joined. *)
GroupAdd(g, i) ==
    /\ i \in pool
    /\ MayJoin(g, i)
    /\ Group' = [Group EXCEPT ![i] = @ \union {g}]
    /\ SaveIndex(g, 0)
    /\ UNCHANGED <<pool, gone>>
    /\ Welcome(i)

(* remove_instance_from_group() and its variants. *)
RemoveInstanceFromGroup(g, i) ==
    /\ i \in pool
    /\ Group' = [Group EXCEPT ![i] = @ \ {g}]
    /\ UNCHANGED <<pool, gone, _index>>
    /\ Forget

(* groups[g].remove(): the array saved still holds the removed instance. *)
GroupRemove(g, i) ==
    /\ i \in pool
    /\ Group' = [Group EXCEPT ![i] = @ \ {g}]
    /\ SaveIndex(g, 0)
    /\ UNCHANGED <<pool, gone>>
    /\ Forget

(* next_by_group(): groups[g].rotate(1), then the first of groups[g]. *)
NextByGroup(g) ==
    /\ SaveIndex(g, 1)
    /\ UNCHANGED <<pool, gone, Group>>
    /\ passed' = IF g = Watched
                 THEN [i \in Instance |->
                         IF i \in Members(g) \ First(g)' THEN passed[i] \union First(g)' ELSE {}]
                 ELSE passed

Next ==
    \/ \E i \in Instance, G \in SUBSET GroupName : AddInstance(i, G)
    \/ \E i \in Instance : RemoveInstance(i)
    \/ \E g \in GroupName, i \in Instance : AddInstanceToGroup(g, i)
    \/ \E g \in GroupName, i \in Instance : GroupAdd(g, i)
    \/ \E g \in GroupName, i \in Instance : RemoveInstanceFromGroup(g, i)
    \/ \E g \in GroupName, i \in Instance : GroupRemove(g, i)
    \/ \E g \in GroupName : NextByGroup(g)

Spec == Init /\ [][Next]_vars

-----------------------------------------------------------------------------
Fair == INSTANCE FairSelection WITH
            Member <- Instance, members <- Members(Watched)

(* Each group serves its members in turn, whoever leaves it, comes back or *)
(* moves to another group: only an instance that joins with an _index may  *)
(* take the head of the array, and the last served has another turn then.  *)
(* The shared _index keeps that where no instance is in two groups at once.*)
ServesInTurn == Fair!RejoiningSpec

(* next_by_group() takes the second of the array to the front and the      *)
(* first to the end, and keeps the order of the others, although the array *)
(* is thrown away and sorted anew from the saved indexes.                  *)
RotatesArray ==
    [][\A g \in GroupName :
          NextByGroup(g) =>
             LET size == Cardinality(Members(g))
             IN  \A i \in Members(g) :
                    Position(g, i)' = (Position(g, i) + size - 1) % size]_vars
=============================================================================
