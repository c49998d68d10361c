---------------------------- MODULE TorPoolFair ----------------------------
(***************************************************************************)
(* The pool in round_robin mode implements FairSelection: a history        *)
(* variable records, for each member, whom next() served since it served   *)
(* that member.                                                            *)
(***************************************************************************)
EXTENDS TorPool

ASSUME RoundRobinOnly == Methods = {"round_robin"}

VARIABLE passed     \* history: whom each member saw served since its own turn

fairVars == <<poolVars, passed>>

(* next() returns the head of the array it has rotated. *)
LastInLine == IF instances = <<>> THEN {} ELSE {Head(instances)}

FairInit ==
    /\ Init
    /\ passed = [i \in Instance |-> {}]

Served ==
    /\ NextRoundRobin
    /\ passed' = [i \in Instance |->
                     IF i \in Members \ LastInLine' THEN passed[i] \union LastInLine' ELSE {}]

(* A removal that takes the head makes its successor the head in its stead. *)
Removed ==
    /\ Removing
    /\ passed' = [i \in Instance |->
                     IF i \in Members' \ (LastInLine' \ LastInLine)
                     THEN passed[i] \intersect Members' ELSE {}]

FairNext ==
    \/ Creating /\ UNCHANGED passed
    \/ Served
    \/ Removed
    \/ Other /\ UNCHANGED passed

RoundRobinSpec == FairInit /\ [][FairNext]_fairVars

Fair == INSTANCE FairSelection WITH
            Member <- Instance, members <- Members

-----------------------------------------------------------------------------
(* Round robin, through every interleaving with creations, removals and    *)
(* exit(): no member serves twice while another one waits, except that the *)
(* successor of a removed head goes to the end of the line.                *)
ServesInTurn == Fair!Spec

(* The order next() serves in is the array after its head, then the head;  *)
(* whoever has already passed a member stands behind it in that order.     *)
PlaceInLine(k) == IF k = 1 THEN Len(instances) + 1 ELSE k

PassedStandBehind ==
    \A j, k \in DOMAIN instances :
        instances[j] \in passed[instances[k]] => PlaceInLine(k) < PlaceInLine(j)
=============================================================================
