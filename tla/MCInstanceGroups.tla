-------------------------- MODULE MCInstanceGroups --------------------------
(* Instances whose names sort as they are listed here. *)
EXTENDS InstanceGroups, TLC

CONSTANTS a, b, c, d

Ranks == [i \in Instance |-> CASE i = a -> 1 [] i = b -> 2 [] i = c -> 3 [] i = d -> 4]
=============================================================================
