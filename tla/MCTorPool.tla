----------------------------- MODULE MCTorPool -----------------------------
(* The pool with small sets: a and b share a Name, u has none. *)
EXTENDS TorPool, TLC

CONSTANTS a, b, u

MCInstance == {a, b, u}
SharedName == [i \in {a, b} |-> "tor-1"]
OwnNames == (a :> "tor-1") @@ (b :> "tor-2")

(* Neither the callers nor the two namesakes are told apart. *)
Symmetry == Permutations(Call) \union Permutations({a, b})

(* Nothing that the pool does, and none of its properties but NoOrphan and *)
(* UniqueNames, depends on the history of the overlaps, nor on who was     *)
(* sent a signal: a process may end without one, too.  What is in the file *)
(* system follows from the stage of each instance.                         *)
NoHistory == <<stage, ready, exiting, instances, weighted_list, load_balance_method,
               data_directory, promise, closing>>
=============================================================================
