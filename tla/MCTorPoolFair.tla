--------------------------- MODULE MCTorPoolFair ---------------------------
(* Three instances, as many as it takes for one to be passed by another    *)
(* while a third is served: a and b share a Name, d has its own.           *)
EXTENDS TorPoolFair, TLC

CONSTANTS a, b, d

SharedName == (a :> "tor-1") @@ (b :> "tor-1") @@ (d :> "tor-2")

(* Neither the callers nor the two namesakes are told apart. *)
Symmetry == Permutations(Call) \union Permutations({a, b})
=============================================================================
