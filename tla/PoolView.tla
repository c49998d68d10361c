------------------------------ MODULE PoolView ------------------------------
(***************************************************************************)
(* The pool as the proxy servers see it, with no array, no names and no    *)
(* callers: instances join once, before they are ready, may be removed at  *)
(* any time, several at once, and go on being ready, or dying, when they   *)
(* are.  TorPool implements this, and ProxyConnection is built on it.      *)
(***************************************************************************)
CONSTANT Instance

VARIABLES
    pool,       \* the instances in the pool
    joined,     \* those that ever were
    ready,      \* those that have bootstrapped; dead ones stay ready
    down        \* those whose process has ended

viewVars == <<pool, joined, ready, down>>

Init ==
    /\ pool = {}
    /\ joined = {}
    /\ ready = {}
    /\ down = {}

Joins(i) ==
    /\ i \notin joined
    /\ pool' = pool \union {i}
    /\ joined' = joined \union {i}
    /\ UNCHANGED <<ready, down>>

Removed ==
    /\ pool' \in SUBSET pool
    /\ UNCHANGED <<joined, ready, down>>

BecomesReady(i) ==
    /\ i \in joined \ (ready \union down)
    /\ ready' = ready \union {i}
    /\ UNCHANGED <<pool, joined, down>>

Dies(i) ==
    /\ i \in joined \ down
    /\ down' = down \union {i}
    /\ UNCHANGED <<pool, joined, ready>>

Next ==
    \/ Removed
    \/ \E i \in Instance : Joins(i) \/ BecomesReady(i) \/ Dies(i)

Spec == Init /\ [][Next]_viewVars
=============================================================================
