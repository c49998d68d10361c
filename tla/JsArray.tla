------------------------------- MODULE JsArray -------------------------------
(***************************************************************************)
(* What the pool does to its array of instances: the rotation TorPool.js   *)
(* adds to Array.prototype, and Array.prototype.splice.                    *)
(***************************************************************************)
EXTENDS Naturals, Sequences, Functions

(* Mutated form: what is pushed at the end is copied, not cut. *)
RotateCopying(s) == IF s = <<>> THEN s ELSE Append(s, Head(s))

(* Mutated form: push(shift()), which puts undefined into an empty array. *)
RotateShifting(s) == IF s = <<>> THEN <<"undefined">> ELSE Append(Tail(s), Head(s))

(* Mutated form: rotated the other way. *)
RotateBack(s) ==
    IF s = <<>> THEN s ELSE <<s[Len(s)]>> \o SubSeq(s, 1, Len(s) - 1)

(* Array.prototype.rotate(1); nobody in the sources gives another count.   *)
Rotate(s) == IF s = <<>> THEN s ELSE Append(Tail(s), Head(s))

(* Mutated form: the killed are counted from one entry too early. *)
SplicedOutShifted(s, at, n) == {s[k] : k \in {k \in DOMAIN s : at <= k /\ k < at + n}}

(* Array.prototype.splice(at, n): what is returned, and what stays. *)
SplicedOut(s, at, n) == {s[k] : k \in {k \in DOMAIN s : at < k /\ k <= at + n}}
Spliced(s, at, n) == SubSeq(s, 1, at) \o SubSeq(s, at + n + 1, Len(s))
=============================================================================
