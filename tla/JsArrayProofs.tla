---------------------------- MODULE JsArrayProofs ----------------------------
(***************************************************************************)
(* What the array operations of the pool do to an array without            *)
(* repetitions: which elements they keep, and where.                       *)
(***************************************************************************)
EXTENDS JsArray, SequenceTheorems, FiniteSetTheorems, TLAPS

(* The range of an array, by positions. *)
LEMMA RangeOfArray ==
    ASSUME NEW S, NEW s \in Seq(S)
    PROVE  /\ Range(s) \subseteq S
           /\ \A x : x \in Range(s) <=> \E k \in 1..Len(s) : s[k] = x
           /\ IsInjective(s) <=> \A j, k \in 1..Len(s) : s[j] = s[k] => j = k
BY LenProperties DEF Range, IsInjective

(* The empty array has no members, and none of them twice.                 *)
LEMMA EmptyArray == Range(<<>>) = {} /\ IsInjective(<<>>)
<1>1. <<>> \in Seq({}) /\ Len(<<>>) = 0
  BY EmptySeq
<1>2. Range(<<>>) = {}
  BY SMT DEF Range
<1>3. \A j, k \in 1..0 : <<>>[j] = <<>>[k] => j = k
  OBVIOUS
<1>. QED
  BY <1>1, <1>2, <1>3, RangeOfArray

(* push(): one more member, at the end. *)
LEMMA PushArray ==
    ASSUME NEW S, NEW s \in Seq(S), NEW x \in S
    PROVE  /\ Append(s, x) \in Seq(S)
           /\ Range(Append(s, x)) = Range(s) \union {x}
           /\ IsInjective(s) /\ x \notin Range(s) => IsInjective(Append(s, x))
<1> DEFINE t == Append(s, x)
           n == Len(s)
<1>1. /\ t \in Seq(S)
      /\ Len(t) = n + 1
      /\ \A k \in 1..n : t[k] = s[k]
      /\ t[n + 1] = x
      /\ n \in Nat
  BY AppendProperties, LenProperties
<1> HIDE DEF t, n
<1>2. \A y : y \in Range(t) <=> \E k \in 1..(n + 1) : t[k] = y
  BY <1>1, RangeOfArray
<1>3. \A y : y \in Range(s) <=> \E k \in 1..n : s[k] = y
  BY RangeOfArray DEF n
<1>4. \A k \in 1..(n + 1) : k = n + 1 \/ k \in 1..n
  BY <1>1
<1>5. Range(t) = Range(s) \union {x}
  <2>1. n + 1 \in 1..(n + 1) /\ \A k \in 1..n : k \in 1..(n + 1)
    BY <1>1
  <2>2. Range(t) \subseteq Range(s) \union {x}
    BY <1>1, <1>2, <1>3, <1>4
  <2>3. Range(s) \union {x} \subseteq Range(t)
    BY <1>1, <1>2, <1>3, <2>1
  <2>. QED
    BY <2>2, <2>3
<1>6. ASSUME IsInjective(s), x \notin Range(s)
      PROVE  IsInjective(t)
  <2>1. \A j, k \in 1..n : s[j] = s[k] => j = k
    BY <1>6, RangeOfArray DEF n
  <2>2. \A j \in 1..n : t[j] # x
    BY <1>1, <1>3, <1>6
  <2>3. \A j, k \in 1..(n + 1) : t[j] = t[k] => j = k
    BY <1>1, <1>4, <2>1, <2>2
  <2>. QED
    BY <1>1, <2>3, RangeOfArray
<1>. QED
  BY <1>1, <1>5, <1>6 DEF t

(* rotate(1): the same members, each one place further to the front. *)
LEMMA RotateArray ==
    ASSUME NEW S, NEW s \in Seq(S)
    PROVE  /\ Rotate(s) \in Seq(S)
           /\ Len(Rotate(s)) = Len(s)
           /\ \A k \in 1..Len(s) :
                 Rotate(s)[k] = IF k = Len(s) THEN s[1] ELSE s[k + 1]
           /\ Range(Rotate(s)) = Range(s)
           /\ IsInjective(s) => IsInjective(Rotate(s))
<1>1. CASE s = <<>>
  BY <1>1, EmptySeq DEF Rotate
<1>2. CASE s # <<>>
  <2> DEFINE n == Len(s)
             t == Rotate(s)
  <2>1. /\ Head(s) \in S
        /\ Tail(s) \in Seq(S)
        /\ Len(Tail(s)) = n - 1
        /\ \A k \in 1..(n - 1) : Tail(s)[k] = s[k + 1]
        /\ Head(s) = s[1]
        /\ n \in Nat \ {0}
    BY <1>2, HeadTailProperties, EmptySeq
  <2>2. /\ t \in Seq(S)
        /\ Len(t) = n
        /\ \A k \in 1..(n - 1) : t[k] = s[k + 1]
        /\ t[n] = s[1]
    BY <1>2, <2>1, AppendProperties DEF Rotate
  <2>3. /\ \A x : x \in Range(t) <=> \E k \in 1..n : t[k] = x
        /\ \A x : x \in Range(s) <=> \E k \in 1..n : s[k] = x
    BY <2>2, RangeOfArray
  <2> HIDE DEF t, n
  <2>4. \A k \in 1..n : t[k] = IF k = n THEN s[1] ELSE s[k + 1]
    BY <2>1, <2>2
  <2>5. Range(t) \subseteq Range(s)
    <3>1. \A k \in 1..n : IF k = n THEN 1 \in 1..n ELSE k + 1 \in 1..n
      BY <2>1
    <3>. QED
      BY <2>3, <2>4, <3>1
  <2>6. Range(s) \subseteq Range(t)
    <3>1. \A k \in 1..n : IF k = 1 THEN n \in 1..n
                                   ELSE k - 1 \in 1..(n - 1) /\ (k - 1) + 1 = k
      BY <2>1
    <3>2. \A k \in 1..n : \E j \in 1..n : t[j] = s[k]
      BY <2>1, <2>2, <3>1
    <3>. QED
      BY <2>3, <3>2
  <2>7. ASSUME IsInjective(s)
        PROVE  IsInjective(t)
    <3>1. \A j, k \in 1..n : s[j] = s[k] => j = k
      BY <2>7, RangeOfArray DEF n
    <3>2. \A j, k \in 1..n : t[j] = t[k] => j = k
      BY <2>1, <2>4, <3>1
    <3>. QED
      BY <2>2, <3>2, RangeOfArray
  <2>. QED
    BY <2>2, <2>4, <2>5, <2>6, <2>7 DEF t, n
<1>. QED
  BY <1>1, <1>2

(* splice(at, n): what it takes out is what is no longer there. *)
LEMMA SpliceArray ==
    ASSUME NEW S, NEW s \in Seq(S), NEW at \in 0..Len(s), NEW n \in Nat,
           IsInjective(s)
    PROVE  /\ Spliced(s, at, n) \in Seq(S)
           /\ Len(Spliced(s, at, n)) = IF at + n <= Len(s) THEN Len(s) - n ELSE at
           /\ \A k \in 1..Len(Spliced(s, at, n)) :
                 Spliced(s, at, n)[k] = IF k <= at THEN s[k] ELSE s[k + n]
           /\ IsInjective(Spliced(s, at, n))
           /\ Range(Spliced(s, at, n)) = Range(s) \ SplicedOut(s, at, n)
           /\ SplicedOut(s, at, n) \subseteq Range(s)
<1> DEFINE len == Len(s)
           t == Spliced(s, at, n)
           front == SubSeq(s, 1, at)
           back == SubSeq(s, at + n + 1, len)
<1>1. /\ len \in Nat
      /\ at \in 0..len
      /\ \A k \in 1..len : s[k] \in S
      /\ \A j, k \in 1..len : s[j] = s[k] => j = k
      /\ \A x : x \in Range(s) <=> \E k \in 1..len : s[k] = x
  BY LenProperties, ElementOfSeq, RangeOfArray
<1>2. \A x : x \in SplicedOut(s, at, n) <=>
               \E k \in 1..len : at < k /\ k <= at + n /\ s[k] = x
  BY LenProperties DEF SplicedOut
<1> HIDE DEF len
<1>3. /\ front \in Seq(S)
      /\ Len(front) = at
      /\ \A k \in 1..at : front[k] = s[k]
  <2>1. 1 \in Int /\ at \in Int /\ \A k \in 1..at : s[k] \in S
    BY <1>1
  <2>2. /\ front \in Seq(S)
        /\ Len(front) = IF 1 <= at THEN at - 1 + 1 ELSE 0
        /\ \A k \in 1..(at - 1 + 1) : front[k] = s[1 + k - 1]
    BY <2>1, SubSeqProperties
  <2> HIDE DEF front
  <2>. QED
    BY <1>1, <2>2
<1>4. /\ back \in Seq(S)
      /\ Len(back) = IF at + n <= len THEN len - (at + n) ELSE 0
      /\ \A k \in 1..(len - (at + n)) : back[k] = s[at + n + k]
  <2>1. /\ at + n + 1 \in Int
        /\ len \in Int
        /\ \A k \in (at + n + 1)..len : s[k] \in S
    BY <1>1
  <2>2. /\ back \in Seq(S)
        /\ Len(back) = IF at + n + 1 <= len THEN len - (at + n + 1) + 1 ELSE 0
        /\ \A k \in 1..(len - (at + n + 1) + 1) : back[k] = s[at + n + 1 + k - 1]
    BY <2>1, SubSeqProperties
  <2> HIDE DEF back
  <2>. QED
    BY <1>1, <2>2
<1>5. t = front \o back
  BY DEF Spliced, len
<1> HIDE DEF front, back, t
<1>6. /\ t \in Seq(S)
      /\ Len(t) = IF at + n <= len THEN len - n ELSE at
      /\ \A k \in 1..Len(t) : t[k] = IF k <= at THEN s[k] ELSE s[k + n]
  <2>1. /\ t \in Seq(S)
        /\ Len(t) = Len(front) + Len(back)
        /\ \A k \in 1..(Len(front) + Len(back)) :
               t[k] = IF k <= Len(front) THEN front[k] ELSE back[k - Len(front)]
    BY <1>3, <1>4, <1>5, ConcatProperties
  <2>2. Len(t) = IF at + n <= len THEN len - n ELSE at
    BY <1>1, <1>3, <1>4, <2>1
  <2>3. ASSUME NEW k \in 1..Len(t)
        PROVE  t[k] = IF k <= at THEN s[k] ELSE s[k + n]
    <3>1. t[k] = IF k <= at THEN front[k] ELSE back[k - at]
      BY <1>3, <2>1, <2>3
    <3>2. CASE k <= at
      <4>1. k \in 1..at
        BY <1>1, <2>2, <3>2
      <4>. QED
        BY <1>3, <3>1, <3>2, <4>1
    <3>3. CASE ~(k <= at)
      <4>1. k - at \in 1..(len - (at + n)) /\ at + n + (k - at) = k + n
        BY <1>1, <2>2, <3>3
      <4>. QED
        BY <1>4, <3>1, <3>3, <4>1
    <3>. QED
      BY <3>2, <3>3
  <2>. QED
    BY <2>1, <2>2, <2>3
<1>7. \A k \in 1..Len(t) : IF k <= at THEN k \in 1..len ELSE k + n \in 1..len
  BY <1>1, <1>6
<1>8. \A x : x \in Range(t) <=> \E k \in 1..Len(t) : t[k] = x
  BY <1>6, RangeOfArray
<1>9. IsInjective(t)
  <2>1. \A j, k \in 1..Len(t) : t[j] = t[k] => j = k
    BY <1>1, <1>6, <1>7
  <2>. QED
    BY <1>6, <2>1, RangeOfArray
<1>10. Range(t) \subseteq Range(s) \ SplicedOut(s, at, n)
  <2>1. ASSUME NEW k \in 1..Len(t)
        PROVE  t[k] \in Range(s) /\ t[k] \notin SplicedOut(s, at, n)
    <3>1. CASE k <= at
      <4>1. k \in 1..len /\ t[k] = s[k]
        BY <1>6, <1>7, <3>1
      <4>. QED
        BY <1>1, <1>2, <3>1, <4>1
    <3>2. CASE ~(k <= at)
      <4>1. k + n \in 1..len /\ t[k] = s[k + n] /\ ~(k + n <= at + n)
        BY <1>1, <1>6, <1>7, <3>2
      <4>. QED
        BY <1>1, <1>2, <4>1
    <3>. QED
      BY <3>1, <3>2
  <2>. QED
    BY <1>8, <2>1
<1>11. Range(s) \ SplicedOut(s, at, n) \subseteq Range(t)
  <2>1. ASSUME NEW k \in 1..len, ~(at < k /\ k <= at + n)
        PROVE  \E j \in 1..Len(t) : t[j] = s[k]
    <3>1. CASE k <= at
      <4>1. k \in 1..Len(t)
        BY <1>1, <1>6, <3>1
      <4>. QED
        BY <1>6, <3>1, <4>1
    <3>2. CASE k > at + n
      <4>1. k - n \in 1..Len(t) /\ ~(k - n <= at) /\ (k - n) + n = k
        BY <1>1, <1>6, <3>2
      <4>. QED
        BY <1>6, <4>1
    <3>. QED
      BY <1>1, <2>1, <3>1, <3>2
  <2>. QED
    BY <1>1, <1>2, <1>8, <2>1
<1>12. SplicedOut(s, at, n) \subseteq Range(s)
  BY <1>1, <1>2
<1>. QED
  BY <1>6, <1>9, <1>10, <1>11, <1>12 DEF t, len

(* An array without repetitions is as long as it has members.              *)
LEMMA CardinalityOfArray ==
    ASSUME NEW S, NEW s \in Seq(S), IsInjective(s)
    PROVE  IsFiniteSet(Range(s)) /\ Cardinality(Range(s)) = Len(s)
<1> DEFINE n == Len(s)
<1>1. n \in Nat /\ DOMAIN s = 1..n
  BY LenProperties
<1>2. IsFiniteSet(1..n) /\ Cardinality(1..n) = n
  BY <1>1, FS_Interval
<1>3. s \in Injection(1..n, Range(s)) /\ s \in Surjection(1..n, Range(s))
  BY <1>1, LenProperties DEF Injection, Surjection, Range
<1>. QED
  BY <1>2, <1>3, FS_Surjection

(* As many different elements as the array has, drawn from a set of its   *)
(* own elements that is large enough: all of them, in another order.      *)
LEMMA DrawArray ==
    ASSUME NEW S, NEW s \in Seq(S), IsInjective(s),
           NEW list \in SUBSET Range(s), Len(s) <= Cardinality(list),
           NEW t \in Injection(1..Len(s), list)
    PROVE  /\ t \in Seq(S)
           /\ Len(t) = Len(s)
           /\ IsInjective(t)
           /\ Range(t) = Range(s)
           /\ list = Range(s)
<1> DEFINE n == Len(s)
<1>1. n \in Nat /\ DOMAIN s = 1..n /\ Range(s) \subseteq S
  BY LenProperties, RangeOfArray
<1>2. IsFiniteSet(1..n) /\ Cardinality(1..n) = n
  BY <1>1, FS_Interval
<1>4. IsFiniteSet(Range(s)) /\ Cardinality(Range(s)) = n
  BY CardinalityOfArray
<1>5. /\ IsFiniteSet(list)
      /\ Cardinality(list) <= n
      /\ Cardinality(list) = n => list = Range(s)
  BY <1>4, FS_Subset
<1>6. Cardinality(list) \in Nat
  BY <1>5, FS_CardinalityType
<1>7. Cardinality(list) = n /\ list = Range(s)
  BY <1>1, <1>5, <1>6
<1>8. t \in Surjection(1..n, list)
  BY <1>2, <1>5, <1>7, FS_Injection
<1>9. t \in [1..n -> list] /\ IsInjective(t) /\ Range(t) = list
  BY <1>8 DEF Injection, Surjection, Range
<1>10. t \in Seq(S) /\ Len(t) = n
  BY <1>1, <1>7, <1>9
<1>. QED
  BY <1>7, <1>9, <1>10
=============================================================================
