------------------------------ MODULE Folding ------------------------------
(***************************************************************************)
(* What FoldLeft computes, for any step: the formats are read and written  *)
(* by folds.  A module instantiates Op with the step of a fold; what the   *)
(* step refers to besides its arguments is the context.                    *)
(***************************************************************************)
EXTENDS Folds, WellFoundedInduction, SequenceTheorems

CONSTANT Op(_, _, _)

(* The maximum and FoldLeft of SequencesExt, spelled out: an instance of   *)
(* this module has no use for the rest of it.                              *)
Greatest(S) == CHOOSE x \in S : \A y \in S : x >= y

Fold(context, base, s) ==
  MapThenFoldSet(LAMBDA x, r : Op(context, r, x), base, LAMBDA i : s[i], Greatest, DOMAIN s)

(* Every set of numbers has a least one.                                   *)
LEMMA LeastNumber ==
  ASSUME NEW T, T \subseteq Nat, T # {}
  PROVE  \E n \in T : \A m \in T : n <= m
  <1>1. PICK n \in T : \A m \in T : <<m, n>> \notin OpToRel(<, Nat)
    BY NatLessThanWellFounded, WFMin
  <1>2. ASSUME NEW m \in T PROVE n <= m
    <2>1. m \in Nat /\ n \in Nat
      OBVIOUS
    <2>2. ~(m < n)
      BY <1>1, <2>1 DEF OpToRel
    <2> QED BY <2>1, <2>2
  <1> QED BY <1>2

(* Induction, for the set of the numbers that have a property.             *)
LEMMA Induction ==
  ASSUME NEW T, 0 \in T, \A n \in Nat : n \in T => n + 1 \in T
  PROVE  \A n \in Nat : n \in T
  <1> DEFINE Rest == Nat \ T
  <1> SUFFICES ASSUME Rest # {} PROVE FALSE
    OBVIOUS
  <1>1. PICK n \in Rest : \A m \in Rest : n <= m
    <2>1. Rest \subseteq Nat
      OBVIOUS
    <2> HIDE DEF Rest
    <2> QED BY <2>1, LeastNumber
  <1>2. n \in Nat /\ n # 0 /\ n - 1 \in Nat /\ ~(n <= n - 1)
    BY <1>1
  <1>3. n - 1 \in T
    BY <1>1, <1>2
  <1>4. n - 1 + 1 = n
    BY <1>2
  <1> QED BY <1>1, <1>2, <1>3, <1>4

(* Induction over sequences, for the set of those that have a property.    *)
LEMMA InductionAppend ==
  ASSUME NEW S, NEW T, <<>> \in T,
         \A s \in Seq(S), x \in S : s \in T => Append(s, x) \in T
  PROVE  \A s \in Seq(S) : s \in T
  <1> DEFINE N == {n \in Nat : \A s \in Seq(S) : Len(s) = n => s \in T}
  <1>1. 0 \in N
    BY EmptySeq DEF N
  <1>2. ASSUME NEW n \in Nat, n \in N PROVE n + 1 \in N
    <2> SUFFICES ASSUME NEW s \in Seq(S), Len(s) = n + 1 PROVE s \in T
      OBVIOUS
    <2>1. PICK t \in Seq(S), x \in S : s = Append(t, x)
      <3>1. s # <<>>
        BY EmptySeq
      <3> QED BY <3>1, SequenceEmptyOrAppend
    <2>2. Len(t) = n
      <3>1. Len(s) = Len(t) + 1 /\ Len(t) \in Nat
        BY <2>1
      <3> QED BY <3>1
    <2> QED BY <1>2, <2>1, <2>2
  <1> HIDE DEF N
  <1>3. \A n \in Nat : n \in N
    BY <1>1, <1>2, Induction
  <1> QED BY <1>3 DEF N

(* The function FoldLeft is defined by, over the sets of places.           *)
Value(context, base, s, g, u) ==
  IF u = {} THEN base ELSE Op(context, g[u \ {Greatest(u)}], s[Greatest(u)])

IsIter(context, base, s, g, S) == g = [u \in SUBSET S |-> Value(context, base, s, g, u)]

LEMMA GreatestOfUpto ==
  ASSUME NEW n \in Nat, NEW u \in SUBSET (1..(n + 1)), n + 1 \in u
  PROVE  Greatest(u) = n + 1
  <1> DEFINE IsMax(x) == \A y \in u : x >= y
  <1>1. IsMax(n + 1) /\ \A x \in u : x \in Nat /\ x <= n + 1
    OBVIOUS
  <1>2. \E x \in u : IsMax(x)
    BY <1>1
  <1>3. Greatest(u) \in u /\ Greatest(u) >= n + 1
    <2>1. Greatest(u) = CHOOSE x \in u : IsMax(x)
      BY DEF Greatest
    <2> HIDE DEF IsMax
    <2>2. Greatest(u) \in u /\ IsMax(Greatest(u))
      BY <1>2, <2>1
    <2> QED BY <2>2 DEF IsMax
  <1> HIDE DEF IsMax
  <1>4. Greatest(u) \in Nat /\ Greatest(u) <= n + 1
    BY <1>1, <1>3
  <1> QED BY <1>3, <1>4

LEMMA IterExists ==
  ASSUME NEW context, NEW base, NEW s
  PROVE  \A n \in Nat : \E g : IsIter(context, base, s, g, 1..n)
  <1> DEFINE T == {n \in Nat : \E g : IsIter(context, base, s, g, 1..n)}
  <1>1. 0 \in T
    <2> DEFINE g == [u \in SUBSET (1..0) |-> base]
    <2>1. 1..0 = {}
      OBVIOUS
    <2>2. IsIter(context, base, s, g, 1..0)
      BY <2>1 DEF IsIter, Value
    <2> QED BY <2>2
  <1>2. ASSUME NEW n \in Nat, n \in T PROVE n + 1 \in T
    <2>1. PICK g : IsIter(context, base, s, g, 1..n)
      BY <1>2
    <2> DEFINE h == [u \in SUBSET (1..(n + 1)) |->
                       IF n + 1 \in u THEN Op(context, g[u \ {n + 1}], s[n + 1]) ELSE g[u]]
    <2>2. ASSUME NEW u \in SUBSET (1..(n + 1))
          PROVE  h[u] = Value(context, base, s, h, u)
      <3>1. CASE n + 1 \in u
        <4>1. Greatest(u) = n + 1 /\ u # {}
          BY <3>1, GreatestOfUpto
        <4>2. u \ {n + 1} \in SUBSET (1..(n + 1)) /\ n + 1 \notin u \ {n + 1}
          OBVIOUS
        <4>3. h[u \ {n + 1}] = g[u \ {n + 1}]
          BY <4>2
        <4>4. h[u] = Op(context, g[u \ {n + 1}], s[n + 1])
          BY <3>1
        <4> HIDE DEF h
        <4> QED BY <4>1, <4>3, <4>4 DEF Value
      <3>2. CASE n + 1 \notin u
        <4>1. u \in SUBSET (1..n)
          BY <3>2
        <4>2. g[u] = Value(context, base, s, g, u)
          BY <2>1, <4>1 DEF IsIter
        <4>3. h[u] = g[u] /\ h[u \ {Greatest(u)}] = g[u \ {Greatest(u)}]
          BY <3>2
        <4> HIDE DEF h
        <4> QED BY <4>2, <4>3 DEF Value
      <3> QED BY <3>1, <3>2
    <2>3. h = [u \in SUBSET (1..(n + 1)) |-> Value(context, base, s, h, u)]
      <3>1. h = [u \in SUBSET (1..(n + 1)) |-> h[u]]
        OBVIOUS
      <3> HIDE DEF h
      <3> QED BY <2>2, <3>1
    <2> HIDE DEF h
    <2> QED BY <2>3 DEF IsIter
  <1> HIDE DEF T
  <1>3. \A n \in Nat : n \in T
    BY <1>1, <1>2, Induction
  <1> QED BY <1>3 DEF T

(* A fold goes through a sequence place by place.                          *)
IsRun(context, base, s, run) ==
  /\ run[0] = base
  /\ \A k \in Nat : k < Len(s) => run[k + 1] = Op(context, run[k], s[k + 1])
  /\ Fold(context, base, s) = run[Len(s)]

LEMMA FoldRuns ==
  ASSUME NEW context, NEW base, NEW T, NEW s \in Seq(T)
  PROVE  \E run : IsRun(context, base, s, run)
  <1> DEFINE iter == CHOOSE g : IsIter(context, base, s, g, 1..Len(s))
  <1>1. DOMAIN s = 1..Len(s) /\ Len(s) \in Nat
    OBVIOUS
  <1>2. Fold(context, base, s) = iter[1..Len(s)]
    BY <1>1 DEF Fold, MapThenFoldSet, IsIter, Value
  <1>3. IsIter(context, base, s, iter, 1..Len(s))
    BY <1>1, IterExists
  <1> HIDE DEF iter
  <1> DEFINE run == [k \in 0..Len(s) |-> iter[1..k]]
  <1>4. run[0] = base
    <2>1. 1..0 = {} /\ {} \in SUBSET (1..Len(s)) /\ 0 \in 0..Len(s)
      BY <1>1
    <2>2. iter[{}] = base
      BY <1>3, <2>1 DEF IsIter, Value
    <2> QED BY <2>1, <2>2
  <1>5. ASSUME NEW k \in Nat, k < Len(s)
        PROVE  run[k + 1] = Op(context, run[k], s[k + 1])
    <2>1. 1..(k + 1) \in SUBSET (1..Len(s)) /\ k \in 0..Len(s) /\ k + 1 \in 0..Len(s)
      BY <1>1, <1>5
    <2>2. Greatest(1..(k + 1)) = k + 1
      <3>1. k + 1 \in 1..(k + 1)
        OBVIOUS
      <3> QED BY <3>1, GreatestOfUpto
    <2>3. 1..(k + 1) # {} /\ (1..(k + 1)) \ {k + 1} = 1..k
      OBVIOUS
    <2>4. iter[1..(k + 1)] = Op(context, iter[1..k], s[k + 1])
      BY <1>3, <2>1, <2>2, <2>3 DEF IsIter, Value
    <2> QED BY <2>1, <2>4
  <1>6. run[Len(s)] = iter[1..Len(s)]
    BY <1>1
  <1> HIDE DEF run
  <1>7. IsRun(context, base, s, run)
    BY <1>2, <1>4, <1>5, <1>6 DEF IsRun
  <1> QED BY <1>7

LEMMA FoldIs ==
  ASSUME NEW context, NEW base, NEW T, NEW s \in Seq(T), NEW q, q[0] = base,
         \A k \in Nat : k < Len(s) => q[k + 1] = Op(context, q[k], s[k + 1])
  PROVE  Fold(context, base, s) = q[Len(s)]
  <1>1. PICK r : IsRun(context, base, s, r)
    BY FoldRuns
  <1> DEFINE Same == {k \in Nat : k <= Len(s) => q[k] = r[k]}
  <1>2. 0 \in Same
    BY <1>1 DEF IsRun
  <1>3. ASSUME NEW k \in Nat, k \in Same PROVE k + 1 \in Same
    <2> SUFFICES ASSUME k + 1 <= Len(s) PROVE q[k + 1] = r[k + 1]
      OBVIOUS
    <2>1. k < Len(s) /\ k <= Len(s) /\ q[k] = r[k]
      BY <1>3, LenProperties
    <2> QED BY <1>1, <2>1 DEF IsRun
  <1> HIDE DEF Same
  <1>4. \A k \in Nat : k \in Same
    BY <1>2, <1>3, Induction
  <1>5. q[Len(s)] = r[Len(s)]
    BY <1>4, LenProperties DEF Same
  <1> QED BY <1>1, <1>5 DEF IsRun

LEMMA FoldEmpty ==
  ASSUME NEW context, NEW base
  PROVE  Fold(context, base, <<>>) = base
  <1>1. <<>> \in Seq({}) /\ Len(<<>>) = 0
    BY EmptySeq
  <1>2. PICK run : IsRun(context, base, <<>>, run)
    BY <1>1, FoldRuns
  <1> QED BY <1>1, <1>2 DEF IsRun

LEMMA FoldAppend ==
  ASSUME NEW context, NEW base, NEW T, NEW s \in Seq(T), NEW x \in T
  PROVE  Fold(context, base, Append(s, x)) = Op(context, Fold(context, base, s), x)
  <1> DEFINE t == Append(s, x)
             n == Len(s)
  <1>1. /\ t \in Seq(T) /\ n \in Nat /\ Len(t) = n + 1 /\ t[n + 1] = x
        /\ \A k \in Nat : k < n => t[k + 1] = s[k + 1]
    <2>1. \A i \in 1..Len(s) : t[i] = s[i]
      BY AppendProperties
    <2>2. \A k \in Nat : k < Len(s) => k + 1 \in 1..Len(s)
      OBVIOUS
    <2> QED BY <2>1, <2>2, AppendProperties, LenProperties
  <1> HIDE DEF t
  <1>2. PICK q : IsRun(context, base, t, q)
    BY <1>1, FoldRuns
  <1>3. ASSUME NEW k \in Nat, k < Len(s)
        PROVE  q[k + 1] = Op(context, q[k], s[k + 1])
    <2>1. k < Len(t) /\ t[k + 1] = s[k + 1]
      BY <1>1, <1>3
    <2> QED BY <1>2, <2>1 DEF IsRun
  <1>4. Fold(context, base, s) = q[n]
    BY <1>2, <1>3, FoldIs DEF IsRun
  <1> HIDE DEF n
  <1>5. q[n + 1] = Op(context, q[n], t[n + 1])
    BY <1>1, <1>2 DEF IsRun
  <1> QED BY <1>1, <1>2, <1>4, <1>5 DEF t, IsRun

LEMMA FoldOne ==
  ASSUME NEW context, NEW base, NEW x
  PROVE  Fold(context, base, <<x>>) = Op(context, base, x)
  <1> DEFINE none == <<>>
             T == {x}
  <1>1. none \in Seq(T) /\ x \in T
    OBVIOUS
  <1>4. Append(none, x) = <<x>>
    OBVIOUS
  <1>2. Fold(context, base, none) = base
    BY FoldEmpty
  <1> HIDE DEF none, T
  <1>3. Fold(context, base, Append(none, x)) = Op(context, Fold(context, base, none), x)
    BY <1>1, FoldAppend
  <1> QED BY <1>2, <1>3, <1>4

(* What a fold makes of two parts is what it makes of the second from what *)
(* it made of the first.                                                   *)
THEOREM FoldConcat ==
  ASSUME NEW context, NEW base, NEW T, NEW s \in Seq(T), NEW t \in Seq(T)
  PROVE  Fold(context, base, s \o t) = Fold(context, Fold(context, base, s), t)
  <1> DEFINE start == Fold(context, base, s)
             P == {u \in Seq(T) : Fold(context, base, s \o u) = Fold(context, start, u)}
  <1>1. <<>> \in P
    <2>1. s \o <<>> = s /\ <<>> \in Seq(T)
      BY ConcatEmptySeq, EmptySeq
    <2> QED BY <2>1, FoldEmpty
  <1>2. ASSUME NEW u \in Seq(T), NEW x \in T, u \in P PROVE Append(u, x) \in P
    <2>1. s \o Append(u, x) = Append(s \o u, x)
      <3>1. /\ Append(u, x) = u \o <<x>>
            /\ s \o u \in Seq(T) /\ <<x>> \in Seq(T)
            /\ Append(s \o u, x) = (s \o u) \o <<x>>
        BY AppendIsConcat, ConcatProperties
      <3> QED BY <3>1, ConcatAssociative
    <2>2. s \o u \in Seq(T) /\ Append(u, x) \in Seq(T)
      BY ConcatProperties
    <2>3. Fold(context, base, Append(s \o u, x)) = Op(context, Fold(context, base, s \o u), x)
      <3> DEFINE v == s \o u
      <3>1. v \in Seq(T)
        BY <2>2
      <3> HIDE DEF v
      <3>2. Fold(context, base, Append(v, x)) = Op(context, Fold(context, base, v), x)
        BY <3>1, FoldAppend
      <3> QED BY <3>2 DEF v
    <2>4. Fold(context, start, Append(u, x)) = Op(context, Fold(context, start, u), x)
      BY FoldAppend
    <2> QED BY <1>2, <2>1, <2>2, <2>3, <2>4
  <1> HIDE DEF P
  <1>3. t \in P
    BY <1>1, <1>2, InductionAppend
  <1> QED BY <1>3 DEF P
=============================================================================
