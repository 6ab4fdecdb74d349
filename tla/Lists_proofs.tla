---------------------------- MODULE Lists_proofs ----------------------------
(***************************************************************************)
(* Facts about lists that the proofs on the provider layer share: what a   *)
(* list of lists comes to when it is flattened, what a list collects when  *)
(* each element stands for a list, where the parts of it end; and that a   *)
(* function defined by recursion over an interval exists.                  *)
(***************************************************************************)
EXTENDS SequencesExt, FiniteSetTheorems, SequenceTheorems, TLAPS

(***************************************************************************)
(* A set of numbers that is not empty has a least one: its initial segment *)
(* is minimal for inclusion.                                               *)
(***************************************************************************)
LEMMA LeastNumber ==
  ASSUME NEW S \in SUBSET Nat, S # {}
  PROVE  \E x \in S : \A y \in S : x <= y
<1> DEFINE Below == {1..n : n \in S}
<1> DEFINE Smaller == StrictSubsetOrdering(Nat)
<1>1. Below # {}
  OBVIOUS
<1>2. Below \subseteq FiniteSubsetsOf(Nat)
  BY FS_Interval DEF FiniteSubsetsOf
<1>3. IsWellFoundedOn(Smaller, FiniteSubsetsOf(Nat))
  BY FS_StrictSubsetOrderingWellFounded
<1>4. PICK least \in Below : \A b \in Below : <<b, least>> \notin Smaller
  <2> HIDE DEF Below, Smaller
  <2> QED  BY <1>1, <1>2, <1>3, WFMin
<1>5. PICK x \in S : least = 1..x
  OBVIOUS
<1>6. ASSUME NEW y \in S, y < x PROVE FALSE
  <2>1. 1..y \in SUBSET Nat /\ 1..x \in SUBSET Nat /\ 1..y \subseteq 1..x
    BY <1>6
  <2>2. x \in 1..x /\ x \notin 1..y
    BY <1>6
  <2>3. <<1..y, 1..x>> \in Smaller
    BY <2>1, <2>2 DEF StrictSubsetOrdering
  <2> QED  BY <1>4, <1>5, <2>3
<1> QED  BY <1>6

(***************************************************************************)
(* Induction over an interval, for a set of numbers.                       *)
(***************************************************************************)
LEMMA Climb ==
  ASSUME NEW N \in Nat, NEW Good, 0 \in Good,
         \A n \in 0..N : n < N /\ n \in Good => n + 1 \in Good
  PROVE  N \in Good /\ \A n \in 0..N : n \in Good
<1> DEFINE Bad == {n \in 0..N : n \notin Good}
<1>1. ASSUME Bad # {} PROVE FALSE
  <2>1. Bad \in SUBSET Nat
    OBVIOUS
  <2>2. PICK x \in Bad : \A y \in Bad : x <= y
    <3> HIDE DEF Bad
    <3> QED  BY <1>1, <2>1, LeastNumber
  <2>3. x \in 0..N /\ x # 0
    OBVIOUS
  <2>4. x - 1 \in 0..N /\ x - 1 < N /\ x - 1 \notin Bad
    BY <2>2, <2>3
  <2>5. x - 1 \in Good /\ (x - 1) + 1 = x
    BY <2>3, <2>4
  <2> QED  BY <2>4, <2>5
<1> QED  BY <1>1

-----------------------------------------------------------------------------
(***************************************************************************)
(* Concatenations.                                                         *)
(***************************************************************************)
LEMMA PrefixesOf ==
  ASSUME NEW T, NEW s \in Seq(Seq(T))
  PROVE  \E p \in [0..Len(s) -> Seq(T)] :
           p[0] = <<>> /\ \A i \in 1..Len(s) : p[i] = p[i - 1] \o s[i]
<1> DEFINE Fits(p, n) == /\ p \in [0..n -> Seq(T)] /\ p[0] = <<>>
                         /\ \A i \in 1..n : p[i] = p[i - 1] \o s[i]
           Good == {n \in 0..Len(s) : \E p : Fits(p, n)}
<1>1. Len(s) \in Nat
  OBVIOUS
<1>2. 0 \in Good
  <2>1. Fits([n \in 0..0 |-> <<>>], 0)
    BY EmptySeq
  <2>2. 0 \in 0..Len(s) /\ \E p : Fits(p, 0)
    <3> HIDE DEF Fits
    <3> QED  BY <1>1, <2>1
  <2> QED  BY <2>2, Zenon
<1>3. ASSUME NEW n \in 0..Len(s), n < Len(s), n \in Good PROVE n + 1 \in Good
  <2>1. PICK p : Fits(p, n)
    BY <1>3
  <2> DEFINE q == [i \in 0..n + 1 |-> IF i = n + 1 THEN p[n] \o s[n + 1] ELSE p[i]]
  <2>2. n \in Nat /\ n + 1 \in 0..Len(s) /\ n + 1 \in 1..Len(s)
    BY <1>3
  <2>3. s[n + 1] \in Seq(T) /\ p[n] \in Seq(T) /\ p[n] \o s[n + 1] \in Seq(T)
    BY <2>1, <2>2, ElementOfSeq, ConcatProperties
  <2>4. q \in [0..n + 1 -> Seq(T)] /\ q[0] = <<>>
    BY <2>1, <2>2, <2>3
  <2>5. ASSUME NEW i \in 1..n + 1 PROVE q[i] = q[i - 1] \o s[i]
    <3>1. CASE i = n + 1
      <4>1. i - 1 = n /\ n # n + 1 /\ n \in 0..n + 1 /\ n + 1 \in 0..n + 1
        BY <2>2, <3>1
      <4>2. q[n + 1] = p[n] \o s[n + 1] /\ q[n] = p[n]
        BY <4>1, Zenon
      <4> QED  BY <3>1, <4>1, <4>2, Zenon
    <3>2. CASE i # n + 1
      <4>1. i \in 1..n /\ q[i] = p[i] /\ q[i - 1] = p[i - 1]
        BY <2>2, <3>2
      <4> QED  BY <2>1, <4>1, Zenon
    <3> QED  BY <3>1, <3>2
  <2>6. Fits(q, n + 1)
    <3> HIDE DEF q
    <3> QED  BY <2>4, <2>5
  <2> QED  BY <2>2, <2>6, Zenon
<1>4. Len(s) \in Good
  <2> HIDE DEF Good
  <2> QED  BY <1>1, <1>2, <1>3, Climb, Zenon
<1> QED  BY <1>4

LEMMA ListOf ==
  ASSUME NEW T, NEW n \in Nat, NEW f, f = [i \in 1..n |-> f[i]], \A i \in 1..n : f[i] \in T
  PROVE  f \in Seq(T) /\ Len(f) = n
<1>1. f \in [1..n -> T]
  OBVIOUS
<1> QED  BY <1>1, LenProperties

LEMMA FlattenedBy ==
  ASSUME NEW T, NEW s \in Seq(Seq(T)), NEW p, p[0] = <<>>,
         \A i \in 1..Len(s) : p[i] = p[i - 1] \o s[i]
  PROVE  FlattenSeq(s) = p[Len(s)]
<1> DEFINE n == Len(s)
           Is(f) == f = [i \in 1..n |-> IF i = 1 THEN s[i] ELSE f[i - 1] \o s[i]]
           flatten == CHOOSE f : Is(f)
           Good == {i \in 0..n : i > 0 => flatten[i] = p[i]}
<1>1. n \in Nat /\ DOMAIN s = 1..n
  BY LenProperties
<1>2. CASE n = 0
  <2>1. s = <<>>
    BY <1>2, LenProperties, EmptySeq
  <2> QED  BY <1>2, <2>1 DEF FlattenSeq
<1>3. CASE n # 0
  <2>1. FlattenSeq(s) = flatten[n]
    BY <1>3 DEF FlattenSeq
  <2>2. p[1] = s[1]
    <3>1. 1 \in 1..n /\ s[1] \in Seq(T)
      BY <1>1, <1>3, ElementOfSeq
    <3>2. p[1] = p[1 - 1] \o s[1]
      BY <3>1
    <3>3. 1 - 1 = 0
      OBVIOUS
    <3>4. p[1] = <<>> \o s[1]
      BY <3>2, <3>3, Zenon
    <3> QED  BY <3>1, <3>4, ConcatEmptySeq
  <2>3. Is(flatten)
    <3> DEFINE g == [i \in 1..n |-> p[i]]
    <3>1. ASSUME NEW i \in 1..n
          PROVE  g[i] = IF i = 1 THEN s[i] ELSE g[i - 1] \o s[i]
      <4>1. i # 1 => i - 1 \in 1..n
        BY <1>1
      <4> QED  BY <2>2, <4>1
    <3>2. g = [i \in 1..n |-> g[i]]
      OBVIOUS
    <3> HIDE DEF g
    <3>3. g = [i \in 1..n |-> IF i = 1 THEN s[i] ELSE g[i - 1] \o s[i]]
      BY <3>1, <3>2
    <3> QED  BY <3>3, Zenon
  <2> HIDE DEF flatten
  <2>4. 0 \in Good
    BY <1>1
  <2>5. ASSUME NEW i \in 0..n, i < n, i \in Good PROVE i + 1 \in Good
    <3>1. i + 1 \in 1..n /\ i + 1 \in 0..n /\ (i + 1) - 1 = i
      BY <1>1, <2>5
    <3>2. flatten[i + 1] = IF i + 1 = 1 THEN s[i + 1] ELSE flatten[(i + 1) - 1] \o s[i + 1]
      BY <2>3, <3>1, Zenon
    <3>3. p[i + 1] = p[(i + 1) - 1] \o s[i + 1]
      BY <3>1
    <3>4. i # 0 => flatten[i] = p[i]
      BY <2>5
    <3>5. CASE i = 0
      BY <2>2, <3>1, <3>2, <3>5
    <3>6. CASE i # 0
      <4>1. i + 1 # 1
        BY <2>5, <3>6
      <4> QED  BY <3>1, <3>2, <3>3, <3>4, <3>6, <4>1, Zenon
    <3>7. flatten[i + 1] = p[i + 1]
      BY <3>5, <3>6
    <3> QED  BY <3>1, <3>7
  <2>6. n \in Good
    <3> HIDE DEF Good, n
    <3> QED  BY <1>1, <2>4, <2>5, Climb, Zenon
  <2> QED  BY <1>1, <1>3, <2>1, <2>6
<1> QED  BY <1>2, <1>3

LEMMA FlattenEmpty == FlattenSeq(<<>>) = <<>>
  BY DEF FlattenSeq

LEMMA FlattenType ==
  ASSUME NEW T, NEW s \in Seq(Seq(T))
  PROVE  FlattenSeq(s) \in Seq(T)
<1>1. PICK p \in [0..Len(s) -> Seq(T)] :
        p[0] = <<>> /\ \A i \in 1..Len(s) : p[i] = p[i - 1] \o s[i]
  BY PrefixesOf
<1>2. FlattenSeq(s) = p[Len(s)]
  BY <1>1, FlattenedBy
<1>3. Len(s) \in 0..Len(s)
  BY LenProperties
<1> QED  BY <1>2, <1>3

LEMMA FlattenAppend ==
  ASSUME NEW T, NEW s \in Seq(Seq(T)), NEW x \in Seq(T)
  PROVE  FlattenSeq(Append(s, x)) = FlattenSeq(s) \o x
<1> DEFINE n == Len(s)
           t == Append(s, x)
<1>1. PICK p \in [0..n -> Seq(T)] : p[0] = <<>> /\ \A i \in 1..n : p[i] = p[i - 1] \o s[i]
  BY PrefixesOf
<1> DEFINE q == [i \in 0..n + 1 |-> IF i = n + 1 THEN p[n] \o x ELSE p[i]]
<1>2. n \in Nat
  OBVIOUS
<1>3. t \in Seq(Seq(T)) /\ Len(t) = n + 1 /\ (\A i \in 1..n : t[i] = s[i]) /\ t[n + 1] = x
  BY AppendProperties
<1>4. q[0] = <<>>
  BY <1>1, <1>2
<1>5. ASSUME NEW i \in 1..Len(t) PROVE q[i] = q[i - 1] \o t[i]
  <2>1. CASE i = n + 1
    <3>1. q[n + 1] = p[n] \o x /\ i - 1 = n /\ q[n] = p[n]
      BY <1>2, <2>1
    <3> QED  BY <1>3, <2>1, <3>1, Zenon
  <2>2. CASE i # n + 1
    <3>1. i \in 1..n /\ t[i] = s[i] /\ q[i] = p[i] /\ q[i - 1] = p[i - 1]
      BY <1>2, <1>3, <2>2
    <3> QED  BY <1>1, <3>1, Zenon
  <2> QED  BY <2>1, <2>2
<1>6. FlattenSeq(t) = q[n + 1]
  <2> HIDE DEF t, q
  <2> QED  BY <1>3, <1>4, <1>5, FlattenedBy
<1>7. FlattenSeq(s) = p[n]
  BY <1>1, FlattenedBy
<1> QED  BY <1>2, <1>6, <1>7

(***************************************************************************)
(* One list more at the end, or at the front.                              *)
(***************************************************************************)
LEMMA FlattenExtend ==
  ASSUME NEW T, NEW f \in Seq(Seq(T)), NEW g \in Seq(Seq(T)), Len(g) = Len(f) + 1,
         \A i \in 1..Len(f) : g[i] = f[i]
  PROVE  FlattenSeq(g) = FlattenSeq(f) \o g[Len(f) + 1]
<1>1. Len(f) \in Nat /\ Len(f) + 1 \in 1..Len(g)
  BY LenProperties
<1>2. g[Len(f) + 1] \in Seq(T)
  BY <1>1, ElementOfSeq
<1> DEFINE h == Append(f, g[Len(f) + 1])
<1>3. h \in Seq(Seq(T)) /\ Len(h) = Len(f) + 1 /\ (\A i \in 1..Len(f) : h[i] = f[i])
        /\ h[Len(f) + 1] = g[Len(f) + 1]
  BY <1>2, AppendProperties
<1>4. ASSUME NEW i \in 1..Len(g) PROVE g[i] = h[i]
  <2> HIDE DEF h
  <2>1. i \in 1..Len(f) \/ i = Len(f) + 1
    BY <1>1
  <2> QED  BY <1>3, <2>1
<1>5. g = h
  <2> HIDE DEF h
  <2> QED  BY <1>3, <1>4, SeqEqual
<1> QED  BY <1>2, <1>5, FlattenAppend

LEMMA FlattenOne ==
  ASSUME NEW T, NEW x \in Seq(T)
  PROVE  FlattenSeq(<<x>>) = x
<1>1. <<>> \in Seq(Seq(T)) /\ Append(<<>>, x) = <<x>>
  BY EmptySeq
<1>2. FlattenSeq(Append(<<>>, x)) = <<>> \o x
  BY <1>1, FlattenAppend, FlattenEmpty
<1> QED  BY <1>1, <1>2, ConcatEmptySeq

LEMMA FlattenConcat ==
  ASSUME NEW T, NEW s \in Seq(Seq(T)), NEW t \in Seq(Seq(T))
  PROVE  FlattenSeq(s \o t) = FlattenSeq(s) \o FlattenSeq(t)
<1> DEFINE upTo(j) == SubSeq(t, 1, j)
           Good == {j \in 0..Len(t) :
                      FlattenSeq(s \o upTo(j)) = FlattenSeq(s) \o FlattenSeq(upTo(j))}
<1>1. Len(t) \in Nat
  BY LenProperties
<1>2. ASSUME NEW j \in 0..Len(t) PROVE upTo(j) \in Seq(Seq(T)) /\ s \o upTo(j) \in Seq(Seq(T))
  <2>1. \A i \in 1..j : t[i] \in Seq(T)
    BY <1>1, ElementOfSeq
  <2>2. upTo(j) \in Seq(Seq(T))
    BY <2>1, SubSeqProperties
  <2> QED  BY <2>2, ConcatProperties
<1>3. 0 \in Good
  <2>1. upTo(0) = <<>> /\ s \o <<>> = s
    BY SubSeqEmpty, ConcatEmptySeq
  <2>2. FlattenSeq(s) \o <<>> = FlattenSeq(s)
    BY FlattenType, ConcatEmptySeq
  <2>3. 0 \in 0..Len(t)
    BY <1>1
  <2> QED  BY <2>1, <2>2, <2>3, FlattenEmpty, Zenon
<1>4. ASSUME NEW j \in 0..Len(t), j < Len(t), j \in Good PROVE j + 1 \in Good
  <2> DEFINE x == t[j + 1]
  <2>1. j + 1 \in 1..Len(t) /\ j + 1 \in 0..Len(t) /\ (j + 1) - 1 = j
    BY <1>1, <1>4
  <2>2. x \in Seq(T) /\ <<x>> \in Seq(Seq(T))
    BY <2>1, ElementOfSeq
  <2>3. upTo(j + 1) = upTo(j) \o <<x>>
    <3>1. 1 \in 1..Len(t) /\ j + 1 \in 1..Len(t)
      BY <1>1, <2>1
    <3>2. SubSeq(t, 1, j + 1) = SubSeq(t, 1, (j + 1) - 1) \o <<t[j + 1]>>
      BY <3>1, SubSeqRecursiveSecond
    <3> QED  BY <2>1, <3>2, Zenon
  <2>4. upTo(j) \in Seq(Seq(T)) /\ s \o upTo(j) \in Seq(Seq(T))
    BY <1>2
  <2>5. s \o upTo(j + 1) = (s \o upTo(j)) \o <<x>>
    <3>1. \A u, v, w \in Seq(Seq(T)) : (u \o v) \o w = u \o (v \o w)
      BY ConcatAssociative
    <3>2. (s \o upTo(j)) \o <<x>> = s \o (upTo(j) \o <<x>>)
      <4> HIDE DEF upTo, x
      <4> QED  BY <2>2, <2>4, <3>1, SMT
    <3> QED  BY <2>3, <3>2, Zenon
  <2>6. \A u \in Seq(Seq(T)) : FlattenSeq(u \o <<x>>) = FlattenSeq(u) \o x
    <3>1. \A u \in Seq(Seq(T)) : Append(u, x) = u \o <<x>>
      BY <2>2, AppendIsConcat, Zenon
    <3> QED  BY <2>2, <3>1, FlattenAppend, Zenon
  <2>7. FlattenSeq(s \o upTo(j + 1)) = FlattenSeq(s \o upTo(j)) \o x
    BY <2>4, <2>5, <2>6, Zenon
  <2>8. FlattenSeq(upTo(j + 1)) = FlattenSeq(upTo(j)) \o x
    BY <2>3, <2>4, <2>6, Zenon
  <2>9. FlattenSeq(s \o upTo(j)) = FlattenSeq(s) \o FlattenSeq(upTo(j))
    BY <1>4
  <2>10. (FlattenSeq(s) \o FlattenSeq(upTo(j))) \o x = FlattenSeq(s) \o (FlattenSeq(upTo(j)) \o x)
    <3>1. FlattenSeq(s) \in Seq(T) /\ FlattenSeq(upTo(j)) \in Seq(T)
      BY <2>4, FlattenType, Zenon
    <3>2. \A u, v, w \in Seq(T) : (u \o v) \o w = u \o (v \o w)
      BY ConcatAssociative
    <3> HIDE DEF upTo, x
    <3> QED  BY <2>2, <3>1, <3>2, SMT
  <2> QED  BY <2>1, <2>7, <2>8, <2>9, <2>10, Zenon
<1>5. Len(t) \in Good
  <2> HIDE DEF Good
  <2> QED  BY <1>1, <1>3, <1>4, Climb, Zenon
<1>6. upTo(Len(t)) = t
  BY SubSeqFull
<1> QED  BY <1>5, <1>6, Zenon

LEMMA FlattenFront ==
  ASSUME NEW T, NEW f \in Seq(Seq(T)), NEW g \in Seq(Seq(T)), Len(g) = Len(f) + 1,
         \A i \in 1..Len(f) : g[i + 1] = f[i]
  PROVE  FlattenSeq(g) = g[1] \o FlattenSeq(f)
<1>1. Len(f) \in Nat /\ 1 \in 1..Len(g)
  BY LenProperties
<1>2. g[1] \in Seq(T) /\ <<g[1]>> \in Seq(Seq(T)) /\ Len(<<g[1]>>) = 1
  BY <1>1, ElementOfSeq
<1> DEFINE one == <<g[1]>>
           h == one \o f
<1>3. h \in Seq(Seq(T)) /\ Len(h) = 1 + Len(f)
        /\ \A i \in 1..1 + Len(f) : h[i] = IF i <= 1 THEN one[i] ELSE f[i - 1]
  <2>1. one \in Seq(Seq(T)) /\ Len(one) = 1
    BY <1>2
  <2>2. /\ one \o f \in Seq(Seq(T))
        /\ Len(one \o f) = Len(one) + Len(f)
        /\ \A i \in 1..Len(one) + Len(f) :
             (one \o f)[i] = IF i <= Len(one) THEN one[i] ELSE f[i - Len(one)]
    <3>1. \A u, v \in Seq(Seq(T)) :
            /\ u \o v \in Seq(Seq(T))
            /\ Len(u \o v) = Len(u) + Len(v)
            /\ \A i \in 1..Len(u) + Len(v) :
                 (u \o v)[i] = IF i <= Len(u) THEN u[i] ELSE v[i - Len(u)]
      BY ConcatProperties
    <3> QED  BY <2>1, <3>1, Zenon
  <2> QED  BY <2>1, <2>2, Zenon
<1>4. ASSUME NEW i \in 1..Len(g) PROVE g[i] = h[i]
  <2>1. CASE i = 1
    <3>1. i \in 1..1 + Len(f) /\ i <= 1 /\ one[1] = g[1]
      BY <1>1, <2>1
    <3> QED  BY <1>3, <2>1, <3>1, Zenon
  <2>2. CASE i # 1
    <3>1. i - 1 \in 1..Len(f) /\ (i - 1) + 1 = i /\ i \in 1..1 + Len(f) /\ ~(i <= 1)
      BY <1>1, <2>2
    <3> HIDE DEF h
    <3> QED  BY <1>3, <3>1
  <2> QED  BY <2>1, <2>2
<1>5. g = h
  <2>1. Len(h) = Len(g)
    BY <1>1, <1>3
  <2> QED  BY <1>3, <1>4, <2>1, SeqEqual, Zenon
<1>6. FlattenSeq(one \o f) = FlattenSeq(one) \o FlattenSeq(f) /\ FlattenSeq(one) = g[1]
  BY <1>2, FlattenConcat, FlattenOne, Zenon
<1> QED  BY <1>5, <1>6, Zenon

(***************************************************************************)
(* What a list becomes when each of its elements stands for a list.        *)
(***************************************************************************)
Lists(c, T, U) == \A x \in T : c[x] \in Seq(U)

Mapped(c, s) == [i \in DOMAIN s |-> c[s[i]]]
Collected(c, s) == FlattenSeq(Mapped(c, s))

LEMMA CollectedParts ==
  ASSUME NEW T, NEW U, NEW c, Lists(c, T, U), NEW s \in Seq(T)
  PROVE  /\ Mapped(c, s) \in Seq(Seq(U))
         /\ Len(Mapped(c, s)) = Len(s)
<1>1. Len(s) \in Nat /\ DOMAIN s = 1..Len(s)
  BY LenProperties
<1>2. \A i \in 1..Len(s) : c[s[i]] \in Seq(U)
  BY <1>1, ElementOfSeq DEF Lists
<1> QED  BY <1>1, <1>2, IsASeq DEF Mapped

LEMMA CollectedType ==
  ASSUME NEW T, NEW U, NEW c, Lists(c, T, U), NEW s \in Seq(T)
  PROVE  Collected(c, s) \in Seq(U)
  BY CollectedParts, FlattenType, Zenon DEF Collected

LEMMA CollectedEmpty == \A c : Collected(c, <<>>) = <<>>
<1>1. \A c : Mapped(c, <<>>) = <<>>
  BY DEF Mapped
<1> QED  BY <1>1, FlattenEmpty, Zenon DEF Collected

LEMMA CollectedAppend ==
  ASSUME NEW T, NEW U, NEW c, Lists(c, T, U), NEW s \in Seq(T), NEW x \in T
  PROVE  Collected(c, Append(s, x)) = Collected(c, s) \o c[x]
<1> DEFINE t == Append(s, x)
           f == Mapped(c, s)
           g == Mapped(c, t)
<1>1. /\ t \in Seq(T) /\ Len(t) = Len(s) + 1 /\ (\A i \in 1..Len(s) : t[i] = s[i])
      /\ t[Len(s) + 1] = x
  BY AppendProperties
<1>2. /\ DOMAIN s = 1..Len(s) /\ DOMAIN t = 1..Len(s) + 1 /\ Len(s) + 1 \in 1..Len(s) + 1
      /\ \A i \in 1..Len(s) : i \in 1..Len(s) + 1
  <2>1. Len(s) \in Nat /\ DOMAIN s = 1..Len(s) /\ DOMAIN t = 1..Len(t)
    <3> HIDE DEF t
    <3> QED  BY <1>1, LenProperties
  <2> QED  BY <1>1, <2>1
<1>3. /\ f \in Seq(Seq(U)) /\ Len(f) = Len(s)
      /\ g \in Seq(Seq(U)) /\ Len(g) = Len(s) + 1
  <2>1. \A u \in Seq(T) : /\ Mapped(c, u) \in Seq(Seq(U))
                          /\ Len(Mapped(c, u)) = Len(u)
    BY ONLY Lists(c, T, U), CollectedParts
  <2> HIDE DEF t
  <2> QED  BY <1>1, <2>1, Zenon
<1>4. ASSUME NEW i \in 1..Len(f) PROVE g[i] = f[i]
  <2> HIDE DEF t
  <2> QED  BY <1>1, <1>2, <1>3, Zenon DEF Mapped
<1>5. g[Len(s) + 1] = c[x]
  <2> HIDE DEF t
  <2> QED  BY <1>1, <1>2 DEF Mapped
<1>6. FlattenSeq(g) = FlattenSeq(f) \o g[Len(f) + 1]
  <2> HIDE DEF f, g
  <2> QED  BY <1>3, <1>4, FlattenExtend
<1> QED  BY <1>3, <1>5, <1>6, Zenon DEF Collected

LEMMA PrefixAppend ==
  ASSUME NEW T, NEW s \in Seq(T), NEW n \in 1..Len(s)
  PROVE  /\ s[n] \in T /\ SubSeq(s, 1, n) \in Seq(T) /\ SubSeq(s, 1, n - 1) \in Seq(T)
         /\ Len(SubSeq(s, 1, n)) = n
         /\ SubSeq(s, 1, n) = Append(SubSeq(s, 1, n - 1), s[n])
<1>1. Len(s) \in Nat /\ 1 \in 1..Len(s) /\ n \in 1..Len(s) /\ s[n] \in T
  BY LenProperties, ElementOfSeq
<1>2. SubSeq(s, 1, n) = SubSeq(s, 1, n - 1) \o <<s[n]>>
  BY <1>1, SubSeqRecursiveSecond
<1>3. SubSeq(s, 1, n - 1) \in Seq(T) /\ SubSeq(s, 1, n) \in Seq(T) /\ Len(SubSeq(s, 1, n)) = n
  <2>1. \A i \in 1..n : s[i] \in T
    BY <1>1, ElementOfSeq
  <2> QED  BY <1>1, <2>1, SubSeqProperties
<1> QED  BY <1>1, <1>2, <1>3, AppendIsConcat, Zenon

LEMMA CollectedPrefix ==
  ASSUME NEW T, NEW U, NEW c, Lists(c, T, U), NEW s \in Seq(T), NEW n \in 1..Len(s)
  PROVE  Collected(c, SubSeq(s, 1, n)) = Collected(c, SubSeq(s, 1, n - 1)) \o c[s[n]]
<1>1. \A u \in Seq(T), x \in T : Collected(c, Append(u, x)) = Collected(c, u) \o c[x]
  BY CollectedAppend
<1>2. /\ s[n] \in T /\ SubSeq(s, 1, n - 1) \in Seq(T)
      /\ SubSeq(s, 1, n) = Append(SubSeq(s, 1, n - 1), s[n])
  BY PrefixAppend, Zenon
<1> QED  BY <1>1, <1>2, Zenon

LEMMA CollectedConcat ==
  ASSUME NEW T, NEW U, NEW c, Lists(c, T, U), NEW s \in Seq(T), NEW t \in Seq(T)
  PROVE  Collected(c, s \o t) = Collected(c, s) \o Collected(c, t)
<1> DEFINE f == Mapped(c, s)
           g == Mapped(c, t)
           h == Mapped(c, s \o t)
<1>1. /\ s \o t \in Seq(T) /\ Len(s \o t) = Len(s) + Len(t)
      /\ \A i \in 1..Len(s) + Len(t) :
           (s \o t)[i] = IF i <= Len(s) THEN s[i] ELSE t[i - Len(s)]
  BY ConcatProperties
<1>2. /\ Len(s) \in Nat /\ DOMAIN s = 1..Len(s) /\ Len(t) \in Nat /\ DOMAIN t = 1..Len(t)
      /\ DOMAIN (s \o t) = 1..Len(s) + Len(t)
  BY <1>1, LenProperties
<1>3. /\ f \in Seq(Seq(U)) /\ Len(f) = Len(s) /\ g \in Seq(Seq(U)) /\ Len(g) = Len(t)
      /\ h \in Seq(Seq(U)) /\ Len(h) = Len(s) + Len(t)
  <2>1. \A u \in Seq(T) : /\ Mapped(c, u) \in Seq(Seq(U))
                          /\ Len(Mapped(c, u)) = Len(u)
    BY ONLY Lists(c, T, U), CollectedParts
  <2> QED  BY <1>1, <2>1, Zenon
<1>4. /\ f \o g \in Seq(Seq(U)) /\ Len(f \o g) = Len(s) + Len(t)
      /\ \A i \in 1..Len(s) + Len(t) :
           (f \o g)[i] = IF i <= Len(s) THEN f[i] ELSE g[i - Len(s)]
  <2>1. \A u, v \in Seq(Seq(U)) :
          /\ u \o v \in Seq(Seq(U)) /\ Len(u \o v) = Len(u) + Len(v)
          /\ \A i \in 1..Len(u) + Len(v) :
               (u \o v)[i] = IF i <= Len(u) THEN u[i] ELSE v[i - Len(u)]
    BY ConcatProperties
  <2>2. \A v \in Seq(Seq(U)) :
          /\ f \o v \in Seq(Seq(U)) /\ Len(f \o v) = Len(f) + Len(v)
          /\ \A i \in 1..Len(f) + Len(v) :
               (f \o v)[i] = IF i <= Len(f) THEN f[i] ELSE v[i - Len(f)]
    BY <1>3, <2>1, Zenon
  <2>3. /\ f \o g \in Seq(Seq(U)) /\ Len(f \o g) = Len(f) + Len(g)
        /\ \A i \in 1..Len(f) + Len(g) :
             (f \o g)[i] = IF i <= Len(f) THEN f[i] ELSE g[i - Len(f)]
    BY <1>3, <2>2, Zenon
  <2> HIDE DEF f, g
  <2> QED  BY ONLY <1>3, <2>3, Zenon
<1>5. ASSUME NEW i \in 1..Len(s) + Len(t) PROVE h[i] = (f \o g)[i]
  <2>1. h[i] = c[(s \o t)[i]]
    BY <1>2 DEF Mapped
  <2>2. CASE i <= Len(s)
    <3>1. i \in 1..Len(s) /\ (s \o t)[i] = s[i] /\ (f \o g)[i] = f[i]
      BY <1>1, <1>2, <1>4, <2>2
    <3> QED  BY <1>2, <2>1, <3>1, Zenon DEF Mapped
  <2>3. CASE ~(i <= Len(s))
    <3>1. i - Len(s) \in 1..Len(t) /\ (s \o t)[i] = t[i - Len(s)] /\ (f \o g)[i] = g[i - Len(s)]
      BY <1>1, <1>2, <1>4, <2>3
    <3> QED  BY <1>2, <2>1, <3>1, Zenon DEF Mapped
  <2> QED  BY <2>2, <2>3
<1>6. h = f \o g
  <2> HIDE DEF f, g, h
  <2> QED  BY <1>3, <1>4, <1>5, SeqEqual
<1>7. FlattenSeq(f \o g) = FlattenSeq(f) \o FlattenSeq(g)
  <2> HIDE DEF f, g
  <2> QED  BY <1>3, FlattenConcat
<1> QED  BY <1>6, <1>7, Zenon DEF Collected

LEMMA CollectedFlatten ==
  ASSUME NEW T, NEW U, NEW c, Lists(c, T, U), NEW s \in Seq(Seq(T))
  PROVE  /\ [i \in DOMAIN s |-> Collected(c, s[i])] \in Seq(Seq(U))
         /\ Len([i \in DOMAIN s |-> Collected(c, s[i])]) = Len(s)
         /\ Collected(c, FlattenSeq(s)) = FlattenSeq([i \in DOMAIN s |-> Collected(c, s[i])])
<1> DEFINE r == [i \in DOMAIN s |-> Collected(c, s[i])]
           n == Len(s)
<1>1. n \in Nat /\ DOMAIN s = 1..n /\ \A i \in 1..n : s[i] \in Seq(T)
  BY LenProperties, ElementOfSeq
<1>2. r \in Seq(Seq(U)) /\ Len(r) = n
  <2>1. \A i \in 1..n : Collected(c, s[i]) \in Seq(U)
    BY <1>1, CollectedType, Zenon
  <2>2. r = [i \in 1..n |-> Collected(c, s[i])]
    BY <1>1
  <2> HIDE DEF n
  <2> QED  BY <1>1, <2>1, <2>2, IsASeq
<1>0. \A u, v \in Seq(T) : Collected(c, u \o v) = Collected(c, u) \o Collected(c, v)
  BY CollectedConcat
<1>3. PICK p \in [0..n -> Seq(T)] : p[0] = <<>> /\ \A i \in 1..n : p[i] = p[i - 1] \o s[i]
  BY PrefixesOf
<1>4. FlattenSeq(s) = p[n]
  BY <1>3, FlattenedBy
<1> DEFINE q == [i \in 0..n |-> Collected(c, p[i])]
<1>5. q[0] = <<>>
  <2>1. 0 \in 0..n
    BY <1>1
  <2> QED  BY <1>3, <2>1, CollectedEmpty, Zenon
<1>6. ASSUME NEW i \in 1..Len(r) PROVE q[i] = q[i - 1] \o r[i]
  <2>1. i \in 1..n /\ i \in 0..n /\ i - 1 \in 0..n
    <3> HIDE DEF n, r
    <3> QED  BY <1>1, <1>2
  <2>2. p[i - 1] \in Seq(T) /\ s[i] \in Seq(T) /\ p[i] = p[i - 1] \o s[i]
    <3> HIDE DEF n
    <3> QED  BY <1>1, <1>3, <2>1
  <2>3. Collected(c, p[i]) = Collected(c, p[i - 1]) \o Collected(c, s[i])
    BY <1>0, <2>2, Zenon
  <2>4. r[i] = Collected(c, s[i])
    BY <1>1, <2>1, Zenon
  <2> QED  BY <2>1, <2>3, <2>4, Zenon
<1>7. FlattenSeq(r) = q[Len(r)]
  <2> HIDE DEF r, q
  <2> QED  BY <1>2, <1>5, <1>6, FlattenedBy, Zenon
<1>8. n \in 0..n
  BY <1>1
<1> QED  BY <1>2, <1>4, <1>7, <1>8, Zenon

(***************************************************************************)
(* Elements that stand for themselves, or for nothing.                     *)
(***************************************************************************)
LEMMA CollectedSame ==
  ASSUME NEW T, NEW c, Lists(c, T, T), NEW s \in Seq(T),
         \A i \in 1..Len(s) : c[s[i]] = <<s[i]>>
  PROVE  Collected(c, s) = s
<1> DEFINE Good == {n \in 0..Len(s) : Collected(c, SubSeq(s, 1, n)) = SubSeq(s, 1, n)}
<1>1. Len(s) \in Nat
  BY LenProperties
<1>0. ASSUME NEW k \in 1..Len(s)
      PROVE  Collected(c, SubSeq(s, 1, k)) = Collected(c, SubSeq(s, 1, k - 1)) \o c[s[k]]
  BY ONLY Lists(c, T, T), s \in Seq(T), k \in 1..Len(s), CollectedPrefix, Zenon
<1>2. 0 \in Good
  <2>1. SubSeq(s, 1, 0) = <<>> /\ 0 \in 0..Len(s)
    BY <1>1, SubSeqEmpty
  <2> QED  BY <2>1, CollectedEmpty, Zenon
<1>3. ASSUME NEW n \in 0..Len(s), n < Len(s), n \in Good PROVE n + 1 \in Good
  <2>1. n + 1 \in 1..Len(s) /\ n + 1 \in 0..Len(s) /\ (n + 1) - 1 = n /\ 1 \in 1..Len(s)
    BY <1>1, <1>3
  <2>2. Collected(c, SubSeq(s, 1, n + 1)) = Collected(c, SubSeq(s, 1, n)) \o c[s[n + 1]]
    BY <1>0, <2>1, Zenon
  <2>3. SubSeq(s, 1, n + 1) = SubSeq(s, 1, (n + 1) - 1) \o <<s[n + 1]>>
    BY <2>1, SubSeqRecursiveSecond
  <2> QED  BY <1>3, <2>1, <2>2, <2>3, Zenon
<1>4. Len(s) \in Good
  <2> HIDE DEF Good
  <2> QED  BY <1>1, <1>2, <1>3, Climb, Zenon
<1>5. SubSeq(s, 1, Len(s)) = s
  BY SubSeqFull
<1> QED  BY <1>4, <1>5, Zenon

LEMMA FlattenNone ==
  ASSUME NEW T, NEW s \in Seq(Seq(T)), \A i \in 1..Len(s) : s[i] = <<>>
  PROVE  FlattenSeq(s) = <<>>
<1> DEFINE p == [i \in 0..Len(s) |-> <<>>]
<1>1. Len(s) \in Nat
  BY LenProperties
<1>2. p[0] = <<>> /\ p[Len(s)] = <<>>
  BY <1>1
<1>3. ASSUME NEW i \in 1..Len(s) PROVE p[i] = p[i - 1] \o s[i]
  <2>1. i \in 0..Len(s) /\ i - 1 \in 0..Len(s) /\ <<>> \o <<>> = <<>>
    BY <1>1, EmptySeq, ConcatEmptySeq
  <2> QED  BY <2>1, Zenon
<1> HIDE DEF p
<1> QED  BY <1>2, <1>3, FlattenedBy, Zenon

-----------------------------------------------------------------------------
(***************************************************************************)
(* Where the k-th list of a concatenation ends, and what is found there.   *)
(***************************************************************************)
EndOf(s, k) == Len(FlattenSeq(SubSeq(s, 1, k)))

LEMMA SplitAt ==
  ASSUME NEW T, NEW s \in Seq(T), NEW n \in 0..Len(s)
  PROVE  /\ SubSeq(s, 1, n) \in Seq(T) /\ Len(SubSeq(s, 1, n)) = n
         /\ SubSeq(s, n + 1, Len(s)) \in Seq(T) /\ Len(SubSeq(s, n + 1, Len(s))) = Len(s) - n
         /\ SubSeq(s, 1, n) \o SubSeq(s, n + 1, Len(s)) = s
         /\ \A i \in 1..n : SubSeq(s, 1, n)[i] = s[i]
         /\ \A i \in 1..Len(s) - n : SubSeq(s, n + 1, Len(s))[i] = s[n + i]
<1>1. Len(s) \in Nat /\ \A i \in 1..Len(s) : s[i] \in T
  BY LenProperties, ElementOfSeq
<1>2. /\ SubSeq(s, 1, n) \in Seq(T) /\ Len(SubSeq(s, 1, n)) = n
      /\ \A i \in 1..n : SubSeq(s, 1, n)[i] = s[i]
  <2>1. \A i \in 1..n : s[i] \in T
    BY <1>1
  <2> QED  BY <1>1, <2>1, SubSeqProperties
<1>3. /\ SubSeq(s, n + 1, Len(s)) \in Seq(T) /\ Len(SubSeq(s, n + 1, Len(s))) = Len(s) - n
      /\ \A i \in 1..Len(s) - n : SubSeq(s, n + 1, Len(s))[i] = s[n + i]
  <2>1. \A i \in n + 1..Len(s) : s[i] \in T
    BY <1>1
  <2>2. /\ SubSeq(s, n + 1, Len(s)) \in Seq(T)
        /\ Len(SubSeq(s, n + 1, Len(s)))
             = IF n + 1 <= Len(s) THEN Len(s) - (n + 1) + 1 ELSE 0
        /\ \A i \in 1..Len(s) - (n + 1) + 1 : SubSeq(s, n + 1, Len(s))[i] = s[(n + 1) + i - 1]
    BY <1>1, <2>1, SubSeqProperties
  <2>3. Len(s) - (n + 1) + 1 = Len(s) - n
    BY <1>1
  <2>4. \A i \in 1..Len(s) - n : (n + 1) + i - 1 = n + i
    BY <1>1
  <2>5. Len(SubSeq(s, n + 1, Len(s))) = Len(s) - n
    BY <1>1, <2>2
  <2> QED  BY <2>2, <2>3, <2>4, <2>5, Zenon
<1>4. SubSeq(s, 1, n) \o SubSeq(s, n + 1, Len(s)) = SubSeq(s, 1, Len(s))
  <2>1. 1 \in 1..Len(s) + 1 /\ n \in 1 - 1..Len(s) /\ Len(s) \in n..Len(s)
    BY <1>1
  <2> QED  BY ONLY <2>1, s \in Seq(T), ConcatAdjacentSubSeq
<1> QED  BY <1>2, <1>3, <1>4, SubSeqFull

LEMMA FlattenPrefix ==
  ASSUME NEW T, NEW s \in Seq(Seq(T)), NEW k \in 1..Len(s)
  PROVE  /\ FlattenSeq(SubSeq(s, 1, k)) = FlattenSeq(SubSeq(s, 1, k - 1)) \o s[k]
         /\ FlattenSeq(SubSeq(s, 1, k - 1)) \in Seq(T)
         /\ s[k] \in Seq(T)
<1>1. \A u \in Seq(Seq(T)), x \in Seq(T) : FlattenSeq(Append(u, x)) = FlattenSeq(u) \o x
  BY FlattenAppend
<1>2. /\ s[k] \in Seq(T) /\ SubSeq(s, 1, k - 1) \in Seq(Seq(T))
      /\ SubSeq(s, 1, k) = Append(SubSeq(s, 1, k - 1), s[k])
  BY PrefixAppend, Zenon
<1>3. FlattenSeq(SubSeq(s, 1, k - 1)) \in Seq(T)
  BY <1>2, FlattenType, Zenon
<1> QED  BY <1>1, <1>2, <1>3, Zenon

LEMMA EndsAscend ==
  ASSUME NEW T, NEW s \in Seq(Seq(T))
  PROVE  /\ EndOf(s, 0) = 0 /\ EndOf(s, Len(s)) = Len(FlattenSeq(s))
         /\ \A k \in 0..Len(s) : EndOf(s, k) \in Nat
         /\ \A k \in 1..Len(s) : EndOf(s, k) = EndOf(s, k - 1) + Len(s[k]) /\ Len(s[k]) \in Nat
<1>1. Len(s) \in Nat
  BY LenProperties
<1>2. EndOf(s, 0) = 0
  <2>1. SubSeq(s, 1, 0) = <<>> /\ Len(<<>>) = 0
    BY SubSeqEmpty
  <2> QED  BY <2>1, FlattenEmpty, Zenon DEF EndOf
<1>3. EndOf(s, Len(s)) = Len(FlattenSeq(s))
  BY SubSeqFull DEF EndOf
<1>4. ASSUME NEW k \in 1..Len(s)
      PROVE  EndOf(s, k) = EndOf(s, k - 1) + Len(s[k]) /\ Len(s[k]) \in Nat /\ EndOf(s, k) \in Nat
  <2>1. /\ FlattenSeq(SubSeq(s, 1, k)) = FlattenSeq(SubSeq(s, 1, k - 1)) \o s[k]
        /\ FlattenSeq(SubSeq(s, 1, k - 1)) \in Seq(T) /\ s[k] \in Seq(T)
    BY FlattenPrefix, Zenon
  <2>2. \A u, v \in Seq(T) : Len(u \o v) = Len(u) + Len(v) /\ Len(u) \in Nat /\ u \o v \in Seq(T)
    BY ConcatProperties, LenProperties
  <2> QED  BY <2>1, <2>2, Zenon DEF EndOf
<1>5. \A k \in 0..Len(s) : EndOf(s, k) \in Nat
  <2>1. \A k \in 0..Len(s) : k = 0 \/ k \in 1..Len(s)
    BY <1>1
  <2> QED  BY <1>2, <1>4, <2>1
<1> QED  BY <1>2, <1>3, <1>4, <1>5

LEMMA FlattenPlaces ==
  ASSUME NEW T, NEW s \in Seq(Seq(T)), NEW k \in 1..Len(s)
  PROVE  /\ EndOf(s, k) <= Len(FlattenSeq(s))
         /\ \A j \in 1..Len(s[k]) : FlattenSeq(s)[EndOf(s, k - 1) + j] = s[k][j]
<1> DEFINE before == FlattenSeq(SubSeq(s, 1, k - 1))
           upto == FlattenSeq(SubSeq(s, 1, k))
           after == FlattenSeq(SubSeq(s, k + 1, Len(s)))
<1>1. before \in Seq(T) /\ s[k] \in Seq(T) /\ upto = before \o s[k]
  BY FlattenPrefix, Zenon
<1>2. after \in Seq(T) /\ upto \in Seq(T) /\ FlattenSeq(s) = upto \o after
  <2>1. k \in 0..Len(s)
    BY LenProperties
  <2>2. /\ SubSeq(s, 1, k) \in Seq(Seq(T)) /\ SubSeq(s, k + 1, Len(s)) \in Seq(Seq(T))
        /\ SubSeq(s, 1, k) \o SubSeq(s, k + 1, Len(s)) = s
    BY <2>1, SplitAt, Zenon
  <2>3. \A u, v \in Seq(Seq(T)) : FlattenSeq(u \o v) = FlattenSeq(u) \o FlattenSeq(v)
    BY FlattenConcat
  <2> QED  BY <2>2, <2>3, FlattenType, Zenon
<1>3. /\ Len(before) \in Nat /\ Len(s[k]) \in Nat /\ Len(upto) = Len(before) + Len(s[k])
      /\ \A i \in 1..Len(before) + Len(s[k]) :
           upto[i] = IF i <= Len(before) THEN before[i] ELSE s[k][i - Len(before)]
  <2> HIDE DEF before, upto
  <2> QED  BY <1>1, ConcatProperties, LenProperties
<1>4. /\ Len(after) \in Nat /\ Len(FlattenSeq(s)) = Len(upto) + Len(after)
      /\ \A i \in 1..Len(upto) + Len(after) :
           FlattenSeq(s)[i] = IF i <= Len(upto) THEN upto[i] ELSE after[i - Len(upto)]
  <2> HIDE DEF upto, after
  <2> QED  BY <1>2, ConcatProperties, LenProperties
<1>5. EndOf(s, k) = Len(upto) /\ EndOf(s, k - 1) = Len(before)
  BY DEF EndOf
<1> HIDE DEF before, upto, after
<1>6. ASSUME NEW j \in 1..Len(s[k]) PROVE FlattenSeq(s)[Len(before) + j] = s[k][j]
  <2> DEFINE i == Len(before) + j
  <2>1. /\ i \in 1..Len(before) + Len(s[k]) /\ i <= Len(upto) /\ ~(i <= Len(before))
        /\ i - Len(before) = j /\ i \in 1..Len(upto) + Len(after)
    BY <1>3, <1>4
  <2> QED  BY <1>3, <1>4, <2>1, Zenon
<1>7. Len(upto) <= Len(FlattenSeq(s))
  BY <1>3, <1>4
<1> QED  BY <1>5, <1>6, <1>7, Zenon

LEMMA CollectedPrefixes ==
  ASSUME NEW T, NEW U, NEW c, Lists(c, T, U), NEW s \in Seq(T), NEW k \in 0..Len(s)
  PROVE  IsPrefix(Collected(c, SubSeq(s, 1, k)), Collected(c, s))
<1> DEFINE a == Collected(c, SubSeq(s, 1, k))
           b == Collected(c, SubSeq(s, k + 1, Len(s)))
<1>1. a \in Seq(U) /\ b \in Seq(U) /\ Collected(c, s) = a \o b
  <2>1. /\ SubSeq(s, 1, k) \in Seq(T) /\ SubSeq(s, k + 1, Len(s)) \in Seq(T)
        /\ SubSeq(s, 1, k) \o SubSeq(s, k + 1, Len(s)) = s
    BY SplitAt, Zenon
  <2>2. \A u, v \in Seq(T) : /\ Collected(c, u \o v) = Collected(c, u) \o Collected(c, v)
                             /\ Collected(c, u) \in Seq(U)
    BY ONLY Lists(c, T, U), CollectedConcat, CollectedType
  <2> QED  BY <2>1, <2>2, Zenon
<1> HIDE DEF a, b
<1>2. /\ Len(a) \in Nat /\ Len(b) \in Nat /\ a \o b \in Seq(U) /\ Len(a \o b) = Len(a) + Len(b)
      /\ \A i \in 1..Len(a) : (a \o b)[i] = a[i] /\ a[i] \in U
  BY <1>1, ConcatProperties, LenProperties, ElementOfSeq
<1>3. SubSeq(a \o b, 1, Len(a)) = a
  <2>1. /\ SubSeq(a \o b, 1, Len(a)) \in Seq(U) /\ Len(SubSeq(a \o b, 1, Len(a))) = Len(a)
        /\ \A i \in 1..Len(a) : SubSeq(a \o b, 1, Len(a))[i] = (a \o b)[i]
    <3>1. Len(a) \in 0..Len(a \o b)
      BY <1>2
    <3> QED  BY <1>2, <3>1, SplitAt, Zenon
  <2> QED  BY <1>1, <1>2, <2>1, SeqEqual
<1>4. SubSeq(a, 1, Len(a)) = a /\ Len(a) <= Len(a \o b)
  BY <1>1, <1>2, SubSeqFull
<1> QED  BY <1>1, <1>3, <1>4 DEF IsPrefix, a

(***************************************************************************)
(* A function defined by recursion over an interval exists.                *)
(***************************************************************************)
Closed(S, g, lo, hi) == \A q \in S, n \in lo + 1..hi : g[<<q, n>>] \in S

Runs(f, S, first, g, lo, hi) ==
  /\ f \in [lo..hi -> S]
  /\ f = [n \in lo..hi |-> IF n = lo THEN first ELSE g[<<f[n - 1], n>>]]

LEMMA Recursion ==
  ASSUME NEW S, NEW first \in S, NEW lo \in Nat, NEW hi \in Nat, lo <= hi,
         NEW g, Closed(S, g, lo, hi)
  PROVE  \E f : Runs(f, S, first, g, lo, hi)
<1> DEFINE Fits(f, m) == /\ f \in [lo..lo + m -> S] /\ f[lo] = first
                         /\ \A n \in lo + 1..lo + m : f[n] = g[<<f[n - 1], n>>]
           d == hi - lo
           Good == {m \in 0..d : \E f : Fits(f, m)}
<1>1. d \in Nat /\ lo + d = hi
  OBVIOUS
<1>2. 0 \in Good
  <2>1. Fits([n \in lo..lo + 0 |-> first], 0)
    OBVIOUS
  <2>2. 0 \in 0..d
    BY <1>1
  <2> HIDE DEF Fits
  <2> QED  BY <2>1, <2>2
<1>3. ASSUME NEW m \in 0..d, m < d, m \in Good PROVE m + 1 \in Good
  <2>1. PICK f : Fits(f, m)
    BY <1>3
  <2> DEFINE top == lo + (m + 1)
             h == [n \in lo..top |-> IF n = top THEN g[<<f[lo + m], top>>] ELSE f[n]]
  <2>2. /\ top \in lo + 1..hi /\ lo + m \in lo..lo + m /\ top - 1 = lo + m /\ lo # top
        /\ lo + m # top /\ m + 1 \in 0..d /\ lo \in lo..top /\ top \in lo..top
    BY <1>1, <1>3
  <2>3. f[lo + m] \in S /\ g[<<f[lo + m], top>>] \in S
    BY <2>1, <2>2 DEF Closed
  <2>4. h \in [lo..top -> S]
    <3>1. \A n \in lo..top : n # top => n \in lo..lo + m
      BY <2>2
    <3> QED  BY <2>1, <2>3, <3>1
  <2>5. h[lo] = first
    BY <2>1, <2>2
  <2>6. ASSUME NEW n \in lo + 1..top PROVE h[n] = g[<<h[n - 1], n>>]
    <3>1. n \in lo..top /\ n - 1 \in lo..top /\ n - 1 # top
      BY <2>2
    <3>2. CASE n = top
      <4>1. h[n] = g[<<f[lo + m], top>>] /\ h[n - 1] = f[n - 1] /\ n - 1 = lo + m
        BY <2>2, <3>1, <3>2
      <4> HIDE DEF h, top
      <4> QED  BY <3>2, <4>1
    <3>3. CASE n # top
      <4>1. n \in lo + 1..lo + m /\ h[n] = f[n] /\ h[n - 1] = f[n - 1]
        BY <2>2, <3>1, <3>3
      <4>2. f[n] = g[<<f[n - 1], n>>]
        BY <2>1, <4>1
      <4> HIDE DEF h, top
      <4> QED  BY <4>1, <4>2
    <3> QED  BY <3>2, <3>3
  <2>7. Fits(h, m + 1)
    <3> HIDE DEF h
    <3> QED  BY <2>4, <2>5, <2>6
  <2> HIDE DEF Fits, h
  <2> QED  BY <2>2, <2>7
<1>4. d \in Good
  <2> HIDE DEF Good, d
  <2> QED  BY <1>1, <1>2, <1>3, Climb, Zenon
<1>5. PICK f : Fits(f, d)
  BY <1>4
<1>6. \A n \in lo..hi : f[n] = IF n = lo THEN first ELSE g[<<f[n - 1], n>>]
  BY <1>1, <1>5
<1>7. f \in [lo..hi -> S]
  BY <1>1, <1>5
<1>8. f = [n \in lo..hi |-> IF n = lo THEN first ELSE g[<<f[n - 1], n>>]]
  BY <1>6, <1>7
<1> QED  BY <1>7, <1>8 DEF Runs

=============================================================================
