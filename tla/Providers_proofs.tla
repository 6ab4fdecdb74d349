-------------------------- MODULE Providers_proofs --------------------------
(***************************************************************************)
(* Proofs about the parts of the provider layer: the wire requests, the    *)
(* accumulator of tool calls, the adapters before a response opens.        *)
(***************************************************************************)
EXTENDS Providers, Lists_proofs

-----------------------------------------------------------------------------
(***************************************************************************)
(* What a concatenation holds, in which order, and how much of it there    *)
(* is.                                                                     *)
(***************************************************************************)
LEMMA BeforeConcat ==
  ASSUME NEW T, NEW a \in Seq(T), NEW b \in Seq(T), NEW p, NEW q
  PROVE  Requests!Before(a \o b, p, q) <=>
           \/ Requests!Before(a, p, q) \/ Requests!Before(b, p, q)
           \/ p \in Range(a) /\ q \in Range(b)
<1> DEFINE m == Len(a)
           n == Len(b)
<1>1. /\ m \in Nat /\ n \in Nat /\ DOMAIN a = 1..m /\ DOMAIN b = 1..n
      /\ DOMAIN (a \o b) = 1..m + n
      /\ \A i \in 1..m + n : (a \o b)[i] = IF i <= m THEN a[i] ELSE b[i - m]
  <2>1. a \o b \in Seq(T) /\ Len(a \o b) = m + n
    BY ConcatProperties
  <2>2. DOMAIN (a \o b) = 1..m + n
    BY <2>1, LenProperties
  <2> QED  BY <2>2, ConcatProperties, LenProperties
<1>2. ASSUME Requests!Before(a \o b, p, q)
      PROVE  \/ Requests!Before(a, p, q) \/ Requests!Before(b, p, q)
             \/ p \in Range(a) /\ q \in Range(b)
  <2>1. PICK i \in 1..m + n, j \in 1..m + n : i < j /\ (a \o b)[i] = p /\ (a \o b)[j] = q
    BY <1>1, <1>2 DEF Requests!Before
  <2> HIDE DEF m, n
  <2>2. CASE j <= m
    <3>1. i \in 1..m /\ j \in 1..m /\ a[i] = p /\ a[j] = q
      BY <1>1, <2>1, <2>2
    <3> QED  BY <1>1, <2>1, <3>1 DEF Requests!Before
  <2>3. CASE ~(i <= m)
    <3>1. /\ i - m \in 1..n /\ j - m \in 1..n /\ i - m < j - m /\ ~(j <= m)
          /\ i \in 1..m + n /\ j \in 1..m + n
      BY <1>1, <2>1, <2>3
    <3>2. b[i - m] = p /\ b[j - m] = q
      BY <1>1, <2>1, <2>3, <3>1, Zenon
    <3> QED  BY <1>1, <3>1, <3>2 DEF Requests!Before
  <2>4. CASE i <= m /\ ~(j <= m)
    <3>1. i \in 1..m /\ j - m \in 1..n /\ a[i] = p /\ b[j - m] = q
      BY <1>1, <2>1, <2>4
    <3> QED  BY <1>1, <3>1 DEF Range
  <2> QED  BY <2>2, <2>3, <2>4
<1>3. ASSUME Requests!Before(a, p, q) PROVE Requests!Before(a \o b, p, q)
  <2>1. PICK i \in 1..m, j \in 1..m : i < j /\ a[i] = p /\ a[j] = q
    BY <1>1, <1>3 DEF Requests!Before
  <2> HIDE DEF m, n
  <2>2. i \in 1..m + n /\ j \in 1..m + n /\ (a \o b)[i] = p /\ (a \o b)[j] = q
    BY <1>1, <2>1
  <2> QED  BY <1>1, <2>1, <2>2 DEF Requests!Before
<1>4. ASSUME Requests!Before(b, p, q) PROVE Requests!Before(a \o b, p, q)
  <2>1. PICK i \in 1..n, j \in 1..n : i < j /\ b[i] = p /\ b[j] = q
    BY <1>1, <1>4 DEF Requests!Before
  <2> HIDE DEF m, n
  <2>2. /\ i + m \in 1..m + n /\ j + m \in 1..m + n /\ i + m < j + m
        /\ (i + m) - m = i /\ (j + m) - m = j /\ ~(i + m <= m) /\ ~(j + m <= m)
    BY <1>1, <2>1
  <2>3. (a \o b)[i + m] = p /\ (a \o b)[j + m] = q
    BY <1>1, <2>1, <2>2
  <2> QED  BY <1>1, <2>2, <2>3 DEF Requests!Before
<1>5. ASSUME p \in Range(a), q \in Range(b) PROVE Requests!Before(a \o b, p, q)
  <2>1. PICK i \in 1..m, j \in 1..n : a[i] = p /\ b[j] = q
    BY <1>1, <1>5 DEF Range
  <2> HIDE DEF m, n
  <2>2. /\ i \in 1..m + n /\ j + m \in 1..m + n /\ i < j + m /\ i <= m
        /\ (j + m) - m = j /\ ~(j + m <= m)
    BY <1>1, <2>1
  <2>3. (a \o b)[i] = p /\ (a \o b)[j + m] = q
    BY <1>1, <2>1, <2>2
  <2> QED  BY <1>1, <2>2, <2>3 DEF Requests!Before
<1> QED  BY <1>2, <1>3, <1>4, <1>5

LEMMA FlattenHolds ==
  ASSUME NEW T, NEW s \in Seq(Seq(T))
  PROVE  /\ Range(FlattenSeq(s)) = UNION {Range(s[i]) : i \in 1..Len(s)}
         /\ \A p, q : Requests!Before(FlattenSeq(s), p, q) <=>
              \/ \E i \in 1..Len(s) : Requests!Before(s[i], p, q)
              \/ \E i, j \in 1..Len(s) : i < j /\ p \in Range(s[i]) /\ q \in Range(s[j])
<1> DEFINE In(n, p, q) == \/ \E i \in 1..n : Requests!Before(s[i], p, q)
                          \/ \E i, j \in 1..n : i < j /\ p \in Range(s[i]) /\ q \in Range(s[j])
           All(n) == UNION {Range(s[i]) : i \in 1..n}
<1>0. \A u, v \in Seq(T) :
        /\ Range(u \o v) = Range(u) \cup Range(v)
        /\ \A p, q : Requests!Before(u \o v, p, q) <=>
             \/ Requests!Before(u, p, q) \/ Requests!Before(v, p, q)
             \/ p \in Range(u) /\ q \in Range(v)
  BY RangeConcatenation, BeforeConcat
<1>1. Len(s) \in Nat /\ \A i \in 1..Len(s) : s[i] \in Seq(T)
  BY LenProperties, ElementOfSeq
<1>2. PICK pre \in [0..Len(s) -> Seq(T)] :
        pre[0] = <<>> /\ \A i \in 1..Len(s) : pre[i] = pre[i - 1] \o s[i]
  BY PrefixesOf
<1>3. FlattenSeq(s) = pre[Len(s)]
  BY <1>2, FlattenedBy
<1> DEFINE Good == {n \in 0..Len(s) : /\ Range(pre[n]) = All(n)
                                      /\ \A p, q : Requests!Before(pre[n], p, q) <=> In(n, p, q)}
<1>4. 0 \in Good
  <2>1. Range(<<>>) = {} /\ \A p, q : ~Requests!Before(<<>>, p, q)
    BY DEF Range, Requests!Before
  <2>2. 1..0 = {} /\ 0 \in 0..Len(s)
    BY <1>1
  <2>3. All(0) = {} /\ \A p, q : ~In(0, p, q)
    BY <2>2
  <2> HIDE DEF All, In
  <2> QED  BY <1>2, <2>1, <2>2, <2>3
<1>5. ASSUME NEW n \in 0..Len(s), n < Len(s), n \in Good PROVE n + 1 \in Good
  <2>1. n \in Nat /\ n + 1 \in 1..Len(s) /\ n + 1 \in 0..Len(s) /\ (n + 1) - 1 = n
    BY <1>1, <1>5
  <2>2. pre[n + 1] = pre[n] \o s[n + 1] /\ pre[n] \in Seq(T) /\ s[n + 1] \in Seq(T)
    BY <1>1, <1>2, <2>1
  <2>3. Range(pre[n]) = All(n) /\ \A p, q : Requests!Before(pre[n], p, q) <=> In(n, p, q)
    <3> HIDE DEF All, In
    <3> QED  BY <1>5
  <2>4. \A i : i \in 1..n + 1 <=> i \in 1..n \/ i = n + 1
    BY <2>1
  <2>5. Range(pre[n + 1]) = All(n + 1)
    <3>1. Range(pre[n + 1]) = Range(pre[n]) \cup Range(s[n + 1])
      BY <1>0, <2>2, Zenon
    <3>2. All(n + 1) = All(n) \cup Range(s[n + 1])
      BY <2>4, Zenon
    <3> QED  BY <2>3, <3>1, <3>2, Zenon
  <2>6. ASSUME NEW p, NEW q PROVE Requests!Before(pre[n + 1], p, q) <=> In(n + 1, p, q)
    <3>1. Requests!Before(pre[n + 1], p, q) <=>
            \/ In(n, p, q) \/ Requests!Before(s[n + 1], p, q)
            \/ p \in All(n) /\ q \in Range(s[n + 1])
      <4>1. Requests!Before(pre[n] \o s[n + 1], p, q) <=>
              \/ Requests!Before(pre[n], p, q) \/ Requests!Before(s[n + 1], p, q)
              \/ p \in Range(pre[n]) /\ q \in Range(s[n + 1])
        BY <1>0, <2>2, Zenon
      <4> HIDE DEF All, In
      <4> QED  BY ONLY <2>2, <2>3, <4>1, Zenon
    <3>2. \A i \in 1..n : i < n + 1
      BY <2>1
    <3>3. ASSUME p \in All(n), q \in Range(s[n + 1]) PROVE In(n + 1, p, q)
      <4>1. PICK i \in 1..n : p \in Range(s[i])
        BY <3>3
      <4> QED  BY <2>4, <3>2, <3>3, <4>1, Zenon
    <3>4. ASSUME In(n + 1, p, q)
          PROVE  \/ In(n, p, q) \/ Requests!Before(s[n + 1], p, q)
                 \/ p \in All(n) /\ q \in Range(s[n + 1])
      <4>1. CASE \E i \in 1..n + 1 : Requests!Before(s[i], p, q)
        BY <2>4, <4>1, Zenon
      <4>2. ASSUME NEW i \in 1..n + 1, NEW j \in 1..n + 1, i < j,
                   p \in Range(s[i]), q \in Range(s[j])
            PROVE  In(n, p, q) \/ (p \in All(n) /\ q \in Range(s[n + 1]))
        <5>1. i \in 1..n /\ (j \in 1..n \/ j = n + 1)
          BY <2>1, <4>2
        <5> QED  BY <4>2, <5>1, Zenon
      <4> QED  BY <3>4, <4>1, <4>2, Zenon
    <3>5. In(n, p, q) \/ Requests!Before(s[n + 1], p, q) => In(n + 1, p, q)
      BY <2>4, Zenon
    <3> HIDE DEF In, All
    <3> QED  BY <3>1, <3>3, <3>4, <3>5, Zenon
  <2> QED  BY <2>1, <2>5, <2>6, Zenon
<1>6. Len(s) \in Good
  <2> HIDE DEF Good
  <2> QED  BY <1>1, <1>4, <1>5, Climb, Zenon
<1> QED  BY <1>3, <1>6, Zenon

AddUp(a, b, c) ==
  /\ Len(a) = Len(c) /\ Len(b) = Len(c)
  /\ \A i \in 1..Len(c) : Len(a[i]) + Len(b[i]) = Len(c[i])

LEMMA FlattenSizes ==
  ASSUME NEW T
  PROVE  \A a, b, c \in Seq(Seq(T)) :
           AddUp(a, b, c) => Len(FlattenSeq(a)) + Len(FlattenSeq(b)) = Len(FlattenSeq(c))
<1> SUFFICES ASSUME NEW a \in Seq(Seq(T)), NEW b \in Seq(Seq(T)), NEW c \in Seq(Seq(T)),
                    AddUp(a, b, c)
             PROVE  Len(FlattenSeq(a)) + Len(FlattenSeq(b)) = Len(FlattenSeq(c))
  OBVIOUS
<1>0. /\ Len(a) = Len(c) /\ Len(b) = Len(c)
      /\ \A i \in 1..Len(c) : Len(a[i]) + Len(b[i]) = Len(c[i])
  BY DEF AddUp
<1>1. Len(c) \in Nat
  BY LenProperties
<1>2. PICK pa \in [0..Len(a) -> Seq(T)] :
        pa[0] = <<>> /\ \A i \in 1..Len(a) : pa[i] = pa[i - 1] \o a[i]
  BY PrefixesOf
<1>3. PICK pb \in [0..Len(b) -> Seq(T)] :
        pb[0] = <<>> /\ \A i \in 1..Len(b) : pb[i] = pb[i - 1] \o b[i]
  BY PrefixesOf
<1>4. PICK pc \in [0..Len(c) -> Seq(T)] :
        pc[0] = <<>> /\ \A i \in 1..Len(c) : pc[i] = pc[i - 1] \o c[i]
  BY PrefixesOf
<1>5. /\ FlattenSeq(a) = pa[Len(c)] /\ FlattenSeq(b) = pb[Len(c)] /\ FlattenSeq(c) = pc[Len(c)]
  BY <1>0, <1>2, <1>3, <1>4, FlattenedBy
<1> DEFINE Good == {n \in 0..Len(c) : Len(pa[n]) + Len(pb[n]) = Len(pc[n])}
<1>6. 0 \in Good
  <2>1. Len(<<>>) + Len(<<>>) = Len(<<>>) /\ 0 \in 0..Len(c)
    BY <1>1
  <2> QED  BY <1>2, <1>3, <1>4, <2>1
<1>7. ASSUME NEW n \in 0..Len(c), n < Len(c), n \in Good PROVE n + 1 \in Good
  <2>1. n + 1 \in 1..Len(c) /\ n + 1 \in 0..Len(c) /\ (n + 1) - 1 = n
    BY <1>1, <1>7
  <2>2. /\ pa[n + 1] = pa[n] \o a[n + 1] /\ pa[n] \in Seq(T) /\ a[n + 1] \in Seq(T)
        /\ pb[n + 1] = pb[n] \o b[n + 1] /\ pb[n] \in Seq(T) /\ b[n + 1] \in Seq(T)
        /\ pc[n + 1] = pc[n] \o c[n + 1] /\ pc[n] \in Seq(T) /\ c[n + 1] \in Seq(T)
    BY <1>0, <1>2, <1>3, <1>4, <2>1, ElementOfSeq
  <2>3. \A u, v \in Seq(T) : Len(u \o v) = Len(u) + Len(v) /\ Len(u) \in Nat
    BY ConcatProperties, LenProperties
  <2>4. /\ Len(pa[n + 1]) = Len(pa[n]) + Len(a[n + 1])
        /\ Len(pa[n]) \in Nat /\ Len(a[n + 1]) \in Nat
        /\ Len(pb[n + 1]) = Len(pb[n]) + Len(b[n + 1])
        /\ Len(pb[n]) \in Nat /\ Len(b[n + 1]) \in Nat
        /\ Len(pc[n + 1]) = Len(pc[n]) + Len(c[n + 1])
        /\ Len(pc[n]) \in Nat /\ Len(c[n + 1]) \in Nat
    BY <2>2, <2>3, Zenon
  <2>5. /\ Len(pa[n]) + Len(pb[n]) = Len(pc[n])
        /\ Len(a[n + 1]) + Len(b[n + 1]) = Len(c[n + 1])
    BY <1>0, <1>7, <2>1
  <2>6. Len(pa[n + 1]) + Len(pb[n + 1]) = Len(pc[n + 1])
    <3> DEFINE x1 == Len(pa[n])
               x2 == Len(a[n + 1])
               y1 == Len(pb[n])
               y2 == Len(b[n + 1])
               z1 == Len(pc[n])
               z2 == Len(c[n + 1])
    <3>1. /\ x1 \in Nat /\ x2 \in Nat /\ y1 \in Nat /\ y2 \in Nat /\ z1 \in Nat /\ z2 \in Nat
          /\ x1 + y1 = z1 /\ x2 + y2 = z2
      BY <2>4, <2>5, Zenon
    <3>2. (x1 + x2) + (y1 + y2) = z1 + z2
      <4> HIDE DEF x1, x2, y1, y2, z1, z2
      <4> QED  BY ONLY <3>1
    <3> QED  BY <2>4, <3>2, Zenon
  <2> QED  BY <2>1, <2>6
<1>8. Len(c) \in Good
  <2> HIDE DEF Good
  <2> QED  BY <1>1, <1>6, <1>7, Climb, Zenon
<1> QED  BY <1>5, <1>8

-----------------------------------------------------------------------------
(***************************************************************************)
(* Wire requests.  The parts of some kinds, chosen from a list.            *)
(***************************************************************************)
Part == Requests!Part
Roles == {"system", "user", "assistant", "tool"}
Message == [role : Roles, content : Seq(Part), tool_calls : Seq(Part)]
Chosen(kinds) == [p \in Part |-> IF p.kind \in kinds THEN <<p>> ELSE <<>>]
Says == [m \in Message |-> m.content \o m.tool_calls]

LEMMA OneLibrary ==
  /\ \A s : Requests!FlattenSeq(s) = FlattenSeq(s)
  /\ \A s : Requests!ToSet(s) = Range(s)
  BY DEF Requests!FlattenSeq, FlattenSeq, Requests!ToSet, Range

LEMMA ChosenLists == \A kinds : Lists(Chosen(kinds), Part, Part)
<1> SUFFICES ASSUME NEW kinds, NEW p \in Part PROVE Chosen(kinds)[p] \in Seq(Part)
  BY DEF Lists
<1>1. <<p>> \in Seq(Part) /\ <<>> \in Seq(Part)
  BY EmptySeq
<1> QED  BY <1>1 DEF Chosen

LEMMA SaysLists == Lists(Says, Message, Part)
<1> SUFFICES ASSUME NEW m \in Message PROVE Says[m] \in Seq(Part)
  BY DEF Lists
<1>1. m.content \in Seq(Part) /\ m.tool_calls \in Seq(Part)
  BY DEF Message
<1> QED  BY <1>1, ConcatProperties DEF Says

LEMMA OfCollects ==
  ASSUME NEW parts \in Seq(Part), NEW kinds
  PROVE  /\ Requests!Of(parts, kinds) = Collected(Chosen(kinds), parts)
         /\ Requests!Of(parts, kinds) \in Seq(Part)
<1>1. \A i \in DOMAIN parts : parts[i] \in Part
  BY LenProperties, ElementOfSeq
<1>2. Mapped(Chosen(kinds), parts)
        = [i \in DOMAIN parts |-> IF parts[i].kind \in kinds THEN <<parts[i]>> ELSE <<>>]
  BY <1>1 DEF Mapped, Chosen
<1>3. Requests!Of(parts, kinds) = Collected(Chosen(kinds), parts)
  BY <1>2, OneLibrary, Zenon DEF Requests!Of, Collected
<1>4. \A s \in Seq(Part) : Collected(Chosen(kinds), s) \in Seq(Part)
  BY ChosenLists, CollectedType
<1> QED  BY <1>3, <1>4, Zenon

LEMMA SentCollects ==
  ASSUME NEW messages \in Seq(Message)
  PROVE  /\ Requests!Sent(messages) = Collected(Says, messages)
         /\ Requests!Sent(messages) \in Seq(Part)
<1>1. \A i \in DOMAIN messages : messages[i] \in Message
  BY LenProperties, ElementOfSeq
<1>2. Mapped(Says, messages)
        = [i \in DOMAIN messages |-> messages[i].content \o messages[i].tool_calls]
  BY <1>1 DEF Mapped, Says
<1>3. Requests!Sent(messages) = Collected(Says, messages)
  BY <1>2, OneLibrary, Zenon DEF Requests!Sent, Collected
<1>4. \A s \in Seq(Message) : Collected(Says, s) \in Seq(Part)
  BY SaysLists, CollectedType
<1> QED  BY <1>3, <1>4, Zenon

LEMMA MappedParts ==
  ASSUME NEW parts \in Seq(Part), NEW kinds
  PROVE  /\ Mapped(Chosen(kinds), parts) \in Seq(Seq(Part))
         /\ Len(Mapped(Chosen(kinds), parts)) = Len(parts)
         /\ \A i \in 1..Len(parts) :
              /\ parts[i] \in Part
              /\ Mapped(Chosen(kinds), parts)[i]
                   = IF parts[i].kind \in kinds THEN <<parts[i]>> ELSE <<>>
<1>0. Lists(Chosen(kinds), Part, Part)
  BY ChosenLists, Zenon
<1>1. /\ Mapped(Chosen(kinds), parts) \in Seq(Seq(Part))
      /\ Len(Mapped(Chosen(kinds), parts)) = Len(parts)
  BY ONLY <1>0, parts \in Seq(Part), CollectedParts
<1>2. \A i \in 1..Len(parts) : i \in DOMAIN parts /\ parts[i] \in Part
  BY LenProperties, ElementOfSeq
<1>3. \A i \in 1..Len(parts) : Mapped(Chosen(kinds), parts)[i]
                                = IF parts[i].kind \in kinds THEN <<parts[i]>> ELSE <<>>
  BY <1>2 DEF Mapped, Chosen
<1> QED  BY <1>1, <1>2, <1>3

LEMMA OfHolds ==
  ASSUME NEW parts \in Seq(Part), NEW kinds
  PROVE  /\ Range(Requests!Of(parts, kinds)) = {p \in Range(parts) : p.kind \in kinds}
         /\ \A p, q : Requests!Before(parts, p, q) /\ p.kind \in kinds /\ q.kind \in kinds
                        => Requests!Before(Requests!Of(parts, kinds), p, q)
<1> DEFINE s == Mapped(Chosen(kinds), parts)
<1>1. /\ s \in Seq(Seq(Part)) /\ Len(s) = Len(parts)
      /\ \A i \in 1..Len(parts) :
           /\ parts[i] \in Part
           /\ s[i] = IF parts[i].kind \in kinds THEN <<parts[i]>> ELSE <<>>
  BY MappedParts, Zenon
<1>2. Requests!Of(parts, kinds) = FlattenSeq(s)
  BY OfCollects, Zenon DEF Collected
<1> HIDE DEF s
<1>3. /\ Range(FlattenSeq(s)) = UNION {Range(s[i]) : i \in 1..Len(s)}
      /\ \A p, q : Requests!Before(FlattenSeq(s), p, q) <=>
           \/ \E i \in 1..Len(s) : Requests!Before(s[i], p, q)
           \/ \E i, j \in 1..Len(s) : i < j /\ p \in Range(s[i]) /\ q \in Range(s[j])
  BY <1>1, FlattenHolds, Zenon
<1>4. DOMAIN parts = 1..Len(parts)
  BY LenProperties
<1>5. /\ \A x : Range(<<x>>) = {x}
      /\ Range(<<>>) = {}
  BY DEF Range
<1>6. \A i \in 1..Len(parts) : Range(s[i]) = IF parts[i].kind \in kinds THEN {parts[i]} ELSE {}
  BY <1>1, <1>5
<1>7. Range(parts) = {parts[i] : i \in 1..Len(parts)}
  BY <1>4 DEF Range
<1>8. Range(FlattenSeq(s)) = {p \in Range(parts) : p.kind \in kinds}
  <2>1. ASSUME NEW x \in Range(FlattenSeq(s)) PROVE x \in Range(parts) /\ x.kind \in kinds
    <3>1. PICK i \in 1..Len(parts) : x \in Range(s[i])
      BY <1>1, <1>3, <2>1, Zenon
    <3>2. x = parts[i] /\ parts[i].kind \in kinds
      BY <1>6, <3>1
    <3> QED  BY <1>7, <3>2
  <2>2. ASSUME NEW x \in Range(parts), x.kind \in kinds PROVE x \in Range(FlattenSeq(s))
    <3>1. PICK i \in 1..Len(parts) : x = parts[i]
      BY <1>7, <2>2, Zenon
    <3>2. x \in Range(s[i])
      BY <1>6, <2>2, <3>1
    <3> QED  BY <1>1, <1>3, <3>2, Zenon
  <2> QED  BY <2>1, <2>2, Zenon
<1>9. ASSUME NEW p, NEW q, Requests!Before(parts, p, q), p.kind \in kinds, q.kind \in kinds
      PROVE  Requests!Before(FlattenSeq(s), p, q)
  <2>1. PICK i \in 1..Len(parts), j \in 1..Len(parts) : i < j /\ parts[i] = p /\ parts[j] = q
    BY <1>4, <1>9 DEF Requests!Before
  <2>2. p \in Range(s[i]) /\ q \in Range(s[j])
    BY <1>6, <1>9, <2>1
  <2> QED  BY <1>1, <1>3, <2>1, <2>2, Zenon
<1> QED  BY <1>2, <1>8, <1>9, Zenon

LEMMA OfHalves ==
  ASSUME NEW parts \in Seq(Part), NEW K, NEW L, K \cap L = {},
         Requests!KindsIn(parts) \subseteq K \cup L
  PROVE  LET sent_ == Requests!Of(parts, K) \o Requests!Of(parts, L)
         IN  /\ sent_ \in Seq(Part) /\ Len(sent_) = Len(parts) /\ Range(sent_) = Range(parts)
             /\ \A p, q : Requests!Before(parts, p, q) /\ p.kind = q.kind
                            => Requests!Before(sent_, p, q)
<1> DEFINE a == Requests!Of(parts, K)
           b == Requests!Of(parts, L)
           one == [p \in Part |-> <<p>>]
<1>1. a \in Seq(Part) /\ b \in Seq(Part)
  BY OfCollects
<1>2. /\ Range(a) = {p \in Range(parts) : p.kind \in K}
      /\ Range(b) = {p \in Range(parts) : p.kind \in L}
      /\ \A p, q : /\ Requests!Before(parts, p, q) /\ p.kind \in K /\ q.kind \in K
                        => Requests!Before(a, p, q)
                   /\ Requests!Before(parts, p, q) /\ p.kind \in L /\ q.kind \in L
                        => Requests!Before(b, p, q)
  BY OfHolds, Zenon
<1>3. DOMAIN parts = 1..Len(parts) /\ \A i \in 1..Len(parts) : parts[i] \in Part
  BY LenProperties, ElementOfSeq
<1>4. \A i \in 1..Len(parts) : parts[i].kind \in K \cup L
  BY <1>3 DEF Requests!KindsIn
<1>5. Len(a) + Len(b) = Len(parts)
  <2> DEFINE s == Mapped(Chosen(K), parts)
             t == Mapped(Chosen(L), parts)
             u == Mapped(one, parts)
  <2>1. Lists(one, Part, Part)
    BY DEF Lists
  <2>2. u \in Seq(Seq(Part)) /\ Len(u) = Len(parts) /\ \A i \in 1..Len(parts) : u[i] = <<parts[i]>>
    <3>1. u \in Seq(Seq(Part)) /\ Len(u) = Len(parts)
      <4> HIDE DEF one
      <4> QED  BY ONLY <2>1, parts \in Seq(Part), CollectedParts
    <3> QED  BY <1>3, <3>1 DEF Mapped
  <2>3. FlattenSeq(u) = parts
    <3>1. \A i \in 1..Len(parts) : one[parts[i]] = <<parts[i]>>
      BY <1>3
    <3> HIDE DEF one
    <3> QED  BY <2>1, <3>1, CollectedSame, Zenon DEF Collected
  <2>4. /\ s \in Seq(Seq(Part)) /\ Len(s) = Len(parts)
        /\ t \in Seq(Seq(Part)) /\ Len(t) = Len(parts)
        /\ \A i \in 1..Len(parts) :
             /\ s[i] = IF parts[i].kind \in K THEN <<parts[i]>> ELSE <<>>
             /\ t[i] = IF parts[i].kind \in L THEN <<parts[i]>> ELSE <<>>
    BY MappedParts, Zenon
  <2>5. a = FlattenSeq(s) /\ b = FlattenSeq(t)
    BY OfCollects, Zenon DEF Collected
  <2> HIDE DEF s, t, u
  <2>6. \A i \in 1..Len(parts) : Len(s[i]) + Len(t[i]) = Len(u[i])
    <3>1. \A x : Len(<<x>>) = 1
      OBVIOUS
    <3>2. Len(<<>>) = 0
      OBVIOUS
    <3> SUFFICES ASSUME NEW i \in 1..Len(parts) PROVE Len(s[i]) + Len(t[i]) = Len(u[i])
      OBVIOUS
    <3>3. \/ parts[i].kind \in K /\ parts[i].kind \notin L
          \/ parts[i].kind \notin K /\ parts[i].kind \in L
      BY <1>4
    <3>4. Len(u[i]) = 1
      BY <2>2, <3>1, Zenon
    <3>5. \/ Len(s[i]) = 1 /\ Len(t[i]) = 0
          \/ Len(s[i]) = 0 /\ Len(t[i]) = 1
      BY <2>4, <3>1, <3>2, <3>3, Zenon
    <3>6. 1 + 0 = 1 /\ 0 + 1 = 1
      OBVIOUS
    <3> QED  BY <3>4, <3>5, <3>6, Zenon
  <2>7. Len(FlattenSeq(s)) + Len(FlattenSeq(t)) = Len(FlattenSeq(u))
    <3>1. /\ s \in Seq(Seq(Part)) /\ t \in Seq(Seq(Part)) /\ u \in Seq(Seq(Part))
          /\ AddUp(s, t, u)
      BY <2>2, <2>4, <2>6, Zenon DEF AddUp
    <3> QED  BY <3>1, FlattenSizes, Zenon
  <2> QED  BY <2>3, <2>5, <2>7, Zenon
<1> HIDE DEF a, b
<1>6. a \o b \in Seq(Part) /\ Len(a \o b) = Len(parts)
  BY <1>1, <1>5, ConcatProperties
<1>7. Range(a \o b) = Range(parts)
  <2>1. Range(a \o b) = Range(a) \cup Range(b)
    BY <1>1, RangeConcatenation
  <2>2. \A p \in Range(parts) : p.kind \in K \cup L
    BY <1>3, <1>4 DEF Range
  <2> QED  BY <1>2, <2>1, <2>2
<1>8. ASSUME NEW p, NEW q, Requests!Before(parts, p, q), p.kind = q.kind
      PROVE  Requests!Before(a \o b, p, q)
  <2>1. Requests!Before(a, p, q) \/ Requests!Before(b, p, q)
    <3>1. p.kind \in K \cup L
      BY <1>3, <1>4, <1>8 DEF Requests!Before
    <3> QED  BY <1>2, <1>8, <3>1
  <2> QED  BY <1>1, <2>1, BeforeConcat
<1> QED  BY <1>6, <1>7, <1>8 DEF a, b

LEMMA SaysOne ==
  \A m \in Message : Collected(Says, <<m>>) = m.content \o m.tool_calls
<1> SUFFICES ASSUME NEW m \in Message PROVE Collected(Says, <<m>>) = m.content \o m.tool_calls
  OBVIOUS
<1>1. \A s \in Seq(Message), x \in Message :
        Collected(Says, Append(s, x)) = Collected(Says, s) \o Says[x]
  BY SaysLists, CollectedAppend
<1>2. <<>> \in Seq(Message) /\ Append(<<>>, m) = <<m>>
  BY EmptySeq
<1>3. Says[m] \in Seq(Part) /\ Says[m] = m.content \o m.tool_calls
  BY SaysLists DEF Lists, Says
<1>4. \A s \in Seq(Part) : <<>> \o s = s
  BY ConcatEmptySeq
<1> QED  BY <1>1, <1>2, <1>3, <1>4, CollectedEmpty, Zenon

LEMMA ToolTurnSays ==
  ASSUME NEW parts \in Seq(Part), "result" \in Requests!KindsIn(parts)
  PROVE  /\ Requests!ToolMessages(parts) \in Seq(Message)
         /\ Collected(Says, Requests!ToolMessages(parts))
              = Requests!Of(parts, Requests!Text) \o Requests!Of(parts, {"result"})
<1> DEFINE texts == Requests!Of(parts, Requests!Text)
           results == Requests!Of(parts, {"result"})
           messages == Requests!ToolMessages(parts)
           n == Len(results)
           s == Mapped(Says, messages)
           pre == [k \in 0..n |-> IF k = 0 THEN <<>> ELSE texts \o SubSeq(results, 1, k)]
<1>1. texts \in Seq(Part) /\ results \in Seq(Part)
  BY OfCollects
<1>2. n \in Nat /\ n > 0 /\ \A k \in 1..n : results[k] \in Part
  <2>1. Range(results) = {p \in Range(parts) : p.kind \in {"result"}}
    BY OfHolds
  <2>2. PICK i \in DOMAIN parts : parts[i].kind = "result"
    BY DEF Requests!KindsIn
  <2>3. parts[i] \in Range(results)
    BY <2>1, <2>2 DEF Range
  <2> HIDE DEF results
  <2>4. results # <<>>
    BY <2>3 DEF Range
  <2> QED  BY <1>1, <2>4, ElementOfSeq, LenProperties, EmptySeq
<1>3. ASSUME NEW k \in 1..n
      PROVE  /\ messages[k] \in Message
             /\ messages[k].content = (IF k = 1 THEN texts ELSE <<>>) \o <<results[k]>>
             /\ messages[k].tool_calls = <<>>
             /\ messages[k].content \in Seq(Part)
  <2> DEFINE content == (IF k = 1 THEN texts ELSE <<>>) \o <<results[k]>>
  <2>1. messages[k] = Requests!Message("tool", content, <<>>)
    BY DEF Requests!ToolMessages
  <2>2. content \in Seq(Part) /\ <<>> \in Seq(Part)
    <3>1. <<results[k]>> \in Seq(Part) /\ <<>> \in Seq(Part)
      BY <1>2, EmptySeq
    <3>2. (IF k = 1 THEN texts ELSE <<>>) \in Seq(Part)
      BY <1>1, <3>1
    <3>3. \A u, v \in Seq(Part) : u \o v \in Seq(Part)
      BY ConcatProperties
    <3> QED  BY <3>1, <3>2, <3>3, Zenon
  <2> HIDE DEF content, messages
  <2>3. /\ messages[k] \in Message /\ messages[k].content = content
        /\ messages[k].tool_calls = <<>>
    BY <2>1, <2>2 DEF Requests!Message, Message, Roles
  <2> QED  BY <2>2, <2>3, Zenon DEF content
<1>4. messages \in Seq(Message) /\ Len(messages) = n /\ DOMAIN messages = 1..n
  <2>1. messages = [k \in 1..n |-> messages[k]] /\ DOMAIN messages = 1..n
    BY DEF Requests!ToolMessages
  <2>2. n \in Nat /\ \A k \in 1..n : messages[k] \in Message
    BY <1>2, <1>3
  <2> HIDE DEF messages, n
  <2> QED  BY <2>1, <2>2, ListOf, Zenon
<1>5. s \in Seq(Seq(Part)) /\ Len(s) = n
  <2>1. \A m \in Seq(Message) : Mapped(Says, m) \in Seq(Seq(Part)) /\ Len(Mapped(Says, m)) = Len(m)
    BY SaysLists, CollectedParts
  <2> QED  BY <1>4, <2>1, Zenon
<1>6. ASSUME NEW k \in 1..n PROVE s[k] = (IF k = 1 THEN texts ELSE <<>>) \o <<results[k]>>
  <2> HIDE DEF messages, n, texts, results
  <2>1. s[k] = messages[k].content \o messages[k].tool_calls
    BY <1>3, <1>4 DEF Mapped, Says
  <2>2. \A u \in Seq(Part) : u \o <<>> = u
    BY ConcatEmptySeq
  <2> QED  BY <1>3, <2>1, <2>2, Zenon
<1>7. ASSUME NEW k \in 1..n PROVE pre[k] = pre[k - 1] \o s[k]
  <2> HIDE DEF texts, results, s, n
  <2>0. /\ \A u \in Seq(Part) : <<>> \o u = u
        /\ \A u, v \in Seq(Part) : u \o v \in Seq(Part)
        /\ \A u, v, w \in Seq(Part) : (u \o v) \o w = u \o (v \o w)
    BY ConcatEmptySeq, ConcatProperties, ConcatAssociative
  <2>1. k \in 0..n /\ k # 0 /\ k - 1 \in 0..n /\ k \in 1..Len(results)
    BY <1>2 DEF n
  <2>2. pre[k] = texts \o SubSeq(results, 1, k)
    BY <2>1, Zenon
  <2>3. /\ results[k] \in Part /\ SubSeq(results, 1, k - 1) \in Seq(Part)
        /\ SubSeq(results, 1, k) = Append(SubSeq(results, 1, k - 1), results[k])
    BY <1>1, <2>1, PrefixAppend, Zenon
  <2>4. <<results[k]>> \in Seq(Part)
    BY <2>3
  <2>5. Append(SubSeq(results, 1, k - 1), results[k]) = SubSeq(results, 1, k - 1) \o <<results[k]>>
    BY <2>3, AppendIsConcat, Zenon
  <2>6. CASE k = 1
    <3>1. k - 1 = 0 /\ SubSeq(results, 1, 0) = <<>>
      BY <2>6, SubSeqEmpty
    <3>2. pre[0] = <<>> /\ SubSeq(results, 1, k) = <<results[k]>>
      <4>1. SubSeq(results, 1, k) = <<>> \o <<results[k]>>
        BY <2>3, <2>5, <3>1, Zenon
      <4>2. pre[0] = <<>>
        BY <2>1, <3>1, Zenon
      <4> QED  BY <2>0, <2>4, <4>1, <4>2, Zenon
    <3>3. s[k] = texts \o <<results[k]>>
      BY <1>6, <2>6, Zenon
    <3>4. <<>> \o (texts \o <<results[k]>>) = texts \o <<results[k]>>
      BY <1>1, <2>0, <2>4, Zenon
    <3> QED  BY <2>2, <3>1, <3>2, <3>3, <3>4, Zenon
  <2>7. CASE k # 1
    <3>1. k - 1 # 0
      BY <2>1, <2>7
    <3>2. pre[k - 1] = texts \o SubSeq(results, 1, k - 1)
      BY <2>1, <3>1, Zenon
    <3>3. s[k] = <<results[k]>>
      <4>1. s[k] = <<>> \o <<results[k]>>
        BY <1>6, <2>7, Zenon
      <4> QED  BY <2>0, <2>4, <4>1, Zenon
    <3>4. (texts \o SubSeq(results, 1, k - 1)) \o <<results[k]>>
            = texts \o (SubSeq(results, 1, k - 1) \o <<results[k]>>)
      BY <1>1, <2>0, <2>3, <2>4, Zenon
    <3> QED  BY <2>2, <2>3, <2>5, <3>2, <3>3, <3>4, Zenon
  <2> QED  BY <2>6, <2>7
<1>8. pre[0] = <<>> /\ pre[n] = texts \o results
  <2> HIDE DEF texts, results
  <2>1. 0 \in 0..n /\ n \in 0..n /\ n # 0
    BY <1>2
  <2>2. SubSeq(results, 1, n) = results
    BY <1>1, SubSeqFull
  <2> QED  BY <2>1, <2>2, Zenon
<1>9. FlattenSeq(s) = pre[Len(s)]
  <2>1. \A k \in 1..Len(s) : pre[k] = pre[k - 1] \o s[k]
    BY <1>5, <1>7, Zenon
  <2> HIDE DEF pre, s
  <2> QED  BY <1>5, <1>8, <2>1, FlattenedBy, Zenon
<1> QED  BY <1>4, <1>5, <1>8, <1>9, Zenon DEF Collected

(***************************************************************************)
(* One turn: what its messages say are its parts, each kind in its order.  *)
(***************************************************************************)
Rearranges(told, parts) ==
  /\ told \in Seq(Part) /\ Len(told) = Len(parts) /\ Range(told) = Range(parts)
  /\ \A p, q : Requests!Before(parts, p, q) /\ p.kind = q.kind => Requests!Before(told, p, q)

LEMMA TurnRearranges ==
  ASSUME NEW turn \in [role : Requests!Role, parts : Seq(Part)], Requests!Representable(turn)
  PROVE  /\ Requests!TurnMessages(turn) \in Seq(Message)
         /\ Rearranges(Collected(Says, Requests!TurnMessages(turn)), turn.parts)
<1>1. turn.parts \in Seq(Part) /\ turn.role \in Requests!Role /\ <<>> \in Seq(Part)
  BY EmptySeq
<1>2. \A u \in Seq(Part) : u \o <<>> = u
  BY ConcatEmptySeq
<1>3. \A role \in Roles, u, v \in Seq(Part) : Requests!Message(role, u, v) \in Message
  BY DEF Requests!Message, Message
<1>4. \A role, u, v : /\ Requests!Message(role, u, v).content = u
                      /\ Requests!Message(role, u, v).tool_calls = v
  BY DEF Requests!Message
<1>5. ASSUME NEW role \in Roles, NEW u \in Seq(Part), NEW v \in Seq(Part)
      PROVE  /\ <<Requests!Message(role, u, v)>> \in Seq(Message)
             /\ Collected(Says, <<Requests!Message(role, u, v)>>) = u \o v
  <2>1. Requests!Message(role, u, v) \in Message
    BY <1>3, Zenon
  <2>2. Collected(Says, <<Requests!Message(role, u, v)>>) = u \o v
    <3> DEFINE m == Requests!Message(role, u, v)
    <3>1. m \in Message /\ m.content = u /\ m.tool_calls = v
      BY <1>4, <2>1, Zenon
    <3> HIDE DEF m
    <3>2. Collected(Says, <<m>>) = u \o v
      BY <3>1, SaysOne, Zenon
    <3> QED  BY <3>2 DEF m
  <2> QED  BY <2>1, <2>2
<1>6. CASE turn.role \in {"System", "User"}
  <2>1. PICK role \in Roles :
          Requests!TurnMessages(turn) = <<Requests!Message(role, turn.parts, <<>>)>>
    <3>1. CASE turn.role = "System"
      BY <3>1, "system" \in Roles DEF Requests!TurnMessages, Roles
    <3>2. CASE turn.role = "User"
      BY <3>2, "user" \in Roles DEF Requests!TurnMessages, Roles
    <3> QED  BY <1>6, <3>1, <3>2
  <2>2. /\ Requests!TurnMessages(turn) \in Seq(Message)
        /\ Collected(Says, Requests!TurnMessages(turn)) = turn.parts
    BY <1>1, <1>2, <1>5, <2>1, Zenon
  <2> QED  BY <1>1, <2>2, Zenon DEF Rearranges
<1>7. CASE turn.role = "Assistant"
  <2>1. Requests!TurnMessages(turn)
          = <<Requests!Message("assistant", Requests!Of(turn.parts, Requests!Text),
                               Requests!Of(turn.parts, {"call"}))>>
    BY <1>7 DEF Requests!TurnMessages
  <2>2. /\ Requests!Of(turn.parts, Requests!Text) \in Seq(Part)
        /\ Requests!Of(turn.parts, {"call"}) \in Seq(Part)
    BY <1>1, OfCollects, Zenon
  <2>3. "assistant" \in Roles
    BY DEF Roles
  <2>4. /\ Requests!TurnMessages(turn) \in Seq(Message)
        /\ Collected(Says, Requests!TurnMessages(turn))
             = Requests!Of(turn.parts, Requests!Text) \o Requests!Of(turn.parts, {"call"})
    BY <1>5, <2>1, <2>2, <2>3, Zenon
  <2>5. Requests!KindsIn(turn.parts) \subseteq Requests!Text \cup {"call"}
    BY <1>7 DEF Requests!Representable, Requests!Carries
  <2>6. Requests!Text \cap {"call"} = {}
    BY DEF Requests!Text
  <2>7. Rearranges(Requests!Of(turn.parts, Requests!Text) \o Requests!Of(turn.parts, {"call"}),
                   turn.parts)
    BY <1>1, <2>5, <2>6, OfHalves, Zenon DEF Rearranges
  <2> QED  BY <2>4, <2>7, Zenon
<1>8. CASE turn.role = "Tool"
  <2>1. Requests!TurnMessages(turn) = Requests!ToolMessages(turn.parts)
    BY <1>8 DEF Requests!TurnMessages
  <2>2. "result" \in Requests!KindsIn(turn.parts)
    BY <1>8 DEF Requests!Representable
  <2>3. /\ Requests!TurnMessages(turn) \in Seq(Message)
        /\ Collected(Says, Requests!TurnMessages(turn))
             = Requests!Of(turn.parts, Requests!Text) \o Requests!Of(turn.parts, {"result"})
    BY <1>1, <2>1, <2>2, ToolTurnSays, Zenon
  <2>4. Requests!KindsIn(turn.parts) \subseteq Requests!Text \cup {"result"}
    BY <1>8 DEF Requests!Representable, Requests!Carries
  <2>5. Requests!Text \cap {"result"} = {}
    BY DEF Requests!Text
  <2>6. Rearranges(Requests!Of(turn.parts, Requests!Text) \o Requests!Of(turn.parts, {"result"}),
                   turn.parts)
    BY <1>1, <2>4, <2>5, OfHalves, Zenon DEF Rearranges
  <2> QED  BY <2>3, <2>6, Zenon
<1> QED  BY <1>1, <1>6, <1>7, <1>8 DEF Requests!Role

(***************************************************************************)
(* Lists of the same sizes make a concatenation of the same size.          *)
(***************************************************************************)
LEMMA FlattenSameSize ==
  ASSUME NEW T, NEW a \in Seq(Seq(T)), NEW c \in Seq(Seq(T)), Len(a) = Len(c),
         \A i \in 1..Len(c) : Len(a[i]) = Len(c[i])
  PROVE  Len(FlattenSeq(a)) = Len(FlattenSeq(c))
<1>1. Len(c) \in Nat /\ \A i \in 1..Len(c) : Len(c[i]) \in Nat
  BY ElementOfSeq, LenProperties
<1> DEFINE b == [i \in 1..Len(c) |-> <<>>]
<1>2. b \in Seq(Seq(T)) /\ Len(b) = Len(c) /\ \A i \in 1..Len(c) : b[i] = <<>>
  BY <1>1, EmptySeq, IsASeq
<1> HIDE DEF b
<1>3. \A i \in 1..Len(c) : Len(a[i]) + Len(b[i]) = Len(c[i])
  <2>1. Len(<<>>) = 0
    OBVIOUS
  <2> SUFFICES ASSUME NEW i \in 1..Len(c) PROVE Len(a[i]) + Len(b[i]) = Len(c[i])
    OBVIOUS
  <2>2. Len(a[i]) = Len(c[i]) /\ Len(c[i]) \in Nat
    BY <1>1, Zenon
  <2>3. Len(b[i]) = 0
    BY <1>2, <2>1, Zenon
  <2> QED  BY <2>2, <2>3
<1>5. AddUp(a, b, c)
  BY <1>2, <1>3 DEF AddUp
<1>4. FlattenSeq(b) = <<>>
  BY <1>2, FlattenNone
<1>6. Len(FlattenSeq(a)) + Len(FlattenSeq(b)) = Len(FlattenSeq(c))
  BY <1>2, <1>5, FlattenSizes, Zenon
<1>7. Len(FlattenSeq(a)) \in Nat /\ Len(<<>>) = 0
  BY FlattenType, LenProperties
<1> QED  BY <1>4, <1>6, <1>7

LEMMA ConversationParts ==
  ASSUME NEW conv, Requests!IsConversation(conv)
  PROVE  LET P == [i \in DOMAIN conv.turns |-> conv.turns[i].parts]
         IN  /\ conv.prompt \in Seq(Part)
             /\ \A i \in DOMAIN conv.prompt : conv.prompt[i].at = <<0, i>>
             /\ Len(conv.turns) \in Nat /\ DOMAIN conv.turns = 1..Len(conv.turns)
             /\ \A i \in 1..Len(conv.turns) :
                  /\ conv.turns[i] \in [role : Requests!Role, parts : Seq(Part)]
                  /\ conv.turns[i].parts \in Seq(Part)
                  /\ Requests!Placed(conv.turns[i].parts, i)
             /\ P \in Seq(Seq(Part)) /\ Len(P) = Len(conv.turns)
             /\ Requests!PartsOf(conv) = FlattenSeq(P)
             /\ FlattenSeq(P) \in Seq(Part)
<1> DEFINE P == [i \in DOMAIN conv.turns |-> conv.turns[i].parts]
           Turn == [role : Requests!Role, parts : Seq(Part)]
<1>1. /\ conv.prompt \in Seq(Part) /\ conv.turns \in Seq(Turn)
      /\ \A i \in DOMAIN conv.prompt : conv.prompt[i].at = <<0, i>>
      /\ \A i \in DOMAIN conv.turns : Requests!Placed(conv.turns[i].parts, i)
  BY DEF Requests!IsConversation, Requests!Placed, Part
<1>2. Len(conv.turns) \in Nat /\ DOMAIN conv.turns = 1..Len(conv.turns)
  BY <1>1, LenProperties
<1>3. \A i \in 1..Len(conv.turns) : conv.turns[i] \in Turn
  BY <1>1, ElementOfSeq
<1>4. \A i \in 1..Len(conv.turns) : conv.turns[i].parts \in Seq(Part)
  BY <1>3
<1>5. P \in Seq(Seq(Part)) /\ Len(P) = Len(conv.turns)
  BY <1>2, <1>4, IsASeq
<1>6. Requests!PartsOf(conv) = FlattenSeq(P)
  BY OneLibrary DEF Requests!PartsOf
<1> HIDE DEF P
<1>7. FlattenSeq(P) \in Seq(Part)
  BY <1>5, FlattenType
<1> QED  BY <1>1, <1>2, <1>3, <1>4, <1>5, <1>6, <1>7 DEF P

(***************************************************************************)
(* What the first adapter builds of a conversation it does not refuse has  *)
(* every part of it once and in order (build_messages).                    *)
(***************************************************************************)
LEMMA BuildMessagesCarries ==
  ASSUME NEW conv, Requests!IsConversation(conv)
  PROVE  Requests!OpenAiCarries(conv)
<1> DEFINE turns == conv.turns
           n == Len(turns)
           P == [i \in DOMAIN turns |-> turns[i].parts]
           G == [i \in DOMAIN turns |-> Requests!TurnMessages(turns[i])]
           S == [i \in DOMAIN G |-> Collected(Says, G[i])]
           opening == Requests!SystemMessage(conv)
           messages == opening \o FlattenSeq(G)
           said == conv.prompt \o FlattenSeq(P)
           told == conv.prompt \o FlattenSeq(S)
<1> SUFFICES ASSUME Requests!BuildMessages(conv) # "refused"
             PROVE  /\ Requests!SameParts(Requests!Sent(Requests!BuildMessages(conv)),
                                          conv.prompt \o Requests!PartsOf(conv))
                    /\ Requests!InOrder(Requests!Sent(Requests!BuildMessages(conv)),
                                        conv.prompt \o Requests!PartsOf(conv))
  BY DEF Requests!OpenAiCarries
<1>1. /\ conv.prompt \in Seq(Part)
      /\ n \in Nat /\ DOMAIN turns = 1..n
      /\ \A i \in 1..n : /\ turns[i] \in [role : Requests!Role, parts : Seq(Part)]
                         /\ turns[i].parts \in Seq(Part)
                         /\ Requests!Placed(turns[i].parts, i)
      /\ P \in Seq(Seq(Part)) /\ Len(P) = n
      /\ Requests!PartsOf(conv) = FlattenSeq(P) /\ FlattenSeq(P) \in Seq(Part)
  BY ConversationParts, Zenon
<1>2. /\ \A i \in 1..n : Requests!Representable(turns[i])
      /\ Requests!BuildMessages(conv) = messages
  BY <1>1, OneLibrary DEF Requests!BuildMessages
<1>3. ASSUME NEW i \in 1..n
      PROVE  /\ G[i] \in Seq(Message)
             /\ Rearranges(Collected(Says, G[i]), P[i])
  <2>1. G[i] = Requests!TurnMessages(turns[i]) /\ P[i] = turns[i].parts
    BY <1>1
  <2>2. /\ Requests!TurnMessages(turns[i]) \in Seq(Message)
        /\ Rearranges(Collected(Says, Requests!TurnMessages(turns[i])), turns[i].parts)
    BY <1>1, <1>2, TurnRearranges
  <2> QED  BY <2>1, <2>2, Zenon
<1>4. G \in Seq(Seq(Message)) /\ Len(G) = n /\ DOMAIN G = 1..n
  <2>1. G = [i \in 1..n |-> G[i]] /\ DOMAIN G = 1..n
    BY <1>1
  <2>2. \A i \in 1..n : G[i] \in Seq(Message)
    BY <1>3
  <2>3. G \in [1..n -> Seq(Message)] /\ n \in Nat
    BY <1>1, <2>1, <2>2
  <2> HIDE DEF G, n
  <2> QED  BY ONLY <2>1, <2>3
<1>5. /\ S \in Seq(Seq(Part)) /\ Len(S) = n
      /\ Collected(Says, FlattenSeq(G)) = FlattenSeq(S)
  <2>1. \A s \in Seq(Seq(Message)) :
          /\ [i \in DOMAIN s |-> Collected(Says, s[i])] \in Seq(Seq(Part))
          /\ Len([i \in DOMAIN s |-> Collected(Says, s[i])]) = Len(s)
          /\ Collected(Says, FlattenSeq(s)) = FlattenSeq([i \in DOMAIN s |-> Collected(Says, s[i])])
    BY SaysLists, CollectedFlatten
  <2> HIDE DEF G, n
  <2> QED  BY <1>4, <2>1, Zenon
<1>6. \A i \in 1..n : Rearranges(S[i], P[i])
  BY <1>3, <1>4, Zenon
<1>7. FlattenSeq(G) \in Seq(Message) /\ FlattenSeq(S) \in Seq(Part)
  <2> HIDE DEF G, S, n
  <2> QED  BY <1>4, <1>5, FlattenType
<1>8. opening \in Seq(Message) /\ Collected(Says, opening) = conv.prompt
  <2>1. CASE conv.prompt = <<>>
    BY <2>1, EmptySeq, CollectedEmpty DEF Requests!SystemMessage
  <2>2. CASE conv.prompt # <<>>
    <3> DEFINE m == Requests!Message("system", conv.prompt, <<>>)
    <3>1. opening = <<m>>
      BY <2>2 DEF Requests!SystemMessage
    <3>2. m \in Message /\ m.content = conv.prompt /\ m.tool_calls = <<>>
      BY <1>1, EmptySeq DEF Requests!Message, Message, Roles
    <3> HIDE DEF m
    <3>3. Collected(Says, <<m>>) = conv.prompt \o <<>>
      BY <3>2, SaysOne, Zenon
    <3>4. conv.prompt \o <<>> = conv.prompt
      BY <1>1, ConcatEmptySeq
    <3>5. <<m>> \in Seq(Message)
      BY <3>2
    <3> QED  BY <3>1, <3>3, <3>4, <3>5, Zenon
  <2> QED  BY <2>1, <2>2
<1>9. messages \in Seq(Message) /\ Requests!Sent(messages) = told
  <2> HIDE DEF opening, G, S
  <2>1. messages \in Seq(Message)
    BY <1>7, <1>8, ConcatProperties
  <2>2. \A u, v \in Seq(Message) :
          Collected(Says, u \o v) = Collected(Says, u) \o Collected(Says, v)
    BY SaysLists, CollectedConcat
  <2>3. Collected(Says, messages) = told
    BY <1>5, <1>7, <1>8, <2>2, Zenon
  <2> QED  BY <2>1, <2>3, SentCollects, Zenon
<1> HIDE DEF S, P, G, n
<1>10. \A i \in 1..n : Len(S[i]) = Len(P[i]) /\ Range(S[i]) = Range(P[i])
  BY <1>6 DEF Rearranges
<1>11. Len(told) = Len(said)
  <2>1. Len(FlattenSeq(S)) = Len(FlattenSeq(P))
    <3>1. \A x, y \in Seq(Seq(Part)) :
            Len(x) = Len(y) /\ (\A i \in 1..Len(y) : Len(x[i]) = Len(y[i]))
              => Len(FlattenSeq(x)) = Len(FlattenSeq(y))
      BY FlattenSameSize
    <3> QED  BY <1>1, <1>5, <1>10, <3>1, Zenon
  <2>2. \A u, v \in Seq(Part) : Len(u \o v) = Len(u) + Len(v)
    BY ConcatProperties
  <2>3. Len(told) = Len(conv.prompt) + Len(FlattenSeq(S))
    BY <1>1, <1>7, <2>2, Zenon
  <2>4. Len(said) = Len(conv.prompt) + Len(FlattenSeq(P))
    BY <1>1, <1>7, <2>2, Zenon
  <2> HIDE DEF told, said
  <2> QED  BY <2>1, <2>3, <2>4
<1>12. /\ Range(FlattenSeq(S)) = UNION {Range(S[i]) : i \in 1..n}
       /\ Range(FlattenSeq(P)) = UNION {Range(P[i]) : i \in 1..n}
       /\ \A p, q : Requests!Before(FlattenSeq(S), p, q) <=>
            \/ \E i \in 1..n : Requests!Before(S[i], p, q)
            \/ \E i, j \in 1..n : i < j /\ p \in Range(S[i]) /\ q \in Range(S[j])
       /\ \A p, q : Requests!Before(FlattenSeq(P), p, q) <=>
            \/ \E i \in 1..n : Requests!Before(P[i], p, q)
            \/ \E i, j \in 1..n : i < j /\ p \in Range(P[i]) /\ q \in Range(P[j])
  BY <1>1, <1>5, FlattenHolds, Zenon
<1>13. Range(FlattenSeq(S)) = Range(FlattenSeq(P))
  <2>1. {Range(S[i]) : i \in 1..n} = {Range(P[i]) : i \in 1..n}
    BY <1>10
  <2> QED  BY <1>12, <2>1, Zenon
<1>14. /\ Range(told) = Range(conv.prompt) \cup Range(FlattenSeq(S))
       /\ Range(said) = Range(conv.prompt) \cup Range(FlattenSeq(P))
  BY <1>1, <1>7, RangeConcatenation
<1>15. \A p, q : /\ Requests!Before(told, p, q) <=>
                      \/ Requests!Before(conv.prompt, p, q) \/ Requests!Before(FlattenSeq(S), p, q)
                      \/ p \in Range(conv.prompt) /\ q \in Range(FlattenSeq(S))
                 /\ Requests!Before(said, p, q) <=>
                      \/ Requests!Before(conv.prompt, p, q) \/ Requests!Before(FlattenSeq(P), p, q)
                      \/ p \in Range(conv.prompt) /\ q \in Range(FlattenSeq(P))
  BY <1>1, <1>7, BeforeConcat, Zenon
<1>16. ASSUME NEW p, NEW q, Requests!Before(said, p, q), p.kind = q.kind \/ p.at[1] # q.at[1]
       PROVE  Requests!Before(told, p, q)
  <2>1. CASE \/ Requests!Before(conv.prompt, p, q)
             \/ p \in Range(conv.prompt) /\ q \in Range(FlattenSeq(P))
    BY <1>13, <1>15, <2>1, Zenon
  <2>2. CASE Requests!Before(FlattenSeq(P), p, q)
    <3>1. CASE \E i \in 1..n : Requests!Before(P[i], p, q)
      <4>1. PICK i \in 1..n : Requests!Before(P[i], p, q)
        BY <3>1
      <4>2. p.at[1] = i /\ q.at[1] = i
        <5>1. P[i] = turns[i].parts
          BY <1>1 DEF P
        <5> QED  BY <1>1, <4>1, <5>1 DEF Requests!Before, Requests!Placed
      <4>3. Requests!Before(S[i], p, q)
        BY <1>6, <1>16, <4>1, <4>2 DEF Rearranges
      <4> QED  BY <1>12, <1>15, <4>3, Zenon
    <3>2. CASE \E i, j \in 1..n : i < j /\ p \in Range(P[i]) /\ q \in Range(P[j])
      BY <1>10, <1>12, <1>15, <3>2, Zenon
    <3> QED  BY <1>12, <2>2, <3>1, <3>2, Zenon
  <2> QED  BY <1>15, <1>16, <2>1, <2>2, Zenon
<1>17. /\ Requests!Sent(Requests!BuildMessages(conv)) = told
       /\ conv.prompt \o Requests!PartsOf(conv) = said
  BY <1>1, <1>2, <1>9, Zenon
<1> HIDE DEF told, said
<1>18. Range(told) = Range(said)
  BY <1>13, <1>14, Zenon
<1>19. Requests!SameParts(told, said) /\ Requests!InOrder(told, said)
  BY <1>11, <1>16, <1>18, OneLibrary, Zenon DEF Requests!SameParts, Requests!InOrder
<1> QED  BY <1>17, <1>19, Zenon

-----------------------------------------------------------------------------
(***************************************************************************)
(* The other adapter.  What is kept of one turn's parts, and of all.       *)
(***************************************************************************)
KeptOf(ts, kinds) ==
  [p \in Part |-> IF p.at[1] \in ts /\ p.kind \in kinds THEN <<p>> ELSE <<>>]

LEMMA KeptLists == \A ts, kinds : Lists(KeptOf(ts, kinds), Part, Part)
<1> SUFFICES ASSUME NEW ts, NEW kinds, NEW p \in Part PROVE KeptOf(ts, kinds)[p] \in Seq(Part)
  BY DEF Lists
<1>1. <<p>> \in Seq(Part) /\ <<>> \in Seq(Part)
  BY EmptySeq
<1> QED  BY <1>1 DEF KeptOf

LEMMA KeptCollects ==
  \A parts \in Seq(Part) : \A ts, kinds :
    Requests!Kept(parts, ts, kinds) = Collected(KeptOf(ts, kinds), parts)
<1> SUFFICES ASSUME NEW parts \in Seq(Part), NEW ts, NEW kinds
             PROVE  Requests!Kept(parts, ts, kinds) = Collected(KeptOf(ts, kinds), parts)
  OBVIOUS
<1>1. \A i \in DOMAIN parts : parts[i] \in Part
  BY LenProperties, ElementOfSeq
<1>2. Mapped(KeptOf(ts, kinds), parts)
        = [i \in DOMAIN parts |-> IF parts[i].at[1] \in ts /\ parts[i].kind \in kinds
                                  THEN <<parts[i]>> ELSE <<>>]
  BY <1>1 DEF Mapped, KeptOf
<1> QED  BY <1>2, OneLibrary, Zenon DEF Requests!Kept, Collected

LEMMA KeptTurn ==
  \A parts \in Seq(Part) : \A t, ts, kinds : Requests!Placed(parts, t) =>
    Collected(KeptOf(ts, kinds), parts) = IF t \in ts THEN Requests!Of(parts, kinds) ELSE <<>>
<1> SUFFICES ASSUME NEW parts \in Seq(Part), NEW t, Requests!Placed(parts, t), NEW ts, NEW kinds
             PROVE  Collected(KeptOf(ts, kinds), parts)
                      = IF t \in ts THEN Requests!Of(parts, kinds) ELSE <<>>
  OBVIOUS
<1>1. \A i \in DOMAIN parts : parts[i] \in Part /\ parts[i].at[1] = t
  BY LenProperties, ElementOfSeq DEF Requests!Placed
<1>2. CASE t \in ts
  <2>1. Mapped(KeptOf(ts, kinds), parts) = Mapped(Chosen(kinds), parts)
    BY <1>1, <1>2 DEF Mapped, KeptOf, Chosen
  <2> QED  BY <1>2, <2>1, OfCollects, Zenon DEF Collected
<1>3. CASE t \notin ts
  <2> DEFINE s == Mapped(KeptOf(ts, kinds), parts)
  <2>1. s \in Seq(Seq(Part)) /\ Len(s) = Len(parts) /\ DOMAIN parts = 1..Len(parts)
    <3>1. \A u \in Seq(Part) : /\ Mapped(KeptOf(ts, kinds), u) \in Seq(Seq(Part))
                               /\ Len(Mapped(KeptOf(ts, kinds), u)) = Len(u)
      BY KeptLists, CollectedParts
    <3> QED  BY <3>1, LenProperties
  <2>2. \A i \in 1..Len(s) : s[i] = <<>>
    BY <1>1, <1>3, <2>1 DEF Mapped, KeptOf
  <2>3. FlattenSeq(s) = <<>>
    <3> HIDE DEF s
    <3> QED  BY <2>1, <2>2, FlattenNone
  <2> QED  BY <1>3, <2>3, Zenon DEF Collected
<1> QED  BY <1>2, <1>3

LEMMA OfAll ==
  ASSUME NEW parts \in Seq(Part)
  PROVE  Requests!Of(parts, Requests!PartKind) = parts
<1>1. \A i \in 1..Len(parts) : parts[i] \in Part
  BY ElementOfSeq
<1>2. \A i \in 1..Len(parts) : Chosen(Requests!PartKind)[parts[i]] = <<parts[i]>>
  BY <1>1 DEF Chosen, Part, Requests!Part
<1>3. \A s \in Seq(Part) : (\A i \in 1..Len(s) : Chosen(Requests!PartKind)[s[i]] = <<s[i]>>)
                             => Collected(Chosen(Requests!PartKind), s) = s
  BY ChosenLists, CollectedSame
<1> QED  BY <1>2, <1>3, OfCollects, Zenon

(***************************************************************************)
(* What is kept of all the turns' parts is what is kept of each.           *)
(***************************************************************************)
KeptOfTurns(turns, ts, kinds) ==
  [i \in DOMAIN turns |-> IF i \in ts THEN Requests!Of(turns[i].parts, kinds) ELSE <<>>]

LEMMA KeptTurns ==
  ASSUME NEW conv, Requests!IsConversation(conv), NEW ts, NEW kinds
  PROVE  /\ KeptOfTurns(conv.turns, ts, kinds) \in Seq(Seq(Part))
         /\ Collected(KeptOf(ts, kinds), Requests!PartsOf(conv))
              = FlattenSeq(KeptOfTurns(conv.turns, ts, kinds))
<1> DEFINE turns == conv.turns
           n == Len(turns)
           P == [i \in DOMAIN turns |-> turns[i].parts]
           Q == [i \in DOMAIN P |-> Collected(KeptOf(ts, kinds), P[i])]
           K == KeptOfTurns(turns, ts, kinds)
<1>1. /\ n \in Nat /\ DOMAIN turns = 1..n
      /\ \A i \in 1..n : /\ turns[i].parts \in Seq(Part)
                         /\ Requests!Placed(turns[i].parts, i)
      /\ P \in Seq(Seq(Part)) /\ Len(P) = n
      /\ Requests!PartsOf(conv) = FlattenSeq(P)
  BY ConversationParts, Zenon
<1>2. Q \in Seq(Seq(Part)) /\ Len(Q) = n
      /\ Collected(KeptOf(ts, kinds), FlattenSeq(P)) = FlattenSeq(Q)
  <2>1. \A s \in Seq(Seq(Part)) :
          /\ [i \in DOMAIN s |-> Collected(KeptOf(ts, kinds), s[i])] \in Seq(Seq(Part))
          /\ Len([i \in DOMAIN s |-> Collected(KeptOf(ts, kinds), s[i])]) = Len(s)
          /\ Collected(KeptOf(ts, kinds), FlattenSeq(s))
               = FlattenSeq([i \in DOMAIN s |-> Collected(KeptOf(ts, kinds), s[i])])
    BY KeptLists, CollectedFlatten
  <2> HIDE DEF P, n
  <2> QED  BY <1>1, <2>1, Zenon
<1>3. \A i \in 1..n : Collected(KeptOf(ts, kinds), turns[i].parts)
                        = IF i \in ts THEN Requests!Of(turns[i].parts, kinds) ELSE <<>>
  <2> SUFFICES ASSUME NEW i \in 1..n
               PROVE  Collected(KeptOf(ts, kinds), turns[i].parts)
                        = IF i \in ts THEN Requests!Of(turns[i].parts, kinds) ELSE <<>>
    OBVIOUS
  <2> DEFINE parts == turns[i].parts
  <2>1. parts \in Seq(Part) /\ Requests!Placed(parts, i)
    BY <1>1, Zenon
  <2> HIDE DEF parts
  <2>2. Collected(KeptOf(ts, kinds), parts) = IF i \in ts THEN Requests!Of(parts, kinds) ELSE <<>>
    BY <2>1, KeptTurn, Zenon
  <2> QED  BY <2>2 DEF parts
<1>4. Q = K
  <2>1. DOMAIN P = DOMAIN turns /\ \A i \in DOMAIN turns : P[i] = turns[i].parts
    OBVIOUS
  <2> HIDE DEF P, n
  <2> QED  BY <1>1, <1>3, <2>1 DEF KeptOfTurns
<1> QED  BY <1>1, <1>2, <1>4, Zenon

(***************************************************************************)
(* The body of the other adapter carries the rest in order, and the text   *)
(* of the system turns in front (build_request_body).                      *)
(***************************************************************************)
LEMMA BuildRequestBodyCarries ==
  ASSUME NEW conv, Requests!IsConversation(conv)
  PROVE  Requests!AnthropicCarries(conv)
<1> DEFINE turns == conv.turns
           n == Len(turns)
           system == {i \in DOMAIN turns : turns[i].role = "System"}
           talk == DOMAIN turns \ system
           M == [i \in DOMAIN turns |->
                   IF turns[i].role = "System" THEN <<>>
                   ELSE <<Requests!Message(
                            IF turns[i].role = "Assistant" THEN "assistant" ELSE "user",
                            turns[i].parts, <<>>)>>]
           S == [i \in DOMAIN M |-> Collected(Says, M[i])]
           K(ts, kinds) == KeptOfTurns(turns, ts, kinds)
           said == Requests!PartsOf(conv)
<1>1. /\ conv.prompt \in Seq(Part) /\ Requests!Placed(conv.prompt, 0)
      /\ n \in Nat /\ DOMAIN turns = 1..n
      /\ \A i \in 1..n : turns[i].parts \in Seq(Part)
      /\ said \in Seq(Part)
  BY ConversationParts DEF Requests!Placed
<1>2. ASSUME NEW i \in 1..n
      PROVE  /\ M[i] \in Seq(Message)
             /\ Collected(Says, M[i]) = IF i \in system THEN <<>> ELSE turns[i].parts
  <2>1. CASE turns[i].role = "System"
    BY <1>1, <2>1, EmptySeq, CollectedEmpty
  <2>2. CASE turns[i].role # "System"
    <3> DEFINE role == IF turns[i].role = "Assistant" THEN "assistant" ELSE "user"
               m == Requests!Message(role, turns[i].parts, <<>>)
    <3>1. M[i] = <<m>> /\ i \notin system
      BY <1>1, <2>2
    <3>2. role \in Roles
      BY DEF Roles
    <3> HIDE DEF role
    <3>3. m \in Message /\ m.content = turns[i].parts /\ m.tool_calls = <<>>
      BY <1>1, <3>2, EmptySeq DEF Requests!Message, Message
    <3> HIDE DEF m, M, system
    <3>4. Collected(Says, <<m>>) = turns[i].parts \o <<>> /\ <<m>> \in Seq(Message)
      <4>1. <<m>> \in Seq(Message)
        BY <3>3
      <4> QED  BY <3>3, <4>1, SaysOne, Zenon
    <3>5. turns[i].parts \o <<>> = turns[i].parts
      BY <1>1, ConcatEmptySeq
    <3> QED  BY <3>1, <3>4, <3>5, Zenon
  <2> QED  BY <2>1, <2>2
<1>3. M \in Seq(Seq(Message)) /\ Len(M) = n /\ DOMAIN M = 1..n
  <2>1. M = [i \in 1..n |-> M[i]] /\ DOMAIN M = 1..n
    BY <1>1
  <2>2. \A i \in 1..n : M[i] \in Seq(Message)
    BY <1>2
  <2>3. M \in [1..n -> Seq(Message)] /\ n \in Nat
    BY <1>1, <2>1, <2>2
  <2> HIDE DEF M, n
  <2> QED  BY ONLY <2>1, <2>3
<1>4. Requests!ExtractMessages(conv) = FlattenSeq(M)
  BY OneLibrary, Zenon DEF Requests!ExtractMessages
<1>5. S \in Seq(Seq(Part)) /\ Len(S) = n /\ Collected(Says, FlattenSeq(M)) = FlattenSeq(S)
  <2>1. \A s \in Seq(Seq(Message)) :
          /\ [i \in DOMAIN s |-> Collected(Says, s[i])] \in Seq(Seq(Part))
          /\ Len([i \in DOMAIN s |-> Collected(Says, s[i])]) = Len(s)
          /\ Collected(Says, FlattenSeq(s)) = FlattenSeq([i \in DOMAIN s |-> Collected(Says, s[i])])
    BY SaysLists, CollectedFlatten
  <2> HIDE DEF M, n
  <2> QED  BY <1>3, <2>1, Zenon
<1>6. Requests!Sent(FlattenSeq(M)) = FlattenSeq(S)
  <2>1. FlattenSeq(M) \in Seq(Message)
    <3> HIDE DEF M
    <3> QED  BY <1>3, FlattenType
  <2> QED  BY <1>5, <2>1, SentCollects, Zenon
<1>7. S = K(talk, Requests!PartKind)
  <2>1. \A i \in 1..n : Requests!Of(turns[i].parts, Requests!PartKind) = turns[i].parts
    BY <1>1, OfAll, Zenon
  <2>2. \A i \in 1..n : S[i] = IF i \in system THEN <<>> ELSE turns[i].parts
    BY <1>2, <1>3, Zenon
  <2>3. \A i \in 1..n : i \in talk <=> i \notin system
    BY <1>1
  <2>4. DOMAIN S = 1..n /\ S = [i \in 1..n |-> S[i]]
    BY <1>3
  <2> HIDE DEF S, n, system, talk
  <2> QED  BY <1>1, <2>1, <2>2, <2>3, <2>4 DEF KeptOfTurns
<1>8. \A ts, kinds : /\ K(ts, kinds) \in Seq(Seq(Part))
                     /\ Collected(KeptOf(ts, kinds), said) = FlattenSeq(K(ts, kinds))
  BY KeptTurns, Zenon
<1>9. Requests!Sent(Requests!ExtractMessages(conv)) = Requests!Kept(said, talk, Requests!PartKind)
  <2> HIDE DEF K, talk, said, S, M
  <2> QED  BY <1>1, <1>4, <1>6, <1>7, <1>8, KeptCollects, Zenon
<1>10. Requests!ExtractSystem(conv)
         = Requests!Of(conv.prompt, {"text"}) \o FlattenSeq(K(system, {"text"}))
  <2>1. K(system, {"text"})
          = [i \in DOMAIN turns |-> IF turns[i].role = "System"
                                    THEN Requests!Of(turns[i].parts, {"text"}) ELSE <<>>]
    BY DEF KeptOfTurns
  <2> QED  BY <2>1, OneLibrary, Zenon DEF Requests!ExtractSystem
<1>11. K({0} \cup system, {"text"}) = K(system, {"text"})
  <2>1. \A i \in DOMAIN turns : i \in {0} \cup system <=> i \in system
    BY <1>1
  <2> QED  BY <2>1 DEF KeptOfTurns
<1>12. Collected(KeptOf({0} \cup system, {"text"}), conv.prompt)
         = Requests!Of(conv.prompt, {"text"})
  <2>1. 0 \in {0} \cup system
    OBVIOUS
  <2> HIDE DEF system
  <2> QED  BY <1>1, <2>1, KeptTurn, Zenon
<1>13. Requests!Kept(conv.prompt \o said, {0} \cup system, {"text"})
         = Requests!Of(conv.prompt, {"text"}) \o FlattenSeq(K(system, {"text"}))
  <2> HIDE DEF system, K, said
  <2>1. conv.prompt \o said \in Seq(Part)
    BY <1>1, ConcatProperties
  <2>2. \A u, v \in Seq(Part) :
          Collected(KeptOf({0} \cup system, {"text"}), u \o v)
            = Collected(KeptOf({0} \cup system, {"text"}), u)
                \o Collected(KeptOf({0} \cup system, {"text"}), v)
    <3>1. \A c : Lists(c, Part, Part) =>
            \A u, v \in Seq(Part) : Collected(c, u \o v) = Collected(c, u) \o Collected(c, v)
      BY ONLY CollectedConcat
    <3> QED  BY <3>1, KeptLists, Zenon
  <2>3. Collected(KeptOf({0} \cup system, {"text"}), conv.prompt \o said)
          = Collected(KeptOf({0} \cup system, {"text"}), conv.prompt)
              \o Collected(KeptOf({0} \cup system, {"text"}), said)
    BY <1>1, <2>2, Zenon
  <2>4. Requests!Kept(conv.prompt \o said, {0} \cup system, {"text"})
          = Collected(KeptOf({0} \cup system, {"text"}), conv.prompt \o said)
    BY <2>1, KeptCollects, Zenon
  <2>5. Collected(KeptOf({0} \cup system, {"text"}), said)
          = FlattenSeq(K({0} \cup system, {"text"}))
    BY <1>8, Zenon
  <2> QED  BY <1>11, <1>12, <2>3, <2>4, <2>5, Zenon
<1> QED  BY <1>9, <1>10, <1>13, Zenon DEF Requests!AnthropicCarries, Requests!BuildRequestBody

(***************************************************************************)
(* Whatever the turns of a conversation and their parts: what the adapters *)
(* make of it before a request leaves has lost no part and kept the order  *)
(* (build_messages, build_request_body).                                   *)
(***************************************************************************)
THEOREM CarriesCorrect == ProvidersSpec => []Carries
<1> DEFINE Asked == conversation \subseteq Dialogues
<1>1. ProvidersInit => Asked
  BY DEF ProvidersInit
<1>2. Asked /\ [ProvidersNext]_allVars => Asked'
  <2> SUFFICES ASSUME Asked, [ProvidersNext]_allVars PROVE conversation' \subseteq Dialogues
    OBVIOUS
  <2>1. conversation' = conversation \/ Ask
    BY DEF ProvidersNext, allVars
  <2> QED  BY <2>1 DEF Ask
<1>3. Asked => Carries
  BY DialoguesAssumption, BuildMessagesCarries, BuildRequestBodyCarries, Zenon DEF Carries
<1> HIDE DEF Asked
<1> QED  BY <1>1, <1>2, <1>3, PTL DEF ProvidersSpec

-----------------------------------------------------------------------------
(***************************************************************************)
(* The accumulator of tool calls.  What the texts of a stream look like.   *)
(***************************************************************************)
Texts == CallTexts \cup OtherTexts

LEMMA QuotedDefined ==
  ASSUME NEW t \in Seq(STRING)
  PROVE  LET q == Tools!Quoted(t)
         IN  /\ q[0] = "no"
             /\ \A n \in 0..Len(t) : q[n] \in {"no", "yes", "escaped"}
             /\ \A n \in 1..Len(t) :
                  q[n] = CASE q[n - 1] = "no"      -> IF t[n] = Tools!Quote THEN "yes" ELSE "no"
                           [] q[n - 1] = "escaped" -> "yes"
                           [] OTHER -> IF t[n] = Tools!Backslash THEN "escaped"
                                       ELSE IF t[n] = Tools!Quote THEN "no" ELSE "yes"
<1> DEFINE S == {"no", "yes", "escaped"}
           next(q, n) == CASE q = "no"      -> IF t[n] = Tools!Quote THEN "yes" ELSE "no"
                           [] q = "escaped" -> "yes"
                           [] OTHER -> IF t[n] = Tools!Backslash THEN "escaped"
                                       ELSE IF t[n] = Tools!Quote THEN "no" ELSE "yes"
           g == [x \in S \X Nat |-> next(x[1], x[2])]
           Is(f) == f = [n \in 0..Len(t) |-> IF n = 0 THEN "no" ELSE next(f[n - 1], n)]
<1>1. Len(t) \in Nat
  OBVIOUS
<1>2. \A q \in S, n \in Nat : g[<<q, n>>] = next(q, n) /\ next(q, n) \in S
  OBVIOUS
<1>3. PICK f \in [0..Len(t) -> S] :
        f = [n \in 0..Len(t) |-> IF n = 0 THEN "no" ELSE g[<<f[n - 1], n>>]]
  <2>1. "no" \in S /\ 0 \in Nat /\ 0 <= Len(t) /\ Closed(S, g, 0, Len(t))
    BY <1>1, <1>2 DEF Closed
  <2> HIDE DEF S, g
  <2>2. \E f : Runs(f, S, "no", g, 0, Len(t))
    BY <1>1, <2>1, Recursion, Zenon
  <2> QED  BY <2>2 DEF Runs
<1>4. Is(f)
  <2>1. \A n \in 0..Len(t) : n # 0 => n \in Nat /\ f[n - 1] \in S
    BY <1>1, <1>3
  <2>2. \A n \in 0..Len(t) : f[n] = IF n = 0 THEN "no" ELSE next(f[n - 1], n)
    <3> HIDE DEF g, next, S
    <3> QED  BY <1>2, <1>3, <2>1
  <2> HIDE DEF g, next, S
  <2> QED  BY <1>3, <2>2
<1>5. Is(Tools!Quoted(t))
  <2> HIDE DEF Is
  <2>1. Tools!Quoted(t) = CHOOSE h : Is(h)
    BY Zenon DEF Tools!Quoted, Is
  <2> QED  BY <1>4, <2>1, Zenon
<1> DEFINE q == Tools!Quoted(t)
<1> HIDE DEF q
<1>6. q = [n \in 0..Len(t) |-> IF n = 0 THEN "no" ELSE next(q[n - 1], n)]
  BY <1>5 DEF q
<1>7. q[0] = "no" /\ \A n \in 1..Len(t) : q[n] = next(q[n - 1], n)
  <2>1. 0 \in 0..Len(t) /\ \A n \in 1..Len(t) : n \in 0..Len(t) /\ n # 0
    BY <1>1
  <2> HIDE DEF next
  <2>2. \A n \in 0..Len(t) : q[n] = IF n = 0 THEN "no" ELSE next(q[n - 1], n)
    BY ONLY <1>6
  <2> QED  BY ONLY <2>1, <2>2
<1>8. \A x, n : next(x, n) \in S
  OBVIOUS
<1>9. \A n \in 0..Len(t) : q[n] \in S
  <2>1. \A n \in 0..Len(t) : n = 0 \/ n \in 1..Len(t)
    BY <1>1
  <2>2. "no" \in S
    OBVIOUS
  <2> HIDE DEF next, S
  <2> QED  BY <1>7, <1>8, <2>1, <2>2
<1> QED  BY <1>7, <1>9 DEF q

LEMMA NestingDefined ==
  ASSUME NEW t \in Seq(STRING)
  PROVE  LET q == Tools!Quoted(t)
             d == Tools!Nesting(t)
         IN  /\ d[0] = 0
             /\ \A n \in 0..Len(t) : d[n] \in Int
             /\ \A n \in 1..Len(t) :
                  d[n] = CASE q[n - 1] = "no" /\ t[n] = Tools!Open  -> d[n - 1] + 1
                           [] q[n - 1] = "no" /\ t[n] = Tools!Close -> d[n - 1] - 1
                           [] OTHER -> d[n - 1]
<1> DEFINE q == Tools!Quoted(t)
           next(d, n) == CASE q[n - 1] = "no" /\ t[n] = Tools!Open  -> d + 1
                           [] q[n - 1] = "no" /\ t[n] = Tools!Close -> d - 1
                           [] OTHER -> d
           g == [x \in Int \X Nat |-> next(x[1], x[2])]
           Is(f) == f = [n \in 0..Len(t) |-> IF n = 0 THEN 0 ELSE next(f[n - 1], n)]
<1>1. Len(t) \in Nat
  OBVIOUS
<1>2. \A d \in Int, n \in Nat : g[<<d, n>>] = next(d, n) /\ next(d, n) \in Int
  <2> HIDE DEF q
  <2> QED  OBVIOUS
<1>3. PICK f \in [0..Len(t) -> Int] :
        f = [n \in 0..Len(t) |-> IF n = 0 THEN 0 ELSE g[<<f[n - 1], n>>]]
  <2>1. 0 \in Int /\ 0 \in Nat /\ 0 <= Len(t) /\ Closed(Int, g, 0, Len(t))
    <3>1. \A d \in Int, n \in 0 + 1..Len(t) : g[<<d, n>>] \in Int
      <4>1. \A n \in 0 + 1..Len(t) : n \in Nat
        BY <1>1
      <4> HIDE DEF g, next
      <4> QED  BY <1>2, <4>1, Zenon
    <3> QED  BY <1>1, <3>1 DEF Closed
  <2> HIDE DEF g
  <2>2. \E f : Runs(f, Int, 0, g, 0, Len(t))
    BY <1>1, <2>1, Recursion, Zenon
  <2> QED  BY <2>2 DEF Runs
<1>4. Is(f)
  <2>1. \A n \in 0..Len(t) : n # 0 => n \in Nat /\ f[n - 1] \in Int
    BY <1>1, <1>3
  <2>2. \A n \in 0..Len(t) : f[n] = IF n = 0 THEN 0 ELSE next(f[n - 1], n)
    <3> HIDE DEF g, next
    <3> QED  BY <1>2, <1>3, <2>1
  <2> HIDE DEF g, next
  <2> QED  BY <1>3, <2>2
<1>5. Is(Tools!Nesting(t))
  <2> HIDE DEF Is
  <2>1. Tools!Nesting(t) = CHOOSE h : Is(h)
    BY Zenon DEF Tools!Nesting, Is
  <2> QED  BY <1>4, <2>1, Zenon
<1> DEFINE d == Tools!Nesting(t)
<1> HIDE DEF d
<1>6. d = [n \in 0..Len(t) |-> IF n = 0 THEN 0 ELSE next(d[n - 1], n)]
  BY <1>5 DEF d
<1>7. d[0] = 0 /\ \A n \in 1..Len(t) : d[n] = next(d[n - 1], n)
  <2>1. 0 \in 0..Len(t) /\ \A n \in 1..Len(t) : n \in 0..Len(t) /\ n # 0
    BY <1>1
  <2> HIDE DEF next
  <2>2. \A n \in 0..Len(t) : d[n] = IF n = 0 THEN 0 ELSE next(d[n - 1], n)
    BY ONLY <1>6
  <2> QED  BY ONLY <2>1, <2>2
<1>8. \A n \in 0..Len(t) : d[n] \in Int
  <2> DEFINE Good == {n \in 0..Len(t) : d[n] \in Int}
  <2>1. 0 \in Good
    BY <1>1, <1>7
  <2>2. ASSUME NEW n \in 0..Len(t), n < Len(t), n \in Good PROVE n + 1 \in Good
    <3>1. n + 1 \in 1..Len(t) /\ n + 1 \in 0..Len(t) /\ (n + 1) - 1 = n /\ n + 1 \in Nat
      BY <1>1, <2>2
    <3>2. d[n + 1] = next(d[n], n + 1) /\ d[n] \in Int
      BY <1>7, <2>2, <3>1
    <3> HIDE DEF next, g
    <3> QED  BY <1>2, <3>1, <3>2
  <2> HIDE DEF Good
  <2>3. \A n \in 0..Len(t) : n \in Good
    BY <1>1, <2>1, <2>2, Climb, Zenon
  <2> QED  BY <2>3 DEF Good
<1> QED  BY <1>7, <1>8 DEF d, q

(***************************************************************************)
(* An object's braces are open from its first character to its last.       *)
(***************************************************************************)
LEMMA ObjectNesting ==
  ASSUME NEW t, Tools!IsObject(t)
  PROVE  /\ t \in Seq(STRING) /\ t[1] = Tools!Open /\ Len(t) > 1
         /\ \A n \in 0..Len(t) : /\ Tools!Nesting(t)[n] \in Nat
                                 /\ Tools!Nesting(t)[n] = 0 <=> n \in {0, Len(t)}
<1> DEFINE q == Tools!Quoted(t)
           d == Tools!Nesting(t)
           Good == {n \in 0..Len(t) : d[n] \in Nat}
<1>1. /\ t \in Seq(STRING) /\ t # <<>> /\ t[1] = Tools!Open
      /\ \A n \in 1..Len(t) : d[n] = 0 <=> n = Len(t)
  BY DEF Tools!IsObject
<1>2. Len(t) \in Nat /\ Len(t) >= 1
  BY <1>1, EmptySeq, LenProperties
<1>3. /\ q[0] = "no" /\ d[0] = 0
      /\ \A n \in 0..Len(t) : d[n] \in Int
      /\ \A n \in 1..Len(t) :
           d[n] = CASE q[n - 1] = "no" /\ t[n] = Tools!Open  -> d[n - 1] + 1
                    [] q[n - 1] = "no" /\ t[n] = Tools!Close -> d[n - 1] - 1
                    [] OTHER -> d[n - 1]
  BY <1>1, QuotedDefined, NestingDefined
<1> HIDE DEF q, d
<1>4. d[1] = 1
  <2>1. 1 \in 1..Len(t) /\ 1 - 1 = 0
    BY <1>2
  <2>2. \A n \in 1..Len(t) : q[n - 1] = "no" /\ t[n] = Tools!Open => d[n] = d[n - 1] + 1
    BY <1>3 DEF Tools!Open, Tools!Close
  <2>3. d[1] = 0 + 1
    BY <1>1, <1>3, <2>1, <2>2, Zenon
  <2> QED  BY <2>3
<1>5. Len(t) > 1
  <2>1. 1 \in 1..Len(t)
    BY <1>2
  <2>2. Len(t) # 1
    <3>1. 1 # 0
      OBVIOUS
    <3> QED  BY <1>1, <1>4, <2>1, <3>1, Zenon
  <2> QED  BY <1>2, <2>2
<1>6. 0 \in Good
  BY <1>2, <1>3
<1>7. ASSUME NEW n \in 0..Len(t), n < Len(t), n \in Good PROVE n + 1 \in Good
  <2>1. n + 1 \in 1..Len(t) /\ n + 1 \in 0..Len(t) /\ (n + 1) - 1 = n
    BY <1>2, <1>7
  <2>2. CASE n = 0
    BY <1>4, <2>1, <2>2
  <2>3. CASE n # 0
    <3>1. n \in 1..Len(t) /\ d[n] # 0 /\ d[n] \in Nat
      BY <1>1, <1>2, <1>7, <2>3
    <3>2. d[n + 1] \in {d[n] + 1, d[n] - 1, d[n]}
      BY <1>3, <2>1
    <3> QED  BY <2>1, <3>1, <3>2
  <2> QED  BY <2>2, <2>3
<1>8. \A n \in 0..Len(t) : n \in Good
  <2> HIDE DEF Good
  <2> QED  BY <1>2, <1>6, <1>7, Climb, Zenon
<1>9. ASSUME NEW n \in 0..Len(t) PROVE d[n] = 0 <=> n \in {0, Len(t)}
  <2>1. n = 0 \/ n \in 1..Len(t)
    BY <1>2
  <2> QED  BY <1>1, <1>2, <1>3, <2>1
<1> QED  BY <1>1, <1>5, <1>8, <1>9 DEF d

(***************************************************************************)
(* The scanner's state after the first n characters of a text.             *)
(***************************************************************************)
Place(q) == IF q = "no" THEN "Object" ELSE IF q = "yes" THEN "String" ELSE "Escape"

Reached(at, t, n) ==
  IF t[1] # Tools!Open \/ Tools!Nesting(t)[n] = 0 THEN at = Tools!Outside
  ELSE at = Tools!In(Place(Tools!Quoted(t)[n]), Tools!Nesting(t)[n])

LEMMA ReachedOutside ==
  ASSUME NEW t \in Texts, NEW n \in 0..Len(t), NEW at, Reached(at, t, n)
  PROVE  /\ t \in Seq(STRING) /\ Len(t) > 0
         /\ t[1] # Tools!Open => at = Tools!Outside /\ t \notin CallTexts
         /\ t[1] = Tools!Open => Len(t) > 1 /\ (at = Tools!Outside <=> n \in {0, Len(t)})
<1>1. Tools!IsObject(t) \/ (Tools!IsProse(t) /\ t \notin CallTexts)
  BY TextsAssumption DEF Texts, Tools!Lexical
<1>2. CASE Tools!IsObject(t)
  <2>1. /\ t \in Seq(STRING) /\ t[1] = Tools!Open /\ Len(t) > 1
        /\ Tools!Nesting(t)[n] = 0 <=> n \in {0, Len(t)}
    BY <1>2, ObjectNesting
  <2>2. \A d : Tools!In(Place(Tools!Quoted(t)[n]), d) # Tools!Outside
    BY DEF Tools!In, Tools!Outside, Place
  <2> QED  BY <2>1, <2>2 DEF Reached
<1>3. CASE Tools!IsProse(t) /\ t \notin CallTexts
  <2>1. t \in Seq(STRING) /\ t # <<>> /\ \A m \in 1..Len(t) : t[m] # Tools!Open
    BY <1>3 DEF Tools!IsProse
  <2>2. Len(t) > 0
    BY <2>1, EmptySeq, LenProperties
  <2>3. 1 \in 1..Len(t)
    BY <2>1, <2>2
  <2> QED  BY <1>3, <2>1, <2>2, <2>3 DEF Reached
<1> QED  BY <1>1, <1>2, <1>3

LEMMA ReachedNext ==
  ASSUME NEW t \in Texts, NEW n \in 0..Len(t), n < Len(t), NEW at, Reached(at, t, n)
  PROVE  Reached(Tools!Scan(at, t[n + 1]), t, n + 1)
<1> DEFINE ch == t[n + 1]
           q == Tools!Quoted(t)
           d == Tools!Nesting(t)
<1>1. Tools!IsObject(t) \/ Tools!IsProse(t)
  BY TextsAssumption DEF Texts, Tools!Lexical
<1>2. CASE Tools!IsProse(t)
  <2>1. t \in Seq(STRING) /\ t # <<>> /\ \A m \in 1..Len(t) : t[m] # Tools!Open
    BY <1>2 DEF Tools!IsProse
  <2>2. Len(t) \in Nat /\ 1 \in 1..Len(t) /\ n + 1 \in 1..Len(t)
    BY <2>1, LenProperties
  <2>3. at = Tools!Outside /\ ch # Tools!Open /\ t[1] # Tools!Open
    BY <2>1, <2>2 DEF Reached
  <2>4. Tools!Scan(at, ch) = at
    <3> HIDE DEF ch
    <3> QED  BY <2>3 DEF Tools!Scan, Tools!Outside
  <2> QED  BY <2>3, <2>4 DEF Reached
<1>3. CASE Tools!IsObject(t)
  <2>1. /\ t \in Seq(STRING) /\ t[1] = Tools!Open /\ Len(t) > 1 /\ Len(t) \in Nat
        /\ \A m \in 0..Len(t) : d[m] \in Nat /\ (d[m] = 0 <=> m \in {0, Len(t)})
    BY <1>3, ObjectNesting, LenProperties
  <2>2. n \in 0..Len(t) /\ n + 1 \in 1..Len(t) /\ n + 1 \in 0..Len(t) /\ (n + 1) - 1 = n
    BY <2>1
  <2>3. /\ q[0] = "no" /\ q[n] \in {"no", "yes", "escaped"}
        /\ q[n + 1] = CASE q[n] = "no"      -> IF ch = Tools!Quote THEN "yes" ELSE "no"
                        [] q[n] = "escaped" -> "yes"
                        [] OTHER -> IF ch = Tools!Backslash THEN "escaped"
                                    ELSE IF ch = Tools!Quote THEN "no" ELSE "yes"
        /\ d[n + 1] = CASE q[n] = "no" /\ ch = Tools!Open  -> d[n] + 1
                        [] q[n] = "no" /\ ch = Tools!Close -> d[n] - 1
                        [] OTHER -> d[n]
    <3>1. /\ q[0] = "no" /\ q[n] \in {"no", "yes", "escaped"}
          /\ q[n + 1] = CASE q[(n + 1) - 1] = "no" -> IF ch = Tools!Quote THEN "yes" ELSE "no"
                          [] q[(n + 1) - 1] = "escaped" -> "yes"
                          [] OTHER -> IF ch = Tools!Backslash THEN "escaped"
                                      ELSE IF ch = Tools!Quote THEN "no" ELSE "yes"
      BY <2>1, <2>2, QuotedDefined
    <3>2. d[n + 1] = CASE q[(n + 1) - 1] = "no" /\ ch = Tools!Open  -> d[(n + 1) - 1] + 1
                       [] q[(n + 1) - 1] = "no" /\ ch = Tools!Close -> d[(n + 1) - 1] - 1
                       [] OTHER -> d[(n + 1) - 1]
      BY <2>1, <2>2, NestingDefined
    <3> HIDE DEF q, d, ch
    <3> QED  BY <2>2, <3>1, <3>2
  <2>4. /\ d[n] \in Nat /\ d[n + 1] \in Nat /\ (d[n] = 0 <=> n = 0)
        /\ (d[n + 1] = 0 <=> n + 1 = Len(t))
    BY <2>1, <2>2
  <2>5. CASE n = 0
    <3>1. at = Tools!Outside /\ ch = Tools!Open
      BY <2>1, <2>4, <2>5 DEF Reached
    <3>2. q[n + 1] = "no" /\ d[n + 1] = 1
      <4> HIDE DEF q, d, ch
      <4>1. q[n] = "no" /\ d[n] = 0
        BY <2>3, <2>4, <2>5, Zenon
      <4>2. q[n + 1] = IF ch = Tools!Quote THEN "yes" ELSE "no"
        BY <2>3, <4>1
      <4>3. d[n + 1] = d[n] + 1
        BY <2>3, <3>1, <4>1 DEF Tools!Open, Tools!Close
      <4>4. ch # Tools!Quote
        BY <3>1 DEF Tools!Open, Tools!Quote
      <4>5. 0 + 1 = 1
        OBVIOUS
      <4> QED  BY <4>1, <4>2, <4>3, <4>4, <4>5, Zenon
    <3>3. Tools!Scan(at, ch) = Tools!In("Object", 1)
      <4> HIDE DEF ch
      <4> QED  BY <3>1 DEF Tools!Scan, Tools!Outside
    <3> QED  BY <2>1, <3>2, <3>3 DEF Reached, Place
  <2>6. CASE n # 0
    <3>1. at = Tools!In(Place(q[n]), d[n])
      BY <2>1, <2>4, <2>6 DEF Reached
    <3>2. Tools!Scan(at, ch) = IF d[n + 1] = 0 THEN Tools!Outside
                               ELSE Tools!In(Place(q[n + 1]), d[n + 1])
      <4> HIDE DEF q, d, ch
      <4>1. at.in = Place(q[n]) /\ at.depth = d[n]
        BY <3>1 DEF Tools!In
      <4>2. d[n] \in Nat /\ d[n] # 0 /\ d[n + 1] \in Nat
        BY <2>4, <2>6, Zenon
      <4>3. CASE q[n] = "no"
        <5>1. at.in = "Object"
          BY <4>1, <4>3 DEF Place
        <5>2. CASE ch = Tools!Open
          <6>1. Tools!Scan(at, ch) = Tools!In("Object", at.depth + 1)
            BY <5>1, <5>2 DEF Tools!Scan, Tools!Open, Tools!Close, Tools!Quote
          <6>2. q[n + 1] = "no"
            BY <2>3, <4>3, <5>2 DEF Tools!Open, Tools!Quote
          <6>3. d[n + 1] = d[n] + 1
            BY <2>3, <4>3, <5>2 DEF Tools!Open, Tools!Close
          <6>4. d[n + 1] # 0
            BY <4>2, <6>3
          <6>5. Place(q[n + 1]) = "Object"
            BY <6>2 DEF Place
          <6> QED  BY <4>1, <6>1, <6>3, <6>4, <6>5, Zenon
        <5>3. CASE ch = Tools!Close
          <6>1. Tools!Scan(at, ch)
                  = Tools!In(IF at.depth = 1 THEN "Outside" ELSE "Object", at.depth - 1)
            BY <5>1, <5>3 DEF Tools!Scan, Tools!Open, Tools!Close, Tools!Quote
          <6>2. q[n + 1] = "no"
            BY <2>3, <4>3, <5>3 DEF Tools!Close, Tools!Quote
          <6>3. d[n + 1] = d[n] - 1
            BY <2>3, <4>3, <5>3 DEF Tools!Open, Tools!Close
          <6>4. d[n + 1] = 0 <=> at.depth = 1
            BY <4>1, <4>2, <6>3
          <6>5. Place(q[n + 1]) = "Object"
            BY <6>2 DEF Place
          <6>6. Tools!Outside = Tools!In("Outside", 0)
            BY DEF Tools!Outside, Tools!In
          <6>7. at.depth - 1 = d[n + 1]
            BY <4>1, <6>3
          <6> QED  BY <6>1, <6>4, <6>5, <6>6, <6>7
        <5>4. CASE ch = Tools!Quote
          <6>1. Tools!Scan(at, ch) = Tools!In("String", at.depth)
            BY <5>1, <5>4 DEF Tools!Scan, Tools!Open, Tools!Close, Tools!Quote
          <6>2. q[n + 1] = "yes"
            BY <2>3, <4>3, <5>4
          <6>3. d[n + 1] = d[n]
            BY <2>3, <4>3, <5>4 DEF Tools!Open, Tools!Close, Tools!Quote
          <6>4. Place(q[n + 1]) = "String"
            BY <6>2 DEF Place
          <6> QED  BY <4>1, <4>2, <6>1, <6>3, <6>4, Zenon
        <5>5. CASE ch \notin {Tools!Open, Tools!Close, Tools!Quote}
          <6>1. Tools!Scan(at, ch) = at
            BY <5>1, <5>5 DEF Tools!Scan
          <6>2. q[n + 1] = q[n]
            BY <2>3, <4>3, <5>5
          <6>3. d[n + 1] = d[n]
            BY <2>3, <4>3, <5>5
          <6> QED  BY <3>1, <4>2, <6>1, <6>2, <6>3, Zenon
        <5> QED  BY <5>2, <5>3, <5>4, <5>5
      <4>4. CASE q[n] = "yes"
        <5>1. at.in = "String" /\ d[n + 1] = d[n]
          BY <2>3, <4>1, <4>4 DEF Place
        <5>2. CASE ch = Tools!Backslash
          <6>1. Tools!Scan(at, ch) = Tools!In("Escape", at.depth)
            BY <5>1, <5>2 DEF Tools!Scan, Tools!Quote, Tools!Backslash
          <6>2. q[n + 1] = "escaped"
            BY <2>3, <4>4, <5>2
          <6>3. Place(q[n + 1]) = "Escape"
            BY <6>2 DEF Place
          <6> QED  BY <4>1, <4>2, <5>1, <6>1, <6>3, Zenon
        <5>3. CASE ch = Tools!Quote
          <6>1. Tools!Scan(at, ch) = Tools!In("Object", at.depth)
            BY <5>1, <5>3 DEF Tools!Scan, Tools!Quote, Tools!Backslash
          <6>2. q[n + 1] = "no"
            BY <2>3, <4>4, <5>3 DEF Tools!Quote, Tools!Backslash
          <6>3. Place(q[n + 1]) = "Object"
            BY <6>2 DEF Place
          <6> QED  BY <4>1, <4>2, <5>1, <6>1, <6>3, Zenon
        <5>4. CASE ch \notin {Tools!Backslash, Tools!Quote}
          <6>1. Tools!Scan(at, ch) = at
            BY <5>1, <5>4 DEF Tools!Scan
          <6>2. q[n + 1] = q[n]
            BY <2>3, <4>4, <5>4
          <6> QED  BY <3>1, <4>2, <5>1, <6>1, <6>2, Zenon
        <5> QED  BY <5>2, <5>3, <5>4
      <4>5. CASE q[n] = "escaped"
        <5>1. at.in = "Escape" /\ d[n + 1] = d[n] /\ q[n + 1] = "yes"
          BY <2>3, <4>1, <4>5 DEF Place
        <5>2. Tools!Scan(at, ch) = Tools!In("String", at.depth)
          BY <5>1 DEF Tools!Scan
        <5>3. Place(q[n + 1]) = "String"
          BY <5>1 DEF Place
        <5> QED  BY <4>1, <4>2, <5>1, <5>2, <5>3, Zenon
      <4> QED  BY <2>3, <4>3, <4>4, <4>5
    <3> QED  BY <2>1, <3>2 DEF Reached
  <2> QED  BY <2>5, <2>6
<1> QED  BY <1>1, <1>2, <1>3

(***************************************************************************)
(* What a text of the stream comes to when it has been taken.              *)
(***************************************************************************)
Taking == [t \in Texts |-> IF t[1] # Tools!Open THEN <<>>
                           ELSE IF t \in CallTexts THEN <<t>> ELSE <<<<>>>>]
TakenOf(p, k) == Collected(Taking, SubSeq(p, 1, k))

LEMMA TextsOf ==
  /\ Texts \subseteq Seq(STRING)
  /\ Seq(Texts) \subseteq Seq(Seq(STRING))
  /\ Lists(Taking, Texts, Seq(STRING))
<1>1. ASSUME NEW t \in Texts PROVE t \in Seq(STRING)
  <2>1. Tools!IsObject(t) \/ Tools!IsProse(t)
    BY TextsAssumption DEF Texts, Tools!Lexical
  <2> QED  BY <2>1 DEF Tools!IsObject, Tools!IsProse
<1>2. ASSUME NEW t \in Texts PROVE Taking[t] \in Seq(Seq(STRING))
  <2>1. t \in Seq(STRING) /\ <<>> \in Seq(STRING)
    BY <1>1, EmptySeq
  <2>2. <<t>> \in Seq(Seq(STRING)) /\ <<<<>>>> \in Seq(Seq(STRING)) /\ <<>> \in Seq(Seq(STRING))
    BY <2>1
  <2> QED  BY <2>2 DEF Taking
<1> QED  BY <1>1, <1>2 DEF Lists

(***************************************************************************)
(* The scanner is somewhere in the text after the k-th, or at the end of   *)
(* the k-th, an object that is not taken yet; its buffer begins behind the *)
(* first `off` characters of the stream.                                   *)
(***************************************************************************)
Within(p, off, s, tk, k) ==
  LET n == off + s.scan_pos - EndOf(p, k)
  IN /\ k \in 0..Len(p)
     /\ s.finished = <<>> /\ tk = TakenOf(p, k)
     /\ n \in Nat
     /\ IF k = Len(p) THEN n = 0 /\ s.scan = Tools!Outside
        ELSE n < Len(p[k + 1]) /\ Reached(s.scan, p[k + 1], n)
     /\ IF s.scan = Tools!Outside THEN s.object_start = 0
        ELSE off <= EndOf(p, k) /\ s.object_start = EndOf(p, k) + 1 - off

Behind(p, off, s, tk, k) ==
  /\ k \in 1..Len(p) /\ p[k][1] = Tools!Open
  /\ s.finished = p[k] /\ tk = TakenOf(p, k - 1)
  /\ off + s.scan_pos = EndOf(p, k)
  /\ s.scan = Tools!Outside /\ s.object_start = 0

Fits(p, off, s, tk) == \E k \in Nat : Within(p, off, s, tk, k) \/ Behind(p, off, s, tk, k)

Window(p, off, tx) ==
  /\ off \in Nat /\ tx \in Seq(STRING) /\ off + Len(tx) <= Len(FlattenSeq(p))
  /\ \A i \in 1..Len(tx) : tx[i] = FlattenSeq(p)[off + i]

LEMMA ReachedFirst ==
  ASSUME NEW t \in Texts PROVE Reached(Tools!Outside, t, 0)
<1>1. CASE Tools!IsObject(t)
  <2>1. t \in Seq(STRING)
    BY <1>1 DEF Tools!IsObject
  <2>2. Tools!Nesting(t)[0] = 0
    BY <2>1, NestingDefined
  <2> QED  BY <2>2 DEF Reached
<1>2. CASE Tools!IsProse(t)
  <2>1. t \in Seq(STRING) /\ t # <<>> /\ \A m \in 1..Len(t) : t[m] # Tools!Open
    BY <1>2 DEF Tools!IsProse
  <2>2. 1 \in 1..Len(t)
    BY <2>1, EmptySeq, LenProperties
  <2> QED  BY <2>1, <2>2 DEF Reached
<1> QED  BY <1>1, <1>2, TextsAssumption DEF Texts, Tools!Lexical

LEMMA AtEnd ==
  ASSUME NEW p \in Seq(Texts), NEW k \in 0..Len(p), NEW off \in Nat, NEW s,
         s.finished = <<>>, s.scan = Tools!Outside, s.object_start = 0,
         off + s.scan_pos = EndOf(p, k), s.scan_pos \in Nat
  PROVE  Within(p, off, s, TakenOf(p, k), k)
<1>1. Len(p) \in Nat /\ EndOf(p, k) \in Nat
  BY TextsOf, EndsAscend, LenProperties
<1>2. off + s.scan_pos - EndOf(p, k) = 0
  BY <1>1
<1>3. ASSUME k # Len(p) PROVE 0 < Len(p[k + 1]) /\ Reached(Tools!Outside, p[k + 1], 0)
  <2>1. p[k + 1] \in Texts
    <3>1. k + 1 \in 1..Len(p)
      BY <1>1, <1>3
    <3> QED  BY <3>1, ElementOfSeq
  <2>2. Reached(Tools!Outside, p[k + 1], 0)
    BY <2>1, ReachedFirst
  <2>3. 0 \in 0..Len(p[k + 1])
    <3>1. p[k + 1] \in Seq(STRING)
      BY <2>1, TextsOf
    <3> QED  BY <3>1, LenProperties
  <2>4. Len(p[k + 1]) > 0
    BY <2>1, <2>2, <2>3, ReachedOutside, Zenon
  <2> QED  BY <2>2, <2>4
<1> QED  BY <1>1, <1>2, <1>3 DEF Within

LEMMA TakenNext ==
  ASSUME NEW p \in Seq(Texts), NEW k \in 1..Len(p)
  PROVE  /\ TakenOf(p, k) = TakenOf(p, k - 1) \o Taking[p[k]]
         /\ TakenOf(p, k - 1) \in Seq(Seq(STRING)) /\ Taking[p[k]] \in Seq(Seq(STRING))
<1>1. /\ p[k] \in Texts /\ SubSeq(p, 1, k - 1) \in Seq(Texts)
      /\ SubSeq(p, 1, k) = Append(SubSeq(p, 1, k - 1), p[k])
  BY PrefixAppend, Zenon
<1>2. Taking[p[k]] \in Seq(Seq(STRING)) /\ TakenOf(p, k - 1) \in Seq(Seq(STRING))
  BY <1>1, TextsOf, CollectedType, Zenon DEF TakenOf, Lists
<1>3. \A u \in Seq(Texts), x \in Texts :
        Collected(Taking, Append(u, x)) = Collected(Taking, u) \o Taking[x]
  BY ONLY TextsOf, CollectedAppend
<1> QED  BY <1>1, <1>2, <1>3, Zenon DEF TakenOf

(***************************************************************************)
(* One character of the scan.                                              *)
(***************************************************************************)
LEMMA StepFits ==
  ASSUME NEW p \in Seq(Texts), NEW off, NEW tx, Window(p, off, tx),
         NEW s, NEW tk, NEW k \in Nat, Within(p, off, s, tk, k),
         NEW n \in 1..Len(tx), s.scan_pos = n - 1
  PROVE  /\ Fits(p, off, Tools!Step(s, tx[n], tx), tk)
         /\ Tools!Step(s, tx[n], tx).scan_pos = n
<1> DEFINE E(i) == EndOf(p, i)
           all == FlattenSeq(p)
           t == p[k + 1]
           j == off + s.scan_pos - E(k)
           now == Tools!Scan(s.scan, tx[n])
           start == IF s.scan = Tools!Outside /\ now # Tools!Outside THEN n ELSE s.object_start
           ends == s.scan # Tools!Outside /\ now = Tools!Outside
           r == Tools!Step(s, tx[n], tx)
<1>1. /\ Len(p) \in Nat /\ Len(tx) \in Nat /\ off \in Nat /\ n \in Nat /\ n <= Len(tx) /\ n >= 1
      /\ k \in 0..Len(p) /\ E(k) \in Nat /\ (n - 1) + 1 = n
      /\ \A i \in 0..Len(p) : E(i) \in Nat
      /\ \A i \in 1..Len(p) : E(i) = E(i - 1) + Len(p[i])
      /\ E(Len(p)) = Len(all)
  BY TextsOf, EndsAscend, LenProperties DEF Window, Within
<1>2. /\ s.finished = <<>> /\ tk = TakenOf(p, k) /\ j \in Nat
      /\ k = Len(p) => j = 0
      /\ k # Len(p) => j < Len(t) /\ Reached(s.scan, t, j)
      /\ s.scan = Tools!Outside => s.object_start = 0
      /\ s.scan # Tools!Outside => off <= E(k) /\ s.object_start = E(k) + 1 - off
  BY DEF Within
<1>3. /\ r.scan_pos = n /\ r.scan = now
      /\ r.object_start = IF ends THEN 0 ELSE start
      /\ r.finished = IF ends THEN SubSeq(tx, start, n) ELSE <<>>
  BY <1>1, <1>2 DEF Tools!Step
<1> HIDE DEF E, now, r
<1>4. k # Len(p) /\ k + 1 \in 1..Len(p) /\ (k + 1) - 1 = k /\ k + 1 \in 0..Len(p) /\ k + 1 \in Nat
  <2>1. off + n <= Len(all)
    <3>1. off + Len(tx) <= Len(all) /\ Len(all) \in Nat
      BY <1>1 DEF Window
    <3> HIDE DEF all
    <3> QED  BY <1>1, <3>1
  <2> HIDE DEF all
  <2>2. k # Len(p)
    BY <1>1, <1>2, <2>1
  <2> QED  BY <1>1, <2>2
<1>5. t \in Texts /\ t \in Seq(STRING) /\ Len(t) \in Nat /\ j \in 0..Len(t) /\ j < Len(t)
      /\ Reached(s.scan, t, j) /\ j + 1 \in 1..Len(t) /\ j + 1 \in 0..Len(t)
      /\ E(k + 1) = E(k) + Len(t)
  <2>1. t \in Texts
    BY <1>4, ElementOfSeq
  <2>2. t \in Seq(STRING) /\ Len(t) \in Nat
    BY <2>1, TextsOf, LenProperties
  <2>3. j < Len(t) /\ Reached(s.scan, t, j)
    BY <1>2, <1>4, Zenon
  <2>4. E(k + 1) = E(k) + Len(t)
    BY <1>1, <1>4
  <2> HIDE DEF j, t
  <2> QED  BY <1>2, <2>1, <2>2, <2>3, <2>4
<1>6. off + n = E(k) + (j + 1) /\ j + 1 = off + n - E(k)
  BY <1>1
<1>7. tx[n] = t[j + 1]
  <2>1. tx[n] = all[off + n]
    BY DEF Window
  <2>2. \A i \in 1..Len(t) : all[E(k) + i] = t[i]
    <3>1. \A i \in 1..Len(p[k + 1]) : all[E((k + 1) - 1) + i] = p[k + 1][i]
      BY TextsOf, FlattenPlaces, <1>4 DEF E
    <3> QED  BY <1>4, <3>1
  <2> HIDE DEF t, all
  <2> QED  BY <1>5, <1>6, <2>1, <2>2
<1>8. Reached(now, t, j + 1)
  BY <1>5, <1>7, ReachedNext, Zenon DEF now
<1>9. /\ t[1] # Tools!Open => /\ s.scan = Tools!Outside /\ now = Tools!Outside /\ t \notin CallTexts
      /\ t[1] = Tools!Open => /\ Len(t) > 1
                              /\ s.scan = Tools!Outside <=> j = 0
                              /\ now = Tools!Outside <=> j + 1 = Len(t)
  <2>1. \A m \in 0..Len(t) : \A at : Reached(at, t, m) =>
          /\ t[1] # Tools!Open => at = Tools!Outside /\ t \notin CallTexts
          /\ t[1] = Tools!Open => Len(t) > 1 /\ (at = Tools!Outside <=> m \in {0, Len(t)})
    BY <1>5, ReachedOutside
  <2>2. /\ t[1] # Tools!Open => /\ s.scan = Tools!Outside /\ now = Tools!Outside
                                /\ t \notin CallTexts
        /\ t[1] = Tools!Open => /\ Len(t) > 1
                                /\ s.scan = Tools!Outside <=> j \in {0, Len(t)}
                                /\ now = Tools!Outside <=> j + 1 \in {0, Len(t)}
    <3> HIDE DEF t, j
    <3>1. /\ t[1] # Tools!Open => s.scan = Tools!Outside /\ t \notin CallTexts
          /\ t[1] = Tools!Open => Len(t) > 1 /\ (s.scan = Tools!Outside <=> j \in {0, Len(t)})
      BY <1>5, <2>1
    <3>2. /\ t[1] # Tools!Open => now = Tools!Outside
          /\ t[1] = Tools!Open => (now = Tools!Outside <=> j + 1 \in {0, Len(t)})
      BY <1>5, <1>8, <2>1
    <3> QED  BY <3>1, <3>2
  <2>3. (j \in {0, Len(t)} <=> j = 0) /\ (j + 1 \in {0, Len(t)} <=> j + 1 = Len(t))
    <3> HIDE DEF t, j
    <3> QED  BY <1>5
  <2> HIDE DEF t, j
  <2> QED  BY <2>2, <2>3, Zenon
<1>10. CASE j + 1 # Len(t)
  <2>1. ~ends /\ j + 1 < Len(t)
    <3> HIDE DEF t, j
    <3> QED  BY <1>5, <1>9, <1>10
  <2>2. now # Tools!Outside => off <= E(k) /\ start = E(k) + 1 - off
    <3>1. ASSUME now # Tools!Outside, s.scan = Tools!Outside PROVE off <= E(k) /\ n = E(k) + 1 - off
      <4>1. j = 0
        BY <1>9, <3>1, Zenon
      <4>2. off \in Nat /\ n \in Nat /\ n >= 1 /\ E(k) \in Nat /\ off + n = E(k) + (j + 1)
        BY <1>1, <1>6, Zenon
      <4> HIDE DEF t, j
      <4> QED  BY ONLY <4>1, <4>2
    <3> QED  BY <1>2, <3>1
  <2>3. now = Tools!Outside => start = 0
    BY <1>2, <2>1
  <2>4. off + r.scan_pos - E(k) = j + 1
    <3> HIDE DEF t, j
    <3> QED  BY <1>3, <1>6
  <2>5. /\ r.finished = <<>> /\ r.scan = now /\ r.object_start = start
        /\ j + 1 \in Nat /\ j + 1 < Len(t) /\ Reached(now, t, j + 1)
    <3> HIDE DEF t, j, ends, start
    <3> QED  BY <1>3, <1>5, <1>8, <2>1
  <2>6. Within(p, off, r, tk, k)
    <3> HIDE DEF j, ends, start, now
    <3> QED  BY <1>1, <1>2, <1>4, <2>2, <2>3, <2>4, <2>5 DEF Within, E
  <2> QED  BY <1>3, <2>6 DEF Fits, r
<1>11. CASE j + 1 = Len(t)
  <2>1. off + n = E(k + 1) /\ now = Tools!Outside
    <3>1. now = Tools!Outside
      BY <1>9, <1>11, Zenon
    <3> HIDE DEF t, j
    <3> QED  BY <1>5, <1>6, <1>11, <3>1
  <2>2. TakenOf(p, k + 1) = tk \o Taking[t]
    <3>1. TakenOf(p, k + 1) = TakenOf(p, (k + 1) - 1) \o Taking[p[k + 1]]
      BY <1>4, TakenNext, Zenon
    <3> QED  BY <1>2, <1>4, <3>1, Zenon
  <2>3. CASE t[1] # Tools!Open
    <3>1. ~ends /\ start = 0
      BY <1>2, <1>9, <2>1, <2>3
    <3>2. tk = TakenOf(p, k + 1)
      <4>1. Taking[t] = <<>>
        BY <1>5, <2>3 DEF Taking
      <4>2. tk \in Seq(Seq(STRING))
        <5>1. SubSeq(p, 1, k) \in Seq(Texts)
          BY <1>1, SplitAt
        <5> QED  BY <1>2, <5>1, TextsOf, CollectedType, Zenon DEF TakenOf
      <4>3. tk \o <<>> = tk
        BY <4>2, ConcatEmptySeq
      <4> QED  BY <2>2, <4>1, <4>3, Zenon
    <3>3. /\ r.finished = <<>> /\ r.scan = Tools!Outside /\ r.object_start = 0
          /\ off + r.scan_pos = E(k + 1) /\ r.scan_pos \in Nat
      <4> HIDE DEF t, j, ends, start
      <4> QED  BY <1>1, <1>3, <2>1, <3>1
    <3>4. Within(p, off, r, TakenOf(p, k + 1), k + 1)
      <4> HIDE DEF t, j
      <4> QED  BY <1>1, <1>4, <3>3, AtEnd DEF E
    <3> QED  BY <1>3, <1>4, <3>2, <3>4 DEF Fits, r
  <2>4. CASE t[1] = Tools!Open
    <3>1. s.scan # Tools!Outside
      <4>1. Len(t) > 1 /\ (s.scan = Tools!Outside <=> j = 0)
        BY <1>9, <2>4, Zenon
      <4> HIDE DEF t, j
      <4> QED  BY <1>5, <1>11, <4>1
    <3>2. ends /\ start = E(k) + 1 - off /\ off <= E(k)
      BY <1>2, <2>1, <3>1
    <3>3. SubSeq(tx, start, n) = t
      <4> DEFINE u == SubSeq(tx, start, n)
      <4>0. /\ off \in Nat /\ n \in Nat /\ n >= 1 /\ n <= Len(tx) /\ Len(tx) \in Nat
            /\ E(k) \in Nat /\ E(k + 1) = E(k) + Len(t) /\ Len(t) \in Nat /\ Len(t) >= 1
            /\ off + n = E(k + 1) /\ start = E(k) + 1 - off /\ off <= E(k)
        <5>1. Len(t) >= 1
          <6> HIDE DEF t, j
          <6> QED  BY <1>5
        <5> QED  BY <1>1, <1>5, <2>1, <3>2, <5>1, Zenon
      <4>1. start \in 1..Len(tx) + 1 /\ start <= n /\ n - start + 1 = Len(t) /\ start \in Nat
        <5> HIDE DEF t, j, start, all
        <5> QED  BY ONLY <4>0
      <4>2. tx \in Seq(STRING)
        BY DEF Window
      <4>3. /\ u \in Seq(STRING) /\ Len(u) = Len(t)
            /\ \A i \in 1..Len(t) : u[i] = tx[start + i - 1]
        <5>1. \A i \in start..n : tx[i] \in STRING
          <6>1. \A i \in start..n : i \in 1..Len(tx)
            <7> HIDE DEF start
            <7> QED  BY <1>1, <4>1
          <6> QED  BY <4>2, <6>1, ElementOfSeq
        <5> HIDE DEF t, start
        <5> QED  BY <1>1, <4>1, <5>1, SubSeqProperties
      <4>4. ASSUME NEW i \in 1..Len(t) PROVE u[i] = t[i]
        <5>1. /\ start + i - 1 \in 1..Len(tx) /\ off + (start + i - 1) = E(k) + i
          <6> DEFINE e == E(k)
                     l == Len(t)
                     m == Len(tx)
                     from == start
          <6>1. /\ off \in Nat /\ n \in Nat /\ n <= m /\ m \in Nat /\ e \in Nat /\ l \in Nat
                /\ off + n = e + l /\ from = e + 1 - off /\ off <= e /\ i \in 1..l
            BY <4>0, Zenon
          <6> HIDE DEF e, l, m, from
          <6>2. from + i - 1 \in 1..m /\ off + (from + i - 1) = e + i
            BY ONLY <6>1
          <6> QED  BY <6>2, Zenon DEF e, l, m, from
        <5>2. tx[start + i - 1] = all[E(k) + i]
          BY <5>1 DEF Window
        <5>3. all[E((k + 1) - 1) + i] = t[i]
          BY TextsOf, FlattenPlaces, <1>4 DEF E
        <5> HIDE DEF t, start, u, all
        <5> QED  BY <1>4, <4>3, <5>2, <5>3
      <4> HIDE DEF u, t
      <4> QED  BY <1>5, <4>3, <4>4, SeqEqual DEF u
    <3>4. /\ r.finished = t /\ r.scan = Tools!Outside /\ r.object_start = 0
          /\ off + r.scan_pos = E(k + 1) /\ tk = TakenOf(p, (k + 1) - 1)
      <4> HIDE DEF t, j, ends, start
      <4> QED  BY <1>2, <1>3, <1>4, <2>1, <3>2, <3>3
    <3>5. Behind(p, off, r, tk, k + 1)
      <4> HIDE DEF j, ends, start
      <4> QED  BY <1>4, <2>4, <3>4 DEF Behind, E
    <3> QED  BY <1>3, <1>4, <3>5 DEF Fits, r
  <2> QED  BY <2>3, <2>4
<1> QED  BY <1>10, <1>11

(***************************************************************************)
(* The scan of the rest of a buffer.                                       *)
(***************************************************************************)
ScanStates == [in : {"Outside", "Object", "String", "Escape"}, depth : Int]
Scanners(tx, done) ==
  [scan_pos : Int, scan : ScanStates, object_start : Int,
   finished : {<<>>, done} \cup {SubSeq(tx, x[1], x[2]) : x \in Int \X Int}]

LEMMA ScanTyped ==
  ASSUME NEW at \in ScanStates, NEW ch PROVE Tools!Scan(at, ch) \in ScanStates
<1>1. \A d \in Int, q \in {"Outside", "Object", "String", "Escape"} : Tools!In(q, d) \in ScanStates
  BY DEF Tools!In, ScanStates
<1>2. at.depth \in Int /\ at.depth + 1 \in Int /\ at.depth - 1 \in Int
  BY DEF ScanStates
<1>3. CASE at.in = "Outside"
  BY <1>1, <1>3 DEF Tools!Scan
<1>4. CASE at.in = "Object"
  <2>1. Tools!Scan(at, ch) = CASE ch = Tools!Open  -> Tools!In("Object", at.depth + 1)
           [] ch = Tools!Close ->
                Tools!In(IF at.depth = 1 THEN "Outside" ELSE "Object", at.depth - 1)
           [] ch = Tools!Quote -> Tools!In("String", at.depth)
           [] OTHER        -> at
    BY <1>4 DEF Tools!Scan
  <2> QED  BY <1>1, <1>2, <2>1 DEF Tools!Open, Tools!Close, Tools!Quote
<1>5. CASE at.in = "String"
  <2>1. Tools!Scan(at, ch) = CASE ch = Tools!Backslash -> Tools!In("Escape", at.depth)
           [] ch = Tools!Quote     -> Tools!In("Object", at.depth)
           [] OTHER            -> at
    BY <1>5 DEF Tools!Scan
  <2> QED  BY <1>1, <1>2, <2>1 DEF Tools!Backslash, Tools!Quote
<1>6. CASE at.in = "Escape"
  BY <1>1, <1>2, <1>6 DEF Tools!Scan
<1> QED  BY <1>3, <1>4, <1>5, <1>6 DEF ScanStates

LEMMA StepTyped ==
  ASSUME NEW tx, NEW done, NEW s \in Scanners(tx, done), NEW ch
  PROVE  Tools!Step(s, ch, tx) \in Scanners(tx, done)
<1> DEFINE at == s.scan_pos + 1
           now == Tools!Scan(s.scan, ch)
           start == IF s.scan = Tools!Outside /\ now # Tools!Outside THEN at ELSE s.object_start
           ends == s.scan # Tools!Outside /\ now = Tools!Outside
           whole == IF ends THEN SubSeq(tx, start, at) ELSE <<>>
<1>1. s.scan_pos \in Int /\ s.scan \in ScanStates /\ s.object_start \in Int
  BY DEF Scanners
<1>2. now \in ScanStates /\ at \in Int /\ start \in Int
  BY <1>1, ScanTyped
<1>3. whole \in {<<>>, done} \cup {SubSeq(tx, x[1], x[2]) : x \in Int \X Int}
  <2>1. <<start, at>> \in Int \X Int /\ <<start, at>>[1] = start /\ <<start, at>>[2] = at
    BY <1>2
  <2> HIDE DEF start, at
  <2> QED  BY <2>1
<1>4. Tools!Step(s, ch, tx)
        = IF s.finished # <<>> THEN s
          ELSE [scan_pos |-> at, scan |-> now, object_start |-> IF ends THEN 0 ELSE start,
                finished |-> whole]
  BY DEF Tools!Step
<1> HIDE DEF at, now, start, ends, whole
<1>5. (IF ends THEN 0 ELSE start) \in Int
  BY <1>2
<1> QED  BY <1>2, <1>3, <1>4, <1>5 DEF Scanners

LEMMA FitsTyped ==
  ASSUME NEW p \in Seq(Texts), NEW off \in Nat, NEW s, NEW tk, Fits(p, off, s, tk)
  PROVE  s.scan \in ScanStates /\ s.object_start \in Int
<1>1. Tools!Outside \in ScanStates
  BY DEF Tools!Outside, ScanStates
<1>2. PICK k \in Nat : Within(p, off, s, tk, k) \/ Behind(p, off, s, tk, k)
  BY DEF Fits
<1>3. CASE Behind(p, off, s, tk, k)
  BY <1>1, <1>3 DEF Behind
<1>4. CASE Within(p, off, s, tk, k) /\ s.scan # Tools!Outside
  <2> DEFINE n == off + s.scan_pos - EndOf(p, k)
             t == p[k + 1]
  <2>1. k \in 0..Len(p) /\ k # Len(p) /\ n \in Nat /\ n < Len(t) /\ Reached(s.scan, t, n)
        /\ s.object_start = EndOf(p, k) + 1 - off
    BY <1>4 DEF Within
  <2> HIDE DEF n
  <2>2. t \in Texts /\ EndOf(p, k) \in Nat
    <3>1. k + 1 \in 1..Len(p) /\ EndOf(p, k) \in Nat
      BY <2>1, TextsOf, EndsAscend, LenProperties
    <3> QED  BY <3>1, ElementOfSeq
  <2>3. t \in Seq(STRING) /\ n \in 0..Len(t)
    BY <2>1, <2>2, TextsOf, LenProperties
  <2>4. t[1] = Tools!Open /\ s.scan = Tools!In(Place(Tools!Quoted(t)[n]), Tools!Nesting(t)[n])
    <3> HIDE DEF t
    <3> QED  BY <1>4, <2>1 DEF Reached
  <2>5. Tools!Nesting(t)[n] \in Int
    <3> HIDE DEF t
    <3> QED  BY <2>3, NestingDefined
  <2>6. s.scan \in ScanStates
    <3> HIDE DEF t
    <3> QED  BY <2>4, <2>5 DEF Tools!In, Place, ScanStates
  <2> QED  BY <2>1, <2>2, <2>6
<1>5. CASE Within(p, off, s, tk, k) /\ s.scan = Tools!Outside
  BY <1>1, <1>5 DEF Within
<1> QED  BY <1>2, <1>3, <1>4, <1>5

LEMMA AdvanceFits ==
  ASSUME NEW p \in Seq(Texts), NEW off, NEW tx, Window(p, off, tx),
         NEW pos \in 0..Len(tx), NEW done, NEW tk,
         Fits(p, off, [scan_pos |-> pos, scan |-> scan, object_start |-> object_start,
                       finished |-> done], tk)
  PROVE  /\ Fits(p, off, Tools!Advance(tx, pos, done), tk)
         /\ Tools!Advance(tx, pos, done).scan_pos \in 0..Len(tx)
         /\ Tools!Advance(tx, pos, done).finished = <<>>
              => Tools!Advance(tx, pos, done).scan_pos = Len(tx)
<1> DEFINE now == [scan_pos |-> pos, scan |-> scan, object_start |-> object_start,
                   finished |-> done]
           S == Scanners(tx, done)
           hi == Len(tx)
           next(s, n) == Tools!Step(s, tx[n], tx)
           g == [x \in S \X Nat |-> next(x[1], x[2])]
           Is(f) == f = [n \in pos..hi |-> IF n = pos THEN now ELSE next(f[n - 1], n)]
           after == CHOOSE f : Is(f)
           Good(n, s) == /\ Fits(p, off, s, tk) /\ s.scan_pos \in 0..hi
                         /\ s.finished = <<>> => s.scan_pos = n
<1>1. hi \in Nat /\ pos \in Nat /\ pos <= hi /\ off \in Nat
  BY LenProperties DEF Window
<1>2. now \in S
  <2>1. now.scan \in ScanStates /\ now.object_start \in Int
    BY <1>1, FitsTyped
  <2> QED  BY <1>1, <2>1 DEF Scanners
<1>3. \A s \in S, n \in Nat : g[<<s, n>>] = next(s, n) /\ next(s, n) \in S
  <2>1. \A s \in S : \A n : next(s, n) \in S
    BY StepTyped
  <2> HIDE DEF S, next
  <2> QED  BY <2>1
<1>4. Good(pos, now)
  BY <1>1
<1> HIDE DEF S, now
<1>5. PICK f \in [pos..hi -> S] :
        f = [n \in pos..hi |-> IF n = pos THEN now ELSE g[<<f[n - 1], n>>]]
  <2>1. Closed(S, g, pos, hi)
    <3>1. \A n \in pos + 1..hi : n \in Nat
      BY <1>1
    <3> HIDE DEF g, next
    <3> QED  BY <1>3, <3>1, Zenon DEF Closed
  <2> HIDE DEF g
  <2>2. \E f : Runs(f, S, now, g, pos, hi)
    BY <1>1, <1>2, <2>1, Recursion, Zenon
  <2> QED  BY <2>2 DEF Runs
<1>6. Is(f)
  <2>1. \A n \in pos..hi : n # pos => n \in Nat /\ f[n - 1] \in S
    <3>1. \A n \in pos..hi : n # pos => n \in Nat /\ n - 1 \in pos..hi
      BY <1>1
    <3> QED  BY <3>1
  <2>2. \A n \in pos..hi : f[n] = IF n = pos THEN now ELSE next(f[n - 1], n)
    <3> HIDE DEF g, next
    <3> QED  BY <1>3, <1>5, <2>1
  <2> HIDE DEF g, next
  <2> QED  BY <1>5, <2>2
<1>7. Is(after)
  <2> HIDE DEF Is
  <2> QED  BY <1>6, Zenon
<1>8. Tools!Advance(tx, pos, done) = after[hi]
  BY Zenon DEF Tools!Advance, now
<1> HIDE DEF after
<1>9. after[pos] = now /\ \A n \in pos + 1..hi : after[n] = next(after[n - 1], n)
  <2>1. pos \in pos..hi /\ \A n \in pos + 1..hi : n \in pos..hi /\ n # pos
    BY <1>1
  <2> HIDE DEF next
  <2> QED  BY <1>7, <2>1
<1>10. ASSUME NEW s, NEW n \in pos + 1..hi, Good(n - 1, s) PROVE Good(n, next(s, n))
  <2>1. n \in 1..hi /\ n \in 0..hi
    BY <1>1
  <2>2. PICK k \in Nat : Within(p, off, s, tk, k) \/ Behind(p, off, s, tk, k)
    BY <1>10 DEF Fits
  <2>3. CASE Within(p, off, s, tk, k)
    <3>1. s.finished = <<>> /\ s.scan_pos = n - 1
      BY <1>10, <2>3 DEF Within
    <3>2. Fits(p, off, next(s, n), tk) /\ next(s, n).scan_pos = n
      <4> HIDE DEF hi
      <4> QED  BY <2>1, <2>3, <3>1, StepFits DEF hi
    <3> HIDE DEF next
    <3> QED  BY <2>1, <3>2
  <2>4. CASE Behind(p, off, s, tk, k)
    <3>1. s.finished # <<>>
      <4>1. s.finished = p[k] /\ k \in 1..Len(p) /\ p[k] \in Texts
        BY <2>4, ElementOfSeq DEF Behind
      <4>2. p[k] # <<>>
        BY <4>1, TextsAssumption DEF Texts, Tools!Lexical, Tools!IsObject, Tools!IsProse
      <4> QED  BY <4>1, <4>2
    <3>2. next(s, n) = s
      BY <3>1 DEF Tools!Step
    <3> HIDE DEF next
    <3> QED  BY <1>10, <3>1, <3>2
  <2> QED  BY <2>2, <2>3, <2>4
<1>11. Good(hi, after[hi])
  <2> DEFINE d == hi - pos
             Well == {m \in 0..d : Good(pos + m, after[pos + m])}
  <2>1. d \in Nat /\ pos + d = hi /\ pos + 0 = pos /\ 0 \in 0..d
    BY <1>1
  <2>2. 0 \in Well
    <3> HIDE DEF Good
    <3> QED  BY <1>4, <1>9, <2>1
  <2>3. ASSUME NEW m \in 0..d, m < d, m \in Well PROVE m + 1 \in Well
    <3>1. pos + (m + 1) \in pos + 1..hi /\ (pos + (m + 1)) - 1 = pos + m /\ m + 1 \in 0..d
      BY <1>1, <2>3
    <3> HIDE DEF Good, next
    <3>2. Good(pos + (m + 1), after[pos + (m + 1)])
      BY <1>9, <1>10, <2>3, <3>1
    <3> QED  BY <3>1, <3>2
  <2> HIDE DEF Well, d
  <2>4. d \in Well
    BY <2>1, <2>2, <2>3, Climb, Zenon
  <2>5. Good(pos + d, after[pos + d])
    <3> HIDE DEF Good
    <3> QED  BY <2>4 DEF Well
  <2> HIDE DEF Good
  <2> QED  BY <2>1, <2>5
<1> QED  BY <1>8, <1>11

-----------------------------------------------------------------------------
(***************************************************************************)
(* The accumulator's invariant: its buffer is a stretch of the stream, and *)
(* scanner and takings fit the texts before it.                            *)
(***************************************************************************)
Scanner == [scan_pos |-> scan_pos, scan |-> scan, object_start |-> object_start,
            finished |-> object]

ToolsHold ==
  /\ prose \in Seq(Texts)
  /\ read \in Nat /\ Len(text) <= read
  /\ Window(prose, read - Len(text), text)
  /\ scan_pos \in 0..Len(text)
  /\ Fits(prose, read - Len(text), Scanner, taken)
  /\ object = <<>> /\ ~stalled => scan_pos = Len(text)

LEMMA ToolsLibrary ==
  /\ \A s : Tools!FlattenSeq(s) = FlattenSeq(s)
  /\ \A s, t : Tools!IsPrefix(s, t) = IsPrefix(s, t)
<1>1. \A s : Tools!FlattenSeq(s) = FlattenSeq(s)
  BY DEF Tools!FlattenSeq, FlattenSeq
<1>2. \A s, t : Tools!IsPrefix(s, t) = IsPrefix(s, t)
  BY DEF Tools!IsPrefix, IsPrefix
<1> QED  BY <1>1, <1>2

LEMMA FitsFields ==
  ASSUME NEW p, NEW off, NEW tk, NEW s, NEW r, Fits(p, off, s, tk),
         r.scan_pos = s.scan_pos, r.scan = s.scan, r.object_start = s.object_start,
         r.finished = s.finished
  PROVE  Fits(p, off, r, tk)
<1>1. PICK k \in Nat : Within(p, off, s, tk, k) \/ Behind(p, off, s, tk, k)
  BY DEF Fits
<1>2. Within(p, off, s, tk, k) => Within(p, off, r, tk, k)
  BY Zenon DEF Within
<1>3. Behind(p, off, s, tk, k) => Behind(p, off, r, tk, k)
  BY Zenon DEF Behind
<1> QED  BY <1>1, <1>2, <1>3 DEF Fits

LEMMA TakenFirst == \A p : TakenOf(p, 0) = <<>>
<1>1. \A p : SubSeq(p, 1, 0) = <<>>
  BY SubSeqEmpty
<1> QED  BY <1>1, CollectedEmpty, Zenon DEF TakenOf

LEMMA ToolsBegin == Tools!Init => ToolsHold
<1> SUFFICES ASSUME Tools!Init PROVE ToolsHold
  OBVIOUS
<1>1. prose \in Seq(Texts) /\ 0 \in 0..Len(prose) /\ FlattenSeq(prose) \in Seq(STRING)
  <2>1. PICK n \in 1..MaxTexts : prose \in [1..n -> Texts]
    BY DEF Tools!Init, Texts
  <2>2. prose \in Seq(Texts)
    BY <2>1, LimitsAssumption
  <2> QED  BY <2>2, TextsOf, FlattenType, LenProperties
<1>2. /\ read = 0 /\ text = <<>> /\ scan_pos = 0 /\ scan = Tools!Outside /\ object_start = 0
      /\ object = <<>> /\ taken = <<>>
  BY DEF Tools!Init
<1>3. Len(text) = 0 /\ text \in Seq(STRING) /\ Len(FlattenSeq(prose)) \in Nat
  BY <1>1, <1>2, EmptySeq, LenProperties
<1>4. Window(prose, 0, text)
  <2>1. 0 + Len(text) <= Len(FlattenSeq(prose)) /\ \A i \in 1..Len(text) : FALSE
    BY <1>3
  <2> QED  BY <1>3, <2>1 DEF Window
<1>5. Fits(prose, 0, Scanner, taken)
  <2>1. EndOf(prose, 0) = 0
    BY <1>1, TextsOf, EndsAscend
  <2>2. Within(prose, 0, Scanner, TakenOf(prose, 0), 0)
    <3>1. /\ Scanner.finished = <<>> /\ Scanner.scan = Tools!Outside /\ Scanner.object_start = 0
          /\ Scanner.scan_pos \in Nat /\ 0 + Scanner.scan_pos = 0 /\ 0 \in Nat
      BY <1>2 DEF Scanner
    <3> QED  BY <1>1, <2>1, <3>1, AtEnd
  <2>3. taken = TakenOf(prose, 0)
    BY <1>2, TakenFirst
  <2> QED  BY <2>2, <2>3 DEF Fits
<1>6. read - Len(text) = 0
  <2>1. 0 - 0 = 0
    OBVIOUS
  <2> QED  BY <1>2, <1>3, <2>1, Zenon
<1> QED  BY <1>1, <1>2, <1>3, <1>4, <1>5, <1>6 DEF ToolsHold

LEMMA ToolsBecome ==
  ASSUME NEW a, NEW off, NEW tk, NEW tx,
         prose \in Seq(Texts), Window(prose, off, tx),
         Fits(prose, off, a, tk), a.scan_pos \in 0..Len(tx),
         a.finished = <<>> /\ ~stalled' => a.scan_pos = Len(tx),
         prose' = prose, text' = tx, taken' = tk, Tools!Becomes(a),
         read' \in Nat, read' = off + Len(tx)
  PROVE  ToolsHold'
<1>1. /\ scan_pos' = a.scan_pos /\ scan' = a.scan
      /\ object_start' = a.object_start /\ object' = a.finished
  BY DEF Tools!Becomes
<1>2. off \in Nat /\ Len(tx) \in Nat
  BY LenProperties DEF Window
<1>3. read' - Len(text') = off /\ Len(text') <= read'
  BY <1>2
<1> DEFINE r == [scan_pos |-> scan_pos', scan |-> scan', object_start |-> object_start',
                 finished |-> object']
<1>4. Fits(prose, off, r, tk)
  <2>1. /\ r.scan_pos = a.scan_pos /\ r.scan = a.scan /\ r.object_start = a.object_start
        /\ r.finished = a.finished
    BY <1>1
  <2> HIDE DEF r
  <2> QED  BY <2>1, FitsFields, Zenon
<1>5. Scanner' = r
  BY DEF Scanner
<1> HIDE DEF r
<1>6. /\ prose' \in Seq(Texts) /\ read' \in Nat /\ Len(text') <= read'
      /\ Window(prose', read' - Len(text'), text') /\ scan_pos' \in 0..Len(text')
      /\ Fits(prose', read' - Len(text'), Scanner', taken')
      /\ object' = <<>> /\ ~stalled' => scan_pos' = Len(text')
  BY <1>1, <1>3, <1>4, <1>5
<1> QED  BY <1>6 DEF ToolsHold

LEMMA AppendHolds ==
  ASSUME ToolsHold, NEW n \in Nat, Tools!AppendFragment(n)
  PROVE  ToolsHold'
<1> DEFINE all == FlattenSeq(prose)
           off == read - Len(text)
           more == SubSeq(all, read + 1, read + n)
           tx == text \o more
           a == Tools!Advance(tx, scan_pos, object)
<1>1. /\ prose \in Seq(Texts) /\ read \in Nat /\ Len(text) <= read /\ Window(prose, off, text)
      /\ scan_pos \in 0..Len(text) /\ Fits(prose, off, Scanner, taken)
  BY DEF ToolsHold
<1>2. Tools!Text = all
  BY ToolsLibrary, Zenon DEF Tools!Text
<1>3. /\ read + n <= Len(all) /\ read' = read + n /\ text' = tx /\ Tools!Becomes(a)
      /\ stalled' = FALSE /\ prose' = prose /\ taken' = taken
  <2> HIDE DEF all
  <2> QED  BY <1>2 DEF Tools!AppendFragment
<1>4. /\ all \in Seq(STRING) /\ Len(all) \in Nat /\ text \in Seq(STRING) /\ Len(text) \in Nat
      /\ off \in Nat
  BY <1>1, TextsOf, FlattenType, LenProperties DEF Window
<1>5. /\ more \in Seq(STRING) /\ Len(more) = n
      /\ \A i \in 1..n : more[i] = all[(read + 1) + i - 1]
  <2>1. \A i \in read + 1..read + n : all[i] \in STRING
    <3>1. \A i \in read + 1..read + n : i \in 1..Len(all)
      BY <1>1, <1>3, <1>4
    <3> HIDE DEF all
    <3> QED  BY <1>4, <3>1, ElementOfSeq
  <2>2. IF read + 1 <= read + n THEN (read + n) - (read + 1) + 1 = n ELSE 0 = n
    BY <1>1
  <2>3. (read + n) - (read + 1) + 1 = n
    BY <1>1
  <2> HIDE DEF all
  <2> QED  BY <1>1, <2>1, <2>2, <2>3, SubSeqProperties
<1>6. /\ tx \in Seq(STRING) /\ Len(tx) = Len(text) + n
      /\ \A i \in 1..Len(text) + n :
           tx[i] = IF i <= Len(text) THEN text[i] ELSE more[i - Len(text)]
  <2> HIDE DEF more
  <2> QED  BY <1>4, <1>5, ConcatProperties
<1>7. Window(prose, off, tx)
  <2>1. ASSUME NEW i \in 1..Len(text) + n PROVE tx[i] = all[off + i]
    <3>1. CASE i <= Len(text)
      <4>1. i \in 1..Len(text)
        BY <1>4, <3>1
      <4>2. text[i] = all[off + i]
        BY <1>1, <4>1, Zenon DEF Window
      <4> QED  BY <1>6, <3>1, <4>2, Zenon
    <3>2. CASE ~(i <= Len(text))
      <4>1. i - Len(text) \in 1..n /\ (read + 1) + (i - Len(text)) - 1 = off + i
        BY <1>1, <1>4, <3>2
      <4> HIDE DEF tx, more, all, off
      <4> QED  BY <1>5, <1>6, <3>2, <4>1
    <3> QED  BY <3>1, <3>2
  <2>2. off + (Len(text) + n) <= Len(all)
    BY <1>1, <1>3, <1>4
  <2> HIDE DEF tx, off
  <2> QED  BY <1>4, <1>6, <2>1, <2>2 DEF Window
<1>8. scan_pos \in 0..Len(tx)
  <2> HIDE DEF tx
  <2> QED  BY <1>1, <1>4, <1>6
<1>9. /\ Fits(prose, off, a, taken) /\ a.scan_pos \in 0..Len(tx)
      /\ a.finished = <<>> => a.scan_pos = Len(tx)
  <2> HIDE DEF tx, off
  <2> QED  BY <1>1, <1>7, <1>8, AdvanceFits, Zenon DEF Scanner
<1>10. read' \in Nat /\ read' = off + Len(tx)
  <2> HIDE DEF tx
  <2> QED  BY <1>1, <1>3, <1>4, <1>6
<1> HIDE DEF a, tx, off
<1> QED  BY <1>1, <1>3, <1>7, <1>9, <1>10, ToolsBecome, Zenon

LEMMA TakeHolds ==
  ASSUME ToolsHold, Tools!TakeFinished
  PROVE  ToolsHold'
<1> DEFINE off == read - Len(text)
           tx == SubSeq(text, scan_pos + 1, Len(text))
           here == off + scan_pos
           fresh == [scan_pos |-> 0, scan |-> scan, object_start |-> object_start,
                     finished |-> <<>>]
           valid == object \in CallTexts
           a == IF valid THEN Tools!Advance(tx, 0, <<>>) ELSE fresh
           tk == Append(taken, IF valid THEN object ELSE <<>>)
<1>1. /\ prose \in Seq(Texts) /\ read \in Nat /\ Len(text) <= read /\ Window(prose, off, text)
      /\ scan_pos \in 0..Len(text) /\ Fits(prose, off, Scanner, taken)
  BY DEF ToolsHold
<1>2. /\ object # <<>> /\ text' = tx /\ Tools!Becomes(a) /\ taken' = tk /\ stalled' = ~valid
      /\ prose' = prose /\ read' = read
  BY DEF Tools!TakeFinished
<1>3. /\ text \in Seq(STRING) /\ Len(text) \in Nat /\ off \in Nat /\ here \in Nat
      /\ off + Len(text) <= Len(FlattenSeq(prose))
      /\ \A i \in 1..Len(text) : text[i] = FlattenSeq(prose)[off + i]
  BY <1>1, LenProperties DEF Window
<1>4. /\ tx \in Seq(STRING) /\ Len(tx) = Len(text) - scan_pos
      /\ \A i \in 1..Len(text) - scan_pos : tx[i] = text[scan_pos + i]
  BY <1>1, <1>3, SplitAt, Zenon
<1>5. Window(prose, here, tx)
  <2>1. ASSUME NEW i \in 1..Len(text) - scan_pos PROVE tx[i] = FlattenSeq(prose)[here + i]
    <3>1. scan_pos + i \in 1..Len(text) /\ off + (scan_pos + i) = here + i
      BY <1>1, <1>3
    <3> HIDE DEF tx, off, here
    <3> QED  BY <1>3, <1>4, <3>1
  <2>2. here + (Len(text) - scan_pos) = off + Len(text)
    BY <1>1, <1>3
  <2> HIDE DEF tx, off, here
  <2> QED  BY <1>3, <1>4, <2>1, <2>2 DEF Window
<1>6. PICK k \in Nat : Behind(prose, off, Scanner, taken, k)
  <2>1. ASSUME NEW k \in Nat, Within(prose, off, Scanner, taken, k) PROVE FALSE
    <3>1. Scanner.finished = <<>>
      BY <2>1 DEF Within
    <3> QED  BY <1>2, <3>1 DEF Scanner
  <2> QED  BY <1>1, <2>1, Zenon DEF Fits
<1>7. /\ k \in 1..Len(prose) /\ prose[k][1] = Tools!Open /\ object = prose[k]
      /\ taken = TakenOf(prose, k - 1) /\ here = EndOf(prose, k)
      /\ scan = Tools!Outside /\ object_start = 0
  BY <1>6 DEF Behind, Scanner
<1>8. tk = TakenOf(prose, k)
  <2> DEFINE x == IF valid THEN object ELSE <<>>
  <2>1. prose[k] \in Texts
    BY <1>1, <1>7, ElementOfSeq
  <2>2. Taking[prose[k]] = <<x>>
    BY <1>7, <2>1 DEF Taking
  <2>3. /\ TakenOf(prose, k) = TakenOf(prose, k - 1) \o Taking[prose[k]]
        /\ TakenOf(prose, k - 1) \in Seq(Seq(STRING))
    BY <1>1, <1>7, TakenNext, Zenon
  <2>4. x \in Seq(STRING)
    BY <1>7, <2>1, TextsOf, EmptySeq
  <2> HIDE DEF x
  <2>5. Append(taken, x) = taken \o <<x>>
    BY <1>7, <2>3, <2>4, AppendIsConcat
  <2> QED  BY <1>7, <2>2, <2>3, <2>5, Zenon DEF x
<1>9. Fits(prose, here, fresh, tk)
  <2>1. k \in 0..Len(prose) /\ k \in Nat
    BY <1>1, <1>7, LenProperties
  <2>2. /\ fresh.finished = <<>> /\ fresh.scan = Tools!Outside /\ fresh.object_start = 0
        /\ fresh.scan_pos = 0
    BY <1>7
  <2>3. here + fresh.scan_pos = EndOf(prose, k) /\ fresh.scan_pos \in Nat
    <3> HIDE DEF fresh, here
    <3> QED  BY <1>3, <1>7, <2>2
  <2>4. Within(prose, here, fresh, TakenOf(prose, k), k)
    <3> HIDE DEF fresh, here
    <3> QED  BY <1>1, <1>3, <2>1, <2>2, <2>3, AtEnd, Zenon
  <2> HIDE DEF fresh, here, tk
  <2> QED  BY <1>8, <2>1, <2>4 DEF Fits
<1>10. 0 \in 0..Len(tx)
  <2> HIDE DEF tx
  <2> QED  BY <1>1, <1>3, <1>4
<1>11. /\ Fits(prose, here, a, tk) /\ a.scan_pos \in 0..Len(tx)
       /\ a.finished = <<>> /\ ~stalled' => a.scan_pos = Len(tx)
  <2>1. CASE valid
    <3>1. a = Tools!Advance(tx, 0, <<>>)
      BY <2>1
    <3>2. Fits(prose, here, Tools!Advance(tx, 0, <<>>), tk)
          /\ Tools!Advance(tx, 0, <<>>).scan_pos \in 0..Len(tx)
          /\ (Tools!Advance(tx, 0, <<>>).finished = <<>>
               => Tools!Advance(tx, 0, <<>>).scan_pos = Len(tx))
      <4> HIDE DEF tx, here, tk
      <4> QED  BY <1>1, <1>5, <1>9, <1>10, AdvanceFits, Zenon
    <3> HIDE DEF a, tx, here, tk
    <3> QED  BY <3>1, <3>2, Zenon
  <2>2. CASE ~valid
    <3>1. a = fresh /\ fresh.scan_pos = 0 /\ stalled' = TRUE
      BY <1>2, <2>2
    <3> HIDE DEF a, tx, here, tk, fresh
    <3> QED  BY <1>9, <1>10, <3>1
  <2> QED  BY <2>1, <2>2
<1>12. read' \in Nat /\ read' = here + Len(tx)
  <2> HIDE DEF tx
  <2> QED  BY <1>1, <1>2, <1>3, <1>4
<1> HIDE DEF a, tx, here, off, tk
<1> QED  BY <1>1, <1>2, <1>5, <1>11, <1>12, ToolsBecome, Zenon

LEMMA ToolsOnce == ToolsHold => Tools!EveryCallOnce
<1> SUFFICES ASSUME ToolsHold PROVE Tools!EveryCallOnce
  OBVIOUS
<1> DEFINE all == FlattenSeq(prose)
           off == read - Len(text)
<1>1. /\ prose \in Seq(Texts) /\ read \in Nat /\ Len(text) <= read /\ Window(prose, off, text)
      /\ scan_pos \in 0..Len(text) /\ Fits(prose, off, Scanner, taken)
      /\ object = <<>> /\ ~stalled => scan_pos = Len(text)
  BY DEF ToolsHold
<1>2. Tools!Objects = Collected(Taking, prose)
  <2>1. \A i \in DOMAIN prose : prose[i] \in Texts
    BY <1>1
  <2>2. Mapped(Taking, prose)
          = [i \in DOMAIN prose |->
               IF prose[i][1] # Tools!Open THEN <<>>
               ELSE IF prose[i] \in CallTexts THEN <<prose[i]>> ELSE <<<<>>>>]
    BY <2>1 DEF Mapped, Taking
  <2> QED  BY <2>2, ToolsLibrary, Zenon DEF Tools!Objects, Collected
<1>3. Tools!Text = all
  BY ToolsLibrary, Zenon DEF Tools!Text
<1>4. Len(prose) \in Nat /\ Len(text) \in Nat /\ off \in Nat
  BY <1>1, LenProperties DEF Window
<1>5. \A k \in 0..Len(prose) : IsPrefix(TakenOf(prose, k), Collected(Taking, prose))
  BY <1>1, TextsOf, CollectedPrefixes DEF TakenOf
<1>6. PICK k \in Nat :
        Within(prose, off, Scanner, taken, k) \/ Behind(prose, off, Scanner, taken, k)
  BY <1>1 DEF Fits
<1>7. Tools!IsPrefix(taken, Tools!Objects)
  <2>1. CASE Within(prose, off, Scanner, taken, k)
    <3>1. k \in 0..Len(prose) /\ taken = TakenOf(prose, k)
      BY <2>1 DEF Within
    <3> QED  BY <1>2, <1>5, <3>1, ToolsLibrary, Zenon
  <2>2. CASE Behind(prose, off, Scanner, taken, k)
    <3>1. k \in 1..Len(prose) /\ taken = TakenOf(prose, k - 1)
      BY <2>2 DEF Behind
    <3>2. k - 1 \in 0..Len(prose)
      BY <1>4, <3>1
    <3> QED  BY <1>2, <1>5, <3>1, <3>2, ToolsLibrary, Zenon
  <2> QED  BY <1>6, <2>1, <2>2
<1>8. ASSUME read = Len(all), object = <<>>, ~stalled PROVE taken = Tools!Objects
  <2>1. Within(prose, off, Scanner, taken, k)
    <3>1. ASSUME Behind(prose, off, Scanner, taken, k) PROVE FALSE
      <4>1. object = prose[k] /\ k \in 1..Len(prose) /\ prose[k] \in Texts
        BY <1>1, <3>1, ElementOfSeq DEF Behind, Scanner
      <4>2. prose[k] # <<>>
        BY <4>1, TextsAssumption DEF Texts, Tools!Lexical, Tools!IsObject, Tools!IsProse
      <4> QED  BY <1>8, <4>1, <4>2
    <3> QED  BY <1>6, <3>1
  <2>2. scan_pos = Len(text) /\ off + scan_pos = Len(all)
    BY <1>1, <1>4, <1>8
  <2>3. k \in 0..Len(prose) /\ taken = TakenOf(prose, k)
        /\ (k # Len(prose) => Len(all) - EndOf(prose, k) < Len(prose[k + 1]))
    <3>1. Scanner.scan_pos = scan_pos
      BY DEF Scanner
    <3> HIDE DEF off, all
    <3>2. /\ k \in 0..Len(prose) /\ taken = TakenOf(prose, k)
          /\ k # Len(prose) => off + Scanner.scan_pos - EndOf(prose, k) < Len(prose[k + 1])
      BY <2>1 DEF Within
    <3>3. EndOf(prose, k) \in Nat
      BY <1>1, <3>2, TextsOf, EndsAscend
    <3>4. off + Scanner.scan_pos - EndOf(prose, k) = Len(all) - EndOf(prose, k)
      BY <1>1, <1>4, <2>2, <3>1, <3>3
    <3> QED  BY <3>2, <3>4, Zenon
  <2>4. ASSUME k # Len(prose) PROVE FALSE
    <3>1. k + 1 \in 1..Len(prose) /\ (k + 1) - 1 = k
      BY <1>4, <2>3, <2>4
    <3>2. EndOf(prose, k + 1) = EndOf(prose, (k + 1) - 1) + Len(prose[k + 1])
          /\ Len(prose[k + 1]) \in Nat /\ EndOf(prose, k) \in Nat
      BY <1>1, <2>3, <3>1, TextsOf, EndsAscend
    <3>3. EndOf(prose, k + 1) <= Len(all)
      BY <1>1, <3>1, TextsOf, FlattenPlaces
    <3>4. Len(all) \in Nat
      BY <1>1, TextsOf, FlattenType, LenProperties
    <3> HIDE DEF all
    <3> QED  BY <2>3, <2>4, <3>1, <3>2, <3>3, <3>4
  <2>5. TakenOf(prose, Len(prose)) = Collected(Taking, prose)
    BY <1>1, SubSeqFull DEF TakenOf
  <2> QED  BY <1>2, <2>3, <2>4, <2>5
<1> QED  BY <1>3, <1>7, <1>8 DEF Tools!EveryCallOnce

(***************************************************************************)
(* The accumulator's invariant.                                            *)
(***************************************************************************)
LEMMA ToolsHolds == ProvidersSpec => [](part = "tools" => ToolsHold)
<1> DEFINE Holds == part = "tools" => ToolsHold
<1>1. ProvidersInit => Holds
  BY ToolsBegin DEF ProvidersInit
<1>2. Holds /\ [ProvidersNext]_allVars => Holds'
  <2> SUFFICES ASSUME Holds, [ProvidersNext]_allVars, part' = "tools" PROVE ToolsHold'
    OBVIOUS
  <2>1. CASE UNCHANGED allVars
    BY <2>1 DEF allVars, toolVars, ToolsHold, Scanner
  <2>2. CASE part = "tools" /\ Tools!Next
    <3>1. ToolsHold
      BY <2>2
    <3>2. ASSUME NEW n \in 1..Len(Tools!Text), Tools!AppendFragment(n) PROVE ToolsHold'
      <4>1. n \in Nat
        <5>1. prose \in Seq(Texts) /\ Tools!Text = FlattenSeq(prose)
          BY <3>1, ToolsLibrary, Zenon DEF ToolsHold, Tools!Text
        <5>2. Len(Tools!Text) \in Nat
          BY <5>1, TextsOf, FlattenType, LenProperties
        <5> QED  BY <5>2
      <4> QED  BY <3>1, <3>2, <4>1, AppendHolds
    <3> QED  BY <2>2, <3>1, <3>2, TakeHolds DEF Tools!Next
  <2> QED  BY <2>1, <2>2 DEF ProvidersNext
<1> HIDE DEF Holds
<1>3. ProvidersSpec => []Holds
  BY <1>1, <1>2, PTL DEF ProvidersSpec
<1> QED  BY <1>3 DEF Holds

(***************************************************************************)
(* However the stream is cut into fragments and whenever calls are taken:  *)
(* every object of it is taken once, whole and in its order (append,       *)
(* advance, take_finished of the accumulator).                             *)
(***************************************************************************)
THEOREM EveryCallOnceCorrect == ProvidersSpec => []EveryCallOnce
<1>1. (part = "tools" => ToolsHold) => EveryCallOnce
  BY ToolsOnce DEF EveryCallOnce
<1> QED  BY <1>1, ToolsHolds, PTL

(***************************************************************************)
(* The accumulator's type invariant, a consequence of the same fact.       *)
(***************************************************************************)
LEMMA PlaceType ==
  ASSUME NEW t \in Texts, NEW n \in 0..Len(t), NEW at, Reached(at, t, n)
  PROVE  /\ at.in \in {"Outside", "Object", "String", "Escape"} /\ at.depth \in Nat
         /\ n = 0 => at = Tools!Outside
<1>1. Tools!IsObject(t) \/ (Tools!IsProse(t) /\ t \notin CallTexts)
  BY TextsAssumption DEF Texts, Tools!Lexical
<1>2. CASE Tools!IsObject(t)
  <2>1. Tools!Nesting(t)[n] \in Nat /\ (n = 0 => Tools!Nesting(t)[n] = 0)
    BY <1>2, ObjectNesting
  <2>2. \A q : Place(q) \in {"Object", "String", "Escape"}
    BY DEF Place
  <2> QED  BY <2>1, <2>2 DEF Reached, Tools!In, Tools!Outside
<1>3. CASE Tools!IsProse(t)
  <2>1. t[1] # Tools!Open
    <3>1. 1 \in 1..Len(t)
      BY <1>3, EmptySeq, LenProperties DEF Tools!IsProse
    <3> QED  BY <1>3, <3>1 DEF Tools!IsProse
  <2> QED  BY <2>1 DEF Reached, Tools!Outside
<1> QED  BY <1>1, <1>2, <1>3

LEMMA ToolsTyped ==
  ASSUME ToolsHold
  PROVE  Tools!TypeOK
<1> DEFINE off == read - Len(text)
<1>1. /\ prose \in Seq(Texts) /\ read \in Nat /\ Len(text) <= read
      /\ Window(prose, off, text) /\ scan_pos \in 0..Len(text)
      /\ Fits(prose, off, Scanner, taken)
  BY DEF ToolsHold
<1>2. off \in Nat /\ text \in Seq(STRING) /\ off + Len(text) <= Len(FlattenSeq(prose))
  BY <1>1 DEF Window
<1>3. Len(text) \in Nat /\ read = off + Len(text)
  BY <1>1, <1>2, LenProperties
<1>4. /\ Scanner.scan_pos = scan_pos /\ Scanner.scan = scan
      /\ Scanner.object_start = object_start /\ Scanner.finished = object
  BY DEF Scanner
<1> HIDE DEF off
<1>5. read \in 0..Len(Tools!Text)
  <2>1. Tools!Text = FlattenSeq(prose)
    BY ToolsLibrary, Zenon DEF Tools!Text
  <2>2. FlattenSeq(prose) \in Seq(STRING)
    BY <1>1, TextsOf, FlattenType
  <2>3. Len(FlattenSeq(prose)) \in Nat
    BY <2>2, LenProperties
  <2> QED  BY <1>1, <1>2, <1>3, <2>1, <2>3
<1> DEFINE Shape == /\ scan.in \in {"Outside", "Object", "String", "Escape"} /\ scan.depth \in Nat
                    /\ object_start \in 0..Len(text)
                    /\ (scan = Tools!Outside) = (object_start = 0)
<1>6. ASSUME scan = Tools!Outside, object_start = 0 PROVE Shape
  BY <1>3, <1>6 DEF Tools!Outside
<1>7. PICK k \in Nat : Within(prose, off, Scanner, taken, k) \/ Behind(prose, off, Scanner, taken, k)
  BY <1>1 DEF Fits
<1>8. CASE Behind(prose, off, Scanner, taken, k)
  <2>1. scan = Tools!Outside /\ object_start = 0
    BY <1>4, <1>8 DEF Behind
  <2> QED  BY <1>1, <1>5, <1>6, <2>1 DEF Tools!TypeOK
<1>9. CASE Within(prose, off, Scanner, taken, k)
  <2> DEFINE n == off + scan_pos - EndOf(prose, k)
  <2>1. /\ k \in 0..Len(prose) /\ n \in Nat
        /\ IF k = Len(prose) THEN n = 0 /\ scan = Tools!Outside
           ELSE n < Len(prose[k + 1]) /\ Reached(scan, prose[k + 1], n)
        /\ IF scan = Tools!Outside THEN object_start = 0
           ELSE off <= EndOf(prose, k) /\ object_start = EndOf(prose, k) + 1 - off
    BY <1>4, <1>9 DEF Within
  <2>2. CASE scan = Tools!Outside
    BY <1>1, <1>5, <1>6, <2>1, <2>2 DEF Tools!TypeOK
  <2>3. CASE scan # Tools!Outside
    <3> DEFINE t == prose[k + 1]
    <3>1. k # Len(prose) /\ n < Len(t) /\ Reached(scan, t, n)
      BY <2>1, <2>3
    <3>2. t \in Texts
      <4>1. k + 1 \in 1..Len(prose)
        BY <1>1, <2>1, <3>1, LenProperties
      <4> QED  BY <1>1, <4>1, ElementOfSeq
    <3>3. Len(t) \in Nat
      <4>1. t \in Seq(STRING)
        BY <3>2, ReachedFirst, ReachedOutside DEF Texts
      <4> QED  BY <4>1, LenProperties
    <3>4. n \in 0..Len(t)
      BY <2>1, <3>1, <3>3
    <3>5. scan.in \in {"Outside", "Object", "String", "Escape"} /\ scan.depth \in Nat /\ n # 0
      <4> HIDE DEF t, n
      <4> QED  BY <2>3, <3>1, <3>2, <3>4, PlaceType
    <3> DEFINE e == EndOf(prose, k)
    <3>6. off <= e /\ object_start = e + 1 - off /\ n = off + scan_pos - e
      BY <2>1, <2>3
    <3>7. e \in Nat
      <4>1. prose \in Seq(Seq(STRING))
        BY <1>1, TextsOf
      <4> QED  BY <2>1, <4>1, EndsAscend DEF EndOf
    <3> HIDE DEF e, t, n
    <3>8. object_start \in 0..Len(text) /\ object_start # 0
      BY <1>1, <1>2, <1>3, <2>1, <3>5, <3>6, <3>7
    <3> QED  BY <1>1, <1>5, <2>3, <3>5, <3>8 DEF Tools!TypeOK
  <2> QED  BY <2>2, <2>3
<1> QED  BY <1>7, <1>8, <1>9

(***************************************************************************)
(* Type invariant: no more of the stream is read than there is, the        *)
(* scanner stays inside the buffered text, and an object is open exactly   *)
(* while the scanner is in one (scan_pos, object_start of the              *)
(* accumulator).                                                           *)
(***************************************************************************)
THEOREM AccumulatorTypeCorrect == ProvidersSpec => [](part = "tools" => Tools!TypeOK)
<1>1. (part = "tools" => ToolsHold) => (part = "tools" => Tools!TypeOK)
  BY ToolsTyped
<1> QED  BY <1>1, ToolsHolds, PTL

-----------------------------------------------------------------------------
USE DEF user, GoesTo, EndsWith

(***************************************************************************)
(* The gate has one of three answers.                                      *)
(***************************************************************************)
LEMMA GateAnswers ==
  ASSUME policy \in Policies, NEW endpoint
  PROVE  Gate(endpoint) \in {"Allow", "RequireApproval", "Block"}
<1>1. policy.permissions["network"] \in {"Allow", "RequireApproval", "Block"}
  BY PolicyAssumption DEF Sandbox!Operation, Sandbox!AccessLevel
<1> QED  BY <1>1 DEF Gate, Sandbox!CheckNetwork, Sandbox!Check

LEMMA PairsType ==
  ASSUME NEW providers, NEW keys \in [Ref -> Key \cup {None}]
  PROVE  Pairs(providers, keys) \subseteq Endpoint \X (Key \cup {None})
  BY RefAssumption DEF Pairs, Endpoint

LEMMA RefusalType ==
  ASSUME NEW provider, NEW named, NEW conv, NEW families
  PROVE  Refusal(provider, named, conv, families)
           \in {"ProviderError", "Unsupported", "InvalidRequest", None}
  BY DEF Refusal

LEMMA BuildErrorType ==
  ASSUME NEW provider, NEW key
  PROVE  BuildError(provider, key) \in {"InvalidRequest", "Auth", "Other", None}
  BY DEF BuildError

(***************************************************************************)
(* The inductive invariant: a call past its first poll has its provider    *)
(* and its key, and what the gate has said of it still holds when it is    *)
(* sent; the policy never changes, approvals and pairs are never taken     *)
(* back.                                                                   *)
(***************************************************************************)
InHand(c) ==
  /\ calls[c].at \notin {"idle", "ended"} => calls[c].provider \in Config
  /\ calls[c].at \in {"asking", "cleared"} =>
       /\ calls[c].key \in Key
       /\ ~calls[c].stale => <<calls[c].provider.endpoint, calls[c].key>> \in paired
  /\ calls[c].at = "asking" => Gate(calls[c].provider.endpoint) = "RequireApproval"
  /\ calls[c].at = "cleared" =>
       \/ Gate(calls[c].provider.endpoint) = "Allow"
       \/ Gate(calls[c].provider.endpoint) = "RequireApproval" /\ c \in approved

IInv ==
  /\ TypeOK
  /\ Pairs(registry, secrets) \subseteq paired
  /\ \A c \in Caller : InHand(c)
  /\ LeaveBeforeSend
  /\ KeysStayHome

LEMMA InitIInv == Init => IInv
<1> SUFFICES ASSUME Init PROVE IInv
  OBVIOUS
<1>1. Unused \in Call
  BY DEF Unused, Call, At
<1>3. TypeOK
  BY <1>1, BoundsAssumption DEF Init, TypeOK
<1>2. Pairs(registry, secrets) = {}
  <2> SUFFICES ASSUME NEW config \in Config, NEW id \in Id, registry[id] = config PROVE FALSE
    BY DEF Pairs
  <2> QED  BY NoneAssumption DEF Init
<1> QED  BY <1>2, <1>3 DEF Init, Unused, IInv, InHand, LeaveBeforeSend, KeysStayHome

(***************************************************************************)
(* Steps that change one call and send nothing.                            *)
(***************************************************************************)
LEMMA OneCall ==
  ASSUME IInv, NEW c \in Caller, NEW call \in Call,
         calls' = [calls EXCEPT ![c] = call],
         UNCHANGED <<registry, secrets, policy, sent, paired, edits, rotations>>,
         approved \subseteq approved' /\ approved' \subseteq Caller,
         InHand(c)'
  PROVE  IInv'
<1> USE DEF IInv
<1>1. TypeOK'
  BY DEF TypeOK
<1>2. Pairs(registry, secrets)' \subseteq paired'
  BY DEF Pairs
<1>3. ASSUME NEW d \in Caller PROVE InHand(d)'
  <2>1. CASE d = c
    BY <2>1
  <2>2. CASE d # c
    <3>1. calls'[d] = calls[d]
      BY <2>2 DEF TypeOK
    <3>2. Gate(calls[d].provider.endpoint)' = Gate(calls[d].provider.endpoint)
      BY <3>1 DEF Gate, Sandbox!CheckNetwork, Sandbox!Check
    <3> QED  BY <3>1, <3>2 DEF InHand
  <2> QED  BY <2>1, <2>2
<1>4. LeaveBeforeSend'
  BY DEF LeaveBeforeSend, Gate, Sandbox!CheckNetwork, Sandbox!Check
<1>5. KeysStayHome'
  BY DEF KeysStayHome
<1> QED  BY <1>1, <1>2, <1>3, <1>4, <1>5

(***************************************************************************)
(* A step that moves on a call it has in hand, or ends it.                 *)
(***************************************************************************)
LEMMA MovesOn ==
  ASSUME IInv, NEW c \in Caller, NEW at \in At \ {"idle", "asking", "cleared"},
         NEW outcome \in Outcome \cup {None}, NEW status \in Status \cup {0},
         calls[c].at \notin {"idle", "ended"},
         calls' = [calls EXCEPT ![c] =
                     [calls[c] EXCEPT !.at = at, !.outcome = outcome, !.status = status]],
         UNCHANGED <<user, policy, sent, approved>>
  PROVE  IInv'
<1> DEFINE call == [calls[c] EXCEPT !.at = at, !.outcome = outcome, !.status = status]
<1>1. calls[c] \in Call
  BY DEF IInv, TypeOK
<1>2. call \in Call /\ call.at = at /\ call.provider = calls[c].provider
  BY <1>1 DEF Call
<1> HIDE DEF call
<1>3. calls' = [calls EXCEPT ![c] = call]
  BY DEF call
<1>4. calls'[c] = call
  BY <1>3 DEF IInv, TypeOK
<1>5. InHand(c)'
  BY <1>2, <1>4 DEF IInv, InHand, At
<1>6. approved \subseteq approved' /\ approved' \subseteq Caller
  BY DEF IInv, TypeOK
<1> QED  BY <1>2, <1>3, <1>5, <1>6, OneCall

LEMMA EndsInv ==
  ASSUME IInv, NEW c \in Caller, NEW outcome \in Outcome \cup {None},
         calls[c].at \notin {"idle", "ended"}, EndsWith(c, outcome),
         UNCHANGED <<user, policy, sent, approved>>
  PROVE  IInv'
<1>1. calls[c] \in Call
  BY DEF IInv, TypeOK
<1>2. calls' = [calls EXCEPT ![c] = [calls[c] EXCEPT !.at = "ended", !.outcome = outcome,
                                                     !.status = calls[c].status]]
  <2> DEFINE call == [calls[c] EXCEPT !.at = "ended", !.outcome = outcome]
  <2>1. call = [calls[c] EXCEPT !.at = "ended", !.outcome = outcome, !.status = calls[c].status]
    BY <1>1 DEF Call
  <2>2. calls' = [calls EXCEPT ![c] = call]
    BY <1>1 DEF IInv, TypeOK
  <2> QED  BY <2>1, <2>2
<1>3. calls[c].status \in Status \cup {0}
  BY <1>1 DEF Call
<1>4. "ended" \in At \ {"idle", "asking", "cleared"}
  BY DEF At
<1> QED  BY <1>2, <1>3, <1>4, MovesOn

(***************************************************************************)
(* The user's steps change no call; pairs only grow, and by those that are *)
(* now together.                                                           *)
(***************************************************************************)
LEMMA UserInv ==
  ASSUME IInv, UNCHANGED <<policy, calls, sent, approved>>, TypeOK',
         paired \subseteq paired', Pairs(registry, secrets)' \subseteq paired'
  PROVE  IInv'
<1>1. ASSUME NEW c \in Caller PROVE InHand(c)'
  BY DEF IInv, InHand, Gate, Sandbox!CheckNetwork, Sandbox!Check
<1>2. LeaveBeforeSend'
  BY DEF IInv, LeaveBeforeSend, Gate, Sandbox!CheckNetwork, Sandbox!Check
<1>3. KeysStayHome'
  BY DEF IInv, KeysStayHome
<1> QED  BY <1>1, <1>2, <1>3 DEF IInv

LEMMA RegisterInv == ASSUME IInv, NEW config \in Config, Register(config) PROVE IInv'
<1>1. Pairs(registry', secrets) \subseteq Endpoint \X (Key \cup {None})
  BY PairsType DEF IInv, TypeOK
<1>2. TypeOK'
  <2>1. registry' \in [Id -> Config \cup {None}] /\ paired' \subseteq Endpoint \X (Key \cup {None})
    BY <1>1 DEF IInv, TypeOK, Register
  <2>2. edits' \in 0..MaxEdits
    BY BoundsAssumption DEF IInv, TypeOK, Register
  <2> QED  BY <2>1, <2>2 DEF IInv, TypeOK, Register
<1>3. Pairs(registry, secrets)' \subseteq paired' /\ paired \subseteq paired'
  BY DEF Register, Pairs
<1> QED  BY <1>2, <1>3, UserInv DEF Register

LEMMA RemoveInv == ASSUME IInv, NEW id \in Id, RemoveProvider(id) PROVE IInv'
<1>1. TypeOK'
  BY DEF IInv, TypeOK, RemoveProvider
<1>2. Pairs(registry, secrets)' \subseteq paired'
  <2>1. ASSUME NEW config \in Config, NEW other \in Id, registry'[other] = config
        PROVE  registry[other] = config
    BY <2>1, NoneAssumption DEF RemoveProvider, IInv, TypeOK
  <2>2. Pairs(registry', secrets) \subseteq Pairs(registry, secrets)
    BY <2>1 DEF Pairs
  <2> QED  BY <2>2 DEF RemoveProvider, IInv, Pairs
<1> QED  BY <1>1, <1>2, UserInv DEF RemoveProvider

LEMMA StoreKeyInv ==
  ASSUME IInv, NEW ref \in Ref, NEW key \in Key \cup {None}, StoreKey(ref, key)
  PROVE  IInv'
<1>1. secrets' \in [Ref -> Key \cup {None}]
  BY DEF IInv, TypeOK, StoreKey
<1>2. Pairs(registry, secrets') \subseteq Endpoint \X (Key \cup {None})
  BY <1>1, PairsType
<1>3. TypeOK'
  <2>1. paired' \subseteq Endpoint \X (Key \cup {None})
    BY <1>2 DEF IInv, TypeOK, StoreKey
  <2>2. rotations' \in 0..MaxRotations
    BY BoundsAssumption DEF IInv, TypeOK, StoreKey
  <2> QED  BY <1>1, <2>1, <2>2 DEF IInv, TypeOK, StoreKey
<1>4. Pairs(registry, secrets)' \subseteq paired' /\ paired \subseteq paired'
  BY DEF StoreKey, Pairs
<1> QED  BY <1>3, <1>4, UserInv DEF StoreKey

-----------------------------------------------------------------------------
(***************************************************************************)
(* A call begins.                                                          *)
(***************************************************************************)
LEMMA BeginInv ==
  ASSUME IInv, NEW c \in Caller, NEW call \in Call,
         call.at \in {"called", "ended"}, call.provider \in Config,
         calls' = [calls EXCEPT ![c] = call],
         UNCHANGED <<user, policy, sent, approved>>
  PROVE  IInv'
<1>1. InHand(c)'
  BY DEF IInv, TypeOK, InHand
<1>2. approved \subseteq approved' /\ approved' \subseteq Caller
  BY DEF IInv, TypeOK
<1> QED  BY <1>1, <1>2, OneCall

LEMMA ChatStreamInv ==
  ASSUME IInv, NEW c \in Caller, NEW id \in Id, NEW named, NEW conv, NEW families,
         ChatStream(c, id, named, conv, families)
  PROVE  IInv'
<1> DEFINE refusal == Refusal(registry[id], named, conv, families)
           at == IF refusal = None THEN "called" ELSE "ended"
           provider == registry[id]
           call == [Unused EXCEPT !.at = at, !.provider = provider, !.outcome = refusal]
<1>1. refusal \in Outcome \cup {None}
  BY RefusalType DEF Outcome
<1>2. provider \in Config /\ at \in {"called", "ended"}
  BY DEF ChatStream, IInv, TypeOK
<1>3. calls' = [calls EXCEPT ![c] = call]
  BY DEF ChatStream
<1> HIDE DEF refusal, at, provider
<1>4. call \in Call /\ call.at = at /\ call.provider = provider
  BY <1>1, <1>2 DEF Unused, Call, At
<1> HIDE DEF call
<1> QED  BY <1>2, <1>3, <1>4, BeginInv DEF ChatStream

LEMMA ListModelsInv ==
  ASSUME IInv, NEW c \in Caller, NEW id \in Id, ListModels(c, id)
  PROVE  IInv'
<1> DEFINE at == IF registry[id].kind = "anthropic" THEN "ended" ELSE "called"
           outcome == IF registry[id].kind = "anthropic" THEN "listed" ELSE None
           provider == registry[id]
           call == [Unused EXCEPT !.what = "models", !.provider = provider, !.at = at,
                                  !.outcome = outcome]
<1>1. outcome \in Outcome \cup {None} /\ at \in {"called", "ended"}
  BY DEF Outcome
<1>2. provider \in Config
  BY DEF ListModels, IInv, TypeOK
<1>3. calls' = [calls EXCEPT ![c] = call]
  BY DEF ListModels
<1> HIDE DEF outcome, at, provider
<1>4. call \in Call /\ call.at = at /\ call.provider = provider
  BY <1>1, <1>2 DEF Unused, Call, At
<1> HIDE DEF call
<1> QED  BY <1>1, <1>2, <1>3, <1>4, BeginInv DEF ListModels

(***************************************************************************)
(* The first poll: the key is read under the provider's reference, and the *)
(* two are together if the provider is the registered one.                 *)
(***************************************************************************)
LEMMA OpenInv == ASSUME IInv, NEW c \in Caller, Open(c) PROVE IInv'
<1> DEFINE provider == calls[c].provider
           key == secrets[provider.ref]
           leave == Gate(provider.endpoint)
           next == [Allow |-> "cleared", RequireApproval |-> "asking", Block |-> "ended"][leave]
           outcome == IF leave = "Block" THEN "Auth" ELSE None
           stale == registry[provider.id] # provider
           call == [calls[c] EXCEPT !.at = next, !.key = key, !.stale = stale,
                                    !.outcome = outcome]
<1>1. calls[c] \in Call /\ calls[c].at = "called" /\ provider \in Config
  BY DEF Open, IInv, TypeOK, InHand
<1>2. key \in Key
  BY <1>1, RefAssumption DEF Open, IInv, TypeOK
<1>3. leave \in {"Allow", "RequireApproval", "Block"}
  BY GateAnswers DEF IInv, TypeOK
<1>4. CASE BuildError(provider, key) # None
  <2>1. EndsWith(c, BuildError(provider, key))
    BY <1>4 DEF Open
  <2>2. BuildError(provider, key) \in Outcome
    BY <1>4, BuildErrorType DEF Outcome
  <2> QED  BY <1>1, <2>1, <2>2, EndsInv DEF Open
<1>5. CASE BuildError(provider, key) = None
  <2>1. calls' = [calls EXCEPT ![c] = call]
    BY <1>1, <1>5 DEF Open, IInv, TypeOK
  <2>2. /\ leave = "Allow" => next = "cleared"
        /\ leave = "RequireApproval" => next = "asking"
        /\ leave = "Block" => next = "ended"
    OBVIOUS
  <2>3. next \in At /\ outcome \in Outcome \cup {None}
    BY <1>3, <2>2 DEF At, Outcome
  <2> HIDE DEF next, outcome, stale, key
  <2>4. /\ call \in Call /\ call.at = next /\ call.provider = provider
        /\ call.key = key /\ call.stale = (stale)
    BY <1>1, <1>2, <2>3 DEF Call, stale
  <2>5. ~stale => <<provider.endpoint, key>> \in paired
    <3>1. SUFFICES ASSUME ~stale PROVE <<provider.endpoint, key>> \in paired
      OBVIOUS
    <3>2. registry[provider.id] = provider /\ provider.id \in Id
      BY <1>1, <3>1 DEF stale, Id
    <3>3. <<provider.endpoint, key>> \in Pairs(registry, secrets)
      BY <1>1, <3>2 DEF Pairs, key
    <3> QED  BY <3>3 DEF IInv
  <2>6. calls'[c] = call
    BY <2>1 DEF IInv, TypeOK
  <2>7. Gate(provider.endpoint)' = leave
    BY <2>4, <2>6 DEF Open, Gate, Sandbox!CheckNetwork, Sandbox!Check
  <2> HIDE DEF call, provider, leave
  <2>8. InHand(c)'
    <3>1. calls'[c].provider = provider /\ calls'[c].at = next /\ calls'[c].key = key
          /\ calls'[c].stale = (stale) /\ paired' = paired
      BY <2>4, <2>6 DEF Open
    <3>2. next \in {"cleared", "asking", "ended"}
      BY <1>3, <2>2
    <3>3. Gate(calls[c].provider.endpoint)' = leave
      BY <2>7 DEF provider
    <3> QED  BY <1>1, <1>2, <1>3, <2>2, <2>5, <3>1, <3>2, <3>3 DEF InHand
  <2>9. approved \subseteq approved' /\ approved' \subseteq Caller
    BY DEF Open, IInv, TypeOK
  <2> QED  BY <2>1, <2>4, <2>8, <2>9, OneCall DEF Open
<1> QED  BY <1>4, <1>5

-----------------------------------------------------------------------------
(***************************************************************************)
(* The prompt: approval is recorded before the call may be sent; every     *)
(* other answer, and silence, ends it.                                     *)
(***************************************************************************)
LEMMA ApproveInv == ASSUME IInv, NEW c \in Caller, Approve(c) PROVE IInv'
<1> DEFINE call == [calls[c] EXCEPT !.at = "cleared"]
<1>1. calls[c] \in Call /\ calls[c].at = "asking" /\ InHand(c)
  BY DEF Approve, IInv, TypeOK
<1>2. calls' = [calls EXCEPT ![c] = call]
  BY DEF Approve
<1>3. /\ call \in Call /\ call.at = "cleared" /\ call.provider = calls[c].provider
      /\ call.key = calls[c].key /\ call.stale = calls[c].stale
  BY <1>1 DEF Call, At
<1> HIDE DEF call
<1>4. calls'[c] = call
  BY <1>2 DEF IInv, TypeOK
<1>5. Gate(calls[c].provider.endpoint)' = Gate(calls[c].provider.endpoint)
  BY <1>3, <1>4 DEF Approve, Gate, Sandbox!CheckNetwork, Sandbox!Check
<1>6. InHand(c)'
  BY <1>1, <1>3, <1>4, <1>5 DEF InHand, Approve
<1>7. approved \subseteq approved' /\ approved' \subseteq Caller
  BY DEF Approve, IInv, TypeOK
<1> QED  BY <1>2, <1>3, <1>6, <1>7, OneCall DEF Approve

LEMMA PromptEndsInv ==
  ASSUME IInv, NEW c \in Caller, NoKey(c) \/ Deny(c) \/ ApprovalTimeout(c) \/ SendFails(c)
  PROVE  IInv'
<1>1. {"Auth", "Network", "InvalidRequest"} \subseteq Outcome
  BY DEF Outcome
<1>2. CASE NoKey(c)
  BY <1>1, <1>2, EndsInv DEF NoKey
<1>3. CASE Deny(c)
  BY <1>1, <1>3, EndsInv DEF Deny
<1>4. CASE ApprovalTimeout(c)
  BY <1>1, <1>4, EndsInv DEF ApprovalTimeout
<1>5. CASE SendFails(c)
  BY <1>1, <1>5, EndsInv DEF SendFails
<1> QED  BY <1>2, <1>3, <1>4, <1>5

(***************************************************************************)
(* The request that goes out is the one the gate has let pass, with the    *)
(* key that was read at the first poll.                                    *)
(***************************************************************************)
LEMMA SendInv == ASSUME IInv, NEW c \in Caller, Send(c) PROVE IInv'
<1> DEFINE request == [caller |-> c, endpoint |-> calls[c].provider.endpoint,
                       key |-> calls[c].key, stale |-> calls[c].stale]
           call == [calls[c] EXCEPT !.at = "waiting"]
<1>1. calls[c] \in Call /\ calls[c].at = "cleared" /\ InHand(c)
  BY DEF Send, IInv, TypeOK
<1>2. sent' = sent \cup {request} /\ calls' = [calls EXCEPT ![c] = call]
  BY DEF Send
<1>3. call \in Call /\ call.at = "waiting" /\ call.provider = calls[c].provider
  BY <1>1 DEF Call, At
<1>4. request \in [caller : Caller, endpoint : Endpoint, key : Key, stale : BOOLEAN]
  BY <1>1 DEF InHand, Endpoint, Call
<1>5. /\ request.caller = c /\ request.endpoint = calls[c].provider.endpoint
      /\ request.key = calls[c].key /\ request.stale = calls[c].stale
  OBVIOUS
<1> HIDE DEF request, call
<1>6. TypeOK'
  BY <1>2, <1>3, <1>4 DEF Send, IInv, TypeOK
<1>7. Pairs(registry, secrets)' \subseteq paired'
  BY DEF Send, IInv, Pairs
<1>8. ASSUME NEW endpoint PROVE Gate(endpoint)' = Gate(endpoint')
  BY DEF Send, Gate, Sandbox!CheckNetwork, Sandbox!Check
<1>9. ASSUME NEW d \in Caller PROVE InHand(d)'
  <2>1. CASE d = c
    <3>1. calls'[d] = call
      BY <1>2, <2>1 DEF IInv, TypeOK
    <3> QED  BY <1>1, <1>3, <3>1, <2>1 DEF InHand
  <2>2. CASE d # c
    <3>1. calls'[d] = calls[d]
      BY <1>2, <2>2 DEF IInv, TypeOK
    <3>2. Gate(calls[d].provider.endpoint)' = Gate(calls[d].provider.endpoint)
      BY <3>1 DEF Send, Gate, Sandbox!CheckNetwork, Sandbox!Check
    <3> QED  BY <3>1, <3>2 DEF InHand, IInv, Send
  <2> QED  BY <2>1, <2>2
<1>10. LeaveBeforeSend'
  <2> SUFFICES ASSUME NEW r \in sent'
               PROVE  \/ Gate(r.endpoint)' = "Allow"
                      \/ Gate(r.endpoint)' = "RequireApproval" /\ r.caller \in approved
    BY DEF LeaveBeforeSend, Send
  <2>1. Gate(r.endpoint)' = Gate(r.endpoint)
    BY DEF Send, Gate, Sandbox!CheckNetwork, Sandbox!Check
  <2>2. CASE r \in sent
    BY <2>1, <2>2 DEF IInv, LeaveBeforeSend
  <2>3. CASE r = request
    BY <1>1, <1>5, <2>1, <2>3 DEF InHand
  <2> QED  BY <1>2, <2>2, <2>3
<1>11. KeysStayHome'
  BY <1>1, <1>2, <1>5 DEF InHand, IInv, KeysStayHome, Send
<1> QED  BY <1>6, <1>7, <1>9, <1>10, <1>11 DEF IInv

-----------------------------------------------------------------------------
(***************************************************************************)
(* The server's steps, what the adapters make of them, and a caller that   *)
(* goes away.                                                              *)
(***************************************************************************)
LEMMA RespondInv ==
  ASSUME IInv, NEW c \in Caller, NEW status \in Status, Respond(c, status)
  PROVE  IInv'
<1> DEFINE at == IF ~Success(status) THEN "failing"
                 ELSE IF calls[c].what = "models" THEN "reading" ELSE "ended"
           outcome == IF Success(status) /\ calls[c].what = "chat" THEN "opened" ELSE None
           call == [calls[c] EXCEPT !.status = status, !.at = at, !.outcome = outcome]
<1>1. calls[c] \in Call
  BY DEF IInv, TypeOK
<1>2. at \in At \ {"idle", "asking", "cleared"} /\ outcome \in Outcome \cup {None}
  BY DEF At, Outcome
<1>3. calls' = [calls EXCEPT ![c] = call]
  BY DEF Respond
<1> HIDE DEF at, outcome
<1>4. call = [calls[c] EXCEPT !.at = at, !.outcome = outcome, !.status = status]
  BY <1>1 DEF Call
<1> HIDE DEF call
<1>5. calls' = [calls EXCEPT ![c] =
                  [calls[c] EXCEPT !.at = at, !.outcome = outcome, !.status = status]]
  BY <1>3, <1>4
<1>6. /\ status \in Status \cup {0} /\ calls[c].at \notin {"idle", "ended"}
      /\ UNCHANGED <<user, policy, sent, approved>>
  BY DEF Respond
<1> QED  BY <1>2, <1>5, <1>6, MovesOn

LEMMA AnswersInv ==
  ASSUME IInv, NEW c \in Caller,
         Disconnect(c) \/ ReadError(c) \/ (\E w \in BOOLEAN : ReadModels(c, w)) \/ Cancel(c)
  PROVE  IInv'
<1>1. CASE Disconnect(c)
  BY <1>1, EndsInv DEF Disconnect, Outcome
<1>2. CASE ReadError(c)
  <2> DEFINE outcome == IF calls[c].provider.kind = "openai" THEN OpenAiError(calls[c].status)
                        ELSE AnthropicError(calls[c].status)
  <2>1. outcome \in Outcome
    BY DEF OpenAiError, AnthropicError, Outcome
  <2>2. /\ EndsWith(c, outcome) /\ calls[c].at = "failing"
        /\ UNCHANGED <<user, policy, sent, approved>>
    BY <1>2 DEF ReadError
  <2> HIDE DEF outcome
  <2> QED  BY <2>1, <2>2, EndsInv
<1>3. ASSUME NEW w \in BOOLEAN, ReadModels(c, w) PROVE IInv'
  <2> DEFINE outcome == IF ~w THEN "ProviderError"
                        ELSE IF calls[c].provider.flaw = "filter" THEN "InvalidRequest"
                        ELSE "listed"
  <2>1. outcome \in Outcome
    BY DEF Outcome
  <2>2. /\ EndsWith(c, outcome) /\ calls[c].at = "reading"
        /\ UNCHANGED <<user, policy, sent, approved>>
    BY <1>3 DEF ReadModels
  <2> HIDE DEF outcome
  <2> QED  BY <2>1, <2>2, EndsInv
<1>4. CASE Cancel(c)
  BY <1>4, EndsInv DEF Cancel, Outcome
<1> QED  BY <1>1, <1>2, <1>3, <1>4

-----------------------------------------------------------------------------
LEMMA NextIInv == ASSUME IInv, [Next]_vars PROVE IInv'
<1>1. ASSUME NEW config \in Config, Register(config) PROVE IInv'
  BY <1>1, RegisterInv
<1>2. ASSUME NEW id \in Id, RemoveProvider(id) PROVE IInv'
  BY <1>2, RemoveInv
<1>3. ASSUME NEW ref \in Ref, NEW key \in Key \cup {None}, StoreKey(ref, key) PROVE IInv'
  BY <1>3, StoreKeyInv
<1>4. ASSUME NEW c \in Caller, NEW id \in Id, NEW named \in Id \cup {"anthropic"},
             NEW conv \in Conversation, NEW families \in Family,
             ChatStream(c, id, named, conv, families)
      PROVE  IInv'
  BY <1>4, ChatStreamInv
<1>5. ASSUME NEW c \in Caller, NEW id \in Id, ListModels(c, id) PROVE IInv'
  BY <1>5, ListModelsInv
<1>6. ASSUME NEW c \in Caller, Advance(c) PROVE IInv'
  <2>1. \/ Open(c) \/ Approve(c) \/ Send(c)
        \/ NoKey(c) \/ Deny(c) \/ ApprovalTimeout(c) \/ SendFails(c)
    BY <1>6 DEF Advance
  <2> QED  BY <2>1, OpenInv, ApproveInv, PromptEndsInv, SendInv
<1>7. ASSUME NEW c \in Caller, NEW status \in Status, Respond(c, status) PROVE IInv'
  BY <1>7, RespondInv
<1>8. ASSUME NEW c \in Caller, Disconnect(c) \/ ReadError(c)
               \/ (\E w \in BOOLEAN : ReadModels(c, w)) \/ Cancel(c)
      PROVE  IInv'
  BY <1>8, AnswersInv
<1>9. CASE UNCHANGED vars
  <2>1. \A c \in Caller : InHand(c)'
    BY <1>9 DEF IInv, InHand, Gate, Sandbox!CheckNetwork, Sandbox!Check, vars
  <2>2. LeaveBeforeSend'
    BY <1>9 DEF IInv, LeaveBeforeSend, Gate, Sandbox!CheckNetwork, Sandbox!Check, vars
  <2>3. TypeOK' /\ KeysStayHome' /\ Pairs(registry, secrets)' \subseteq paired'
    BY <1>9 DEF IInv, TypeOK, KeysStayHome, Pairs, vars
  <2> QED  BY <2>1, <2>2, <2>3 DEF IInv
<1>10. SUFFICES ASSUME Next PROVE IInv'
  BY <1>9
<1> QED  BY <1>1, <1>2, <1>3, <1>4, <1>5, <1>6, <1>7, <1>8, <1>10 DEF Next

(***************************************************************************)
(* The other parts of the provider layer leave this one alone.             *)
(***************************************************************************)
LEMMA EgressHolds == ProvidersSpec => []IInv
<1>1. ProvidersInit => Init
  BY DEF ProvidersInit, EgressIdle
<1>2. [ProvidersNext]_allVars => [Next]_vars
  BY DEF ProvidersNext, allVars, egressVars
<1> QED  BY <1>1, <1>2, InitIInv, NextIInv, PTL DEF ProvidersSpec

(***************************************************************************)
(* Every reachable state is one of the type: in particular a request that  *)
(* was sent carries a stored key and goes to a configured endpoint.        *)
(***************************************************************************)
THEOREM EgressTypeCorrect == ProvidersSpec => []TypeOK
<1>1. IInv => TypeOK
  BY DEF IInv
<1> QED  BY <1>1, EgressHolds, PTL

(***************************************************************************)
(* Whatever the policy, the providers and the order of answers, a request  *)
(* leaves only with the policy's permission or the user's approval of this *)
(* call, given before the prompt timed out.                                *)
(***************************************************************************)
THEOREM LeaveCorrect == ProvidersSpec => []LeaveBeforeSend
<1>1. IInv => LeaveBeforeSend
  BY DEF IInv
<1> QED  BY <1>1, EgressHolds, PTL

(***************************************************************************)
(* A key goes only where some configuration has brought it together with   *)
(* the endpoint, unless the adapter was no longer the registered one when  *)
(* it read the key.                                                        *)
(***************************************************************************)
THEOREM KeysCorrect == ProvidersSpec => []KeysStayHome
<1>1. IInv => KeysStayHome
  BY DEF IInv
<1> QED  BY <1>1, EgressHolds, PTL

=============================================================================
