---------------------------- MODULE Streams_proofs ----------------------------
(***************************************************************************)
(* Proofs about the two chat streams, for every response and every way to  *)
(* cut it: that nothing which has arrived is lost, and that one terminal   *)
(* item ends a stream.  First the Anthropic adapter's, then the            *)
(* OpenAI-compatible one's, then both as parts of the provider layer, and  *)
(* at the end both as implementations of ChatStream.                       *)
(***************************************************************************)
EXTENDS Providers, Lists_proofs

-----------------------------------------------------------------------------
(***************************************************************************)
(* The stream of the Anthropic adapter.  The lines of a response.          *)
(***************************************************************************)
Line == Anthropic!Lines
Event == {Anthropic!Plain} \cup [kind : {"tool"}, call : Ids, named : BOOLEAN]
LineKind == {"plain", "quiet", "start", "json", "block_stop", "message_stop", "malformed", "blank"}

LEMMA LineKinds ==
  ASSUME NEW l \in Line
  PROVE  /\ l.kind \in LineKind
         /\ l.kind = "plain" => l = Anthropic!Plain
         /\ l.kind = "quiet" => l = Anthropic!Quiet
         /\ l.kind = "message_stop" <=> l = Anthropic!MessageStop
         /\ l.kind = "malformed" <=> l = Anthropic!Malformed
         /\ l.kind = "blank" <=> l = Anthropic!Blank
         /\ l.kind = "start" => l.index \in Indices /\ l.id \in Ids
         /\ l.kind = "json" => l.index \in Indices
         /\ l.kind = "block_stop" => l.index \in Indices
<1> USE DEF Anthropic!Plain, Anthropic!Quiet, Anthropic!MessageStop, Anthropic!Malformed,
            Anthropic!Blank, LineKind
<1>1. CASE l \in {Anthropic!Plain, Anthropic!Quiet, Anthropic!MessageStop, Anthropic!Malformed,
                  Anthropic!Blank}
  BY <1>1
<1>2. ASSUME NEW i \in Indices, NEW id \in Ids, l = Anthropic!Start(i, id) PROVE l.kind = "start" /\ l.index = i /\ l.id = id
  BY <1>2 DEF Anthropic!Start
<1>3. ASSUME NEW i \in Indices, l = Anthropic!Json(i) PROVE l.kind = "json" /\ l.index = i
  BY <1>3 DEF Anthropic!Json
<1>4. ASSUME NEW i \in Indices, l = Anthropic!BlockStop(i) PROVE l.kind = "block_stop" /\ l.index = i
  BY <1>4 DEF Anthropic!BlockStop
<1>5. \/ l \in {Anthropic!Plain, Anthropic!Quiet, Anthropic!MessageStop, Anthropic!Malformed,
                Anthropic!Blank}
      \/ \E i \in Indices, id \in Ids : l = Anthropic!Start(i, id)
      \/ \E i \in Indices : l = Anthropic!Json(i)
      \/ \E i \in Indices : l = Anthropic!BlockStop(i)
  <2> HIDE DEF Anthropic!Plain, Anthropic!Quiet, Anthropic!MessageStop, Anthropic!Malformed,
            Anthropic!Blank, LineKind
  <2> QED  BY DEF Line, Anthropic!Lines
<1>6. CASE \E i \in Indices, id \in Ids : l = Anthropic!Start(i, id)
  BY <1>2, <1>6
<1>7. CASE \E i \in Indices : l = Anthropic!Json(i)
  BY <1>3, <1>7
<1>8. CASE \E i \in Indices : l = Anthropic!BlockStop(i)
  BY <1>4, <1>8
<1> QED  BY <1>1, <1>5, <1>6, <1>7, <1>8

(***************************************************************************)
(* A set of numbers up to n that is not empty has a greatest one, and Max  *)
(* and Min choose the greatest and the least.                              *)
(***************************************************************************)
LEMMA GreatestNumber ==
  ASSUME NEW n \in Nat, NEW S \in SUBSET (0..n), S # {}
  PROVE  \E x \in S : \A y \in S : y <= x
<1> DEFINE R == {n - x : x \in S}
<1>1. R \in SUBSET Nat /\ R # {}
  <2>1. \A x \in S : n - x \in Nat
    OBVIOUS
  <2> QED  BY <2>1
<1>2. PICK r \in R : \A y \in R : r <= y
  <2> HIDE DEF R
  <2> QED  BY <1>1, LeastNumber
<1>3. PICK x \in S : r = n - x
  OBVIOUS
<1>4. ASSUME NEW y \in S PROVE y <= x
  <2>1. n - y \in R
    OBVIOUS
  <2> HIDE DEF R
  <2>2. n - x <= n - y
    BY <1>2, <1>3, <2>1
  <2>3. x \in Nat /\ y \in Nat
    OBVIOUS
  <2> QED  BY <2>2, <2>3
<1> QED  BY <1>3, <1>4

LEMMA Extremes ==
  ASSUME NEW n \in Nat, NEW S \in SUBSET (0..n), S # {}
  PROVE  /\ Anthropic!Max(S) \in S /\ \A y \in S : y <= Anthropic!Max(S)
         /\ Anthropic!Min(S) \in S /\ \A y \in S : Anthropic!Min(S) <= y
<1>1. \E x \in S : \A y \in S : x >= y
  BY GreatestNumber
<1>2. \E x \in S : \A y \in S : x <= y
  <2>1. S \in SUBSET Nat
    OBVIOUS
  <2> QED  BY <2>1, LeastNumber
<1>3. Anthropic!Max(S) \in S /\ \A y \in S : Anthropic!Max(S) >= y
  BY <1>1 DEF Anthropic!Max
<1>4. Anthropic!Min(S) \in S /\ \A y \in S : Anthropic!Min(S) <= y
  BY <1>2 DEF Anthropic!Min
<1>5. \A y \in S : y \in Int
  OBVIOUS
<1> QED  BY <1>3, <1>4, <1>5

(***************************************************************************)
(* The call whose block is open at an index after the first d lines.       *)
(***************************************************************************)
Marks(ls, d, i) == {j \in 1..d : ls[j].kind \in {"start", "block_stop"} /\ ls[j].index = i}
Owner(ls, d, i) ==
  IF Marks(ls, d, i) = {} THEN NoId
  ELSE IF ls[Anthropic!Max(Marks(ls, d, i))].kind = "start"
       THEN ls[Anthropic!Max(Marks(ls, d, i))].id ELSE NoId

LEMMA OwnerType ==
  ASSUME NEW ls \in Seq(Line), NEW d \in 0..Len(ls), NEW i
  PROVE  Owner(ls, d, i) \in Ids \cup {NoId}
<1>1. CASE Marks(ls, d, i) # {}
  <2> DEFINE S == Marks(ls, d, i)
             m == Anthropic!Max(S)
  <2>1. d \in Nat /\ S \in SUBSET (0..d)
    BY LenProperties DEF Marks
  <2>2. m \in S
    <3> HIDE DEF S
    <3> QED  BY <1>1, <2>1, Extremes DEF S
  <2>3. m \in 1..d /\ 1..d \subseteq 1..Len(ls)
    BY <2>2, LenProperties DEF Marks
  <2>4. ls[m] \in Line
    <3> HIDE DEF m
    <3> QED  BY <2>3, ElementOfSeq
  <2>5. ls[m].kind = "start" => ls[m].id \in Ids
    <3> HIDE DEF m
    <3> QED  BY <2>4, LineKinds
  <2> QED  BY <2>5 DEF Owner
<1> QED  BY <1>1 DEF Owner

LEMMA OwnerFirst == \A ls, i : Owner(ls, 0, i) = NoId
  BY DEF Owner, Marks

LEMMA OwnerNext ==
  ASSUME NEW ls \in Seq(Line), NEW d \in 0..Len(ls), d < Len(ls), NEW i
  PROVE  Owner(ls, d + 1, i) =
           IF ls[d + 1].kind \in {"start", "block_stop"} /\ ls[d + 1].index = i
           THEN IF ls[d + 1].kind = "start" THEN ls[d + 1].id ELSE NoId
           ELSE Owner(ls, d, i)
<1> DEFINE S == Marks(ls, d, i)
           R == Marks(ls, d + 1, i)
           here == ls[d + 1].kind \in {"start", "block_stop"} /\ ls[d + 1].index = i
<1>1. d \in Nat /\ d + 1 \in Nat /\ 1..d + 1 = 1..d \cup {d + 1}
  BY LenProperties
<1>2. R = IF here THEN S \cup {d + 1} ELSE S
  BY <1>1 DEF Marks
<1>3. R \in SUBSET (0..d + 1)
  BY <1>1 DEF Marks
<1>4. CASE here
  <2>1. d + 1 \in R
    BY <1>2, <1>4
  <2>2. Anthropic!Max(R) \in R /\ \A y \in R : y <= Anthropic!Max(R)
    <3> HIDE DEF R
    <3> QED  BY <1>1, <1>3, <2>1, Extremes
  <2>3. Anthropic!Max(R) = d + 1
    <3>1. Anthropic!Max(R) \in 0..d + 1 /\ d + 1 <= Anthropic!Max(R)
      <4> HIDE DEF R
      <4> QED  BY <1>3, <2>1, <2>2
    <3> HIDE DEF R
    <3> QED  BY <1>1, <3>1
  <2>4. R # {}
    BY <2>1
  <2> HIDE DEF R
  <2> QED  BY <1>4, <2>3, <2>4 DEF Owner, R
<1>5. CASE ~here
  <2>1. R = S
    BY <1>2, <1>5
  <2> HIDE DEF R, S
  <2> QED  BY <1>5, <2>1, Zenon DEF Owner, R, S
<1> QED  BY <1>4, <1>5

LEMMA LastMarkIs ==
  ASSUME NEW ls \in Seq(Line), NEW k \in 1..Len(ls), ls[k].kind = "json"
  PROVE  /\ Anthropic!LastMark(ls, k).kind = "block_stop" <=> Owner(ls, k - 1, ls[k].index) = NoId
         /\ Owner(ls, k - 1, ls[k].index) # NoId
              => Anthropic!LastMark(ls, k).id = Owner(ls, k - 1, ls[k].index)
<1> DEFINE i == ls[k].index
           S == Marks(ls, k - 1, i)
           m == Anthropic!Max(S)
<1>1. Anthropic!LastMark(ls, k) = IF S = {} THEN Anthropic!BlockStop(i) ELSE ls[m]
  BY DEF Anthropic!LastMark, Marks
<1>2. CASE S = {}
  BY <1>1, <1>2 DEF Owner, Anthropic!BlockStop
<1>3. CASE S # {}
  <2>1. k - 1 \in Nat /\ S \in SUBSET (0..k - 1)
    BY LenProperties DEF Marks
  <2>2. m \in S
    <3> HIDE DEF S
    <3> QED  BY <1>3, <2>1, Extremes DEF S
  <2>3. m \in 1..Len(ls) /\ ls[m].kind \in {"start", "block_stop"}
    BY <2>2, LenProperties DEF Marks
  <2>4. ls[m] \in Line
    <3> HIDE DEF m
    <3> QED  BY <2>3, ElementOfSeq
  <2>5. ls[m].kind = "start" => ls[m].id # NoId
    <3> HIDE DEF m
    <3> QED  BY <2>4, LineKinds, IdsAssumption
  <2>6. Owner(ls, k - 1, i) = IF ls[m].kind = "start" THEN ls[m].id ELSE NoId
    BY <1>3 DEF Owner
  <2> HIDE DEF m, S
  <2> QED  BY <1>1, <1>3, <2>3, <2>5, <2>6
<1> QED  BY <1>2, <1>3

(***************************************************************************)
(* What the first d lines came to when none of them ends the stream: the   *)
(* events that were yielded, and the open blocks.                          *)
(***************************************************************************)
Stopping(ls, k) == ls[k] = Anthropic!MessageStop \/ Anthropic!InError(ls, k)

Decoded(ls, d, o, map) ==
  /\ d \in 0..Len(ls)
  /\ \A k \in 1..d : ~Stopping(ls, k)
  /\ o = Anthropic!Yielded(ls, d)
  /\ map = [i \in Indices |-> Owner(ls, d, i)]

LEMMA EventTools == \A id \in Ids, named \in BOOLEAN : Anthropic!Tool(id, named) \in Event
  BY DEF Event, Anthropic!Tool

LEMMA YieldsType ==
  ASSUME NEW ls \in Seq(Line), NEW k \in 1..Len(ls), ~Stopping(ls, k)
  PROVE  /\ Anthropic!Yields(ls, k) \in Seq(Event)
         /\ ls[k].kind = "plain" => Anthropic!Yields(ls, k) = <<Anthropic!Plain>>
         /\ ls[k].kind = "start"
              => Anthropic!Yields(ls, k) = <<Anthropic!Tool(ls[k].id, TRUE)>>
         /\ ls[k].kind = "json"
              => /\ Owner(ls, k - 1, ls[k].index) \in Ids
                 /\ Anthropic!Yields(ls, k)
                      = <<Anthropic!Tool(Owner(ls, k - 1, ls[k].index), FALSE)>>
         /\ ls[k].kind \notin {"plain", "start", "json"} => Anthropic!Yields(ls, k) = <<>>
<1>1. ls[k] \in Line
  BY ElementOfSeq
<1>2. \A e \in Event : <<e>> \in Seq(Event)
  OBVIOUS
<1>3. CASE ls[k].kind = "plain"
  <2>1. Anthropic!Yields(ls, k) = <<Anthropic!Plain>>
    BY <1>1, <1>3, LineKinds DEF Anthropic!Yields, Anthropic!EventAt
  <2> QED  BY <1>2, <1>3, <2>1 DEF Event
<1>4. CASE ls[k].kind = "start"
  <2>1. Anthropic!Yields(ls, k) = <<Anthropic!Tool(ls[k].id, TRUE)>>
    BY <1>4 DEF Anthropic!Yields, Anthropic!EventAt
  <2>2. Anthropic!Tool(ls[k].id, TRUE) \in Event
    <3>1. ls[k].id \in Ids /\ TRUE \in BOOLEAN
      BY <1>1, <1>4, LineKinds
    <3> QED  BY <3>1, EventTools, Zenon
  <2> QED  BY <1>2, <1>4, <2>1, <2>2
<1>5. CASE ls[k].kind = "json"
  <2> DEFINE own == Owner(ls, k - 1, ls[k].index)
  <2>1. own # NoId /\ Anthropic!LastMark(ls, k).id = own
    BY <1>5, LastMarkIs DEF Stopping, Anthropic!InError
  <2>2. own \in Ids
    <3>1. k - 1 \in 0..Len(ls)
      BY LenProperties
    <3> QED  BY <2>1, <3>1, OwnerType
  <2>3. Anthropic!Yields(ls, k) = <<Anthropic!Tool(own, FALSE)>>
    BY <1>5, <2>1 DEF Anthropic!Yields, Anthropic!EventAt
  <2>4. Anthropic!Tool(own, FALSE) \in Event
    <3>1. FALSE \in BOOLEAN
      OBVIOUS
    <3> QED  BY <2>2, <3>1, EventTools, Zenon
  <2> QED  BY <1>2, <1>5, <2>2, <2>3, <2>4
<1>6. CASE ls[k].kind \notin {"plain", "start", "json"}
  <2>1. Anthropic!Yields(ls, k) = <<>>
    BY <1>6 DEF Anthropic!Yields
  <2> QED  BY <1>6, <2>1, EmptySeq
<1> QED  BY <1>3, <1>4, <1>5, <1>6

LEMMA AnthropicLibrary ==
  /\ \A s : Anthropic!FlattenSeq(s) = FlattenSeq(s)
  /\ \A s : Anthropic!Front(s) = Front(s) /\ Anthropic!Last(s) = Last(s)
  /\ \A s : Anthropic!Range(s) = Range(s)
  /\ \A s, t : Anthropic!IsPrefix(s, t) = IsPrefix(s, t)
<1>1. \A s : Anthropic!FlattenSeq(s) = FlattenSeq(s)
  BY DEF Anthropic!FlattenSeq, FlattenSeq
<1>2. \A s : Anthropic!Front(s) = Front(s) /\ Anthropic!Last(s) = Last(s)
  BY DEF Anthropic!Front, Anthropic!Last, Front, Last
<1>3. \A s : Anthropic!Range(s) = Range(s)
  BY DEF Anthropic!Range, Range
<1>4. \A s, t : Anthropic!IsPrefix(s, t) = IsPrefix(s, t)
  BY DEF Anthropic!IsPrefix, IsPrefix
<1> QED  BY <1>1, <1>2, <1>3, <1>4

LEMMA YieldedFirst == \A ls : Anthropic!Yielded(ls, 0) = <<>>
<1>1. \A ls : [k \in 1..0 |-> Anthropic!Yields(ls, k)] = <<>>
  OBVIOUS
<1> QED  BY <1>1, AnthropicLibrary, FlattenEmpty, Zenon DEF Anthropic!Yielded

LEMMA YieldedNext ==
  ASSUME NEW ls \in Seq(Line), NEW d \in 0..Len(ls), \A k \in 1..d : ~Stopping(ls, k)
  PROVE  /\ Anthropic!Yielded(ls, d) \in Seq(Event)
         /\ d < Len(ls) /\ ~Stopping(ls, d + 1)
              => Anthropic!Yielded(ls, d + 1)
                   = Anthropic!Yielded(ls, d) \o Anthropic!Yields(ls, d + 1)
<1> DEFINE f(n) == [k \in 1..n |-> Anthropic!Yields(ls, k)]
<1>1. Len(ls) \in Nat /\ d \in Nat /\ d + 1 \in Nat
  BY LenProperties
<1>2. \A n : Anthropic!Yielded(ls, n) = FlattenSeq(f(n))
  BY AnthropicLibrary, Zenon DEF Anthropic!Yielded
<1>3. \A k \in 1..d : Anthropic!Yields(ls, k) \in Seq(Event)
  <2>1. \A k \in 1..d : k \in 1..Len(ls)
    BY <1>1
  <2> QED  BY <2>1, YieldsType
<1>4. f(d) \in Seq(Seq(Event)) /\ Len(f(d)) = d
  <2>1. f(d) = [k \in 1..d |-> f(d)[k]] /\ \A k \in 1..d : f(d)[k] \in Seq(Event)
    BY <1>3
  <2> QED  BY <1>1, <2>1, ListOf
<1>5. ASSUME d < Len(ls), ~Stopping(ls, d + 1)
      PROVE  FlattenSeq(f(d + 1)) = FlattenSeq(f(d)) \o Anthropic!Yields(ls, d + 1)
  <2>1. d + 1 \in 1..Len(ls) /\ \A k \in 1..d + 1 : k \in 1..d \/ k = d + 1
    BY <1>1, <1>5
  <2>2. \A k \in 1..d + 1 : Anthropic!Yields(ls, k) \in Seq(Event)
    BY <1>3, <1>5, <2>1, YieldsType
  <2>3. f(d + 1) \in Seq(Seq(Event)) /\ Len(f(d + 1)) = d + 1
    <3>1. f(d + 1) = [k \in 1..d + 1 |-> f(d + 1)[k]]
          /\ \A k \in 1..d + 1 : f(d + 1)[k] \in Seq(Event)
      BY <2>2
    <3> QED  BY <1>1, <3>1, ListOf
  <2>4. f(d + 1)[d + 1] = Anthropic!Yields(ls, d + 1)
        /\ \A k \in 1..d : f(d + 1)[k] = f(d)[k]
    BY <1>1
  <2> HIDE DEF f
  <2> QED  BY <1>4, <2>3, <2>4, FlattenExtend
<1> HIDE DEF f
<1> QED  BY <1>2, <1>4, <1>5, FlattenType, Zenon

(***************************************************************************)
(* All of this depends on the first lines only.                            *)
(***************************************************************************)
Agree(a, b, d) ==
  /\ a \in Seq(Line) /\ b \in Seq(Line)
  /\ d \in 0..Len(a) /\ d \in 0..Len(b) /\ \A k \in 1..d : a[k] = b[k]

LEMMA AgreeMarks ==
  ASSUME NEW a, NEW b, NEW d, Agree(a, b, d), NEW n \in 0..d, NEW i
  PROVE  /\ Marks(a, n, i) = Marks(b, n, i)
         /\ Marks(a, n, i) # {} => a[Anthropic!Max(Marks(a, n, i))] = b[Anthropic!Max(Marks(a, n, i))]
         /\ Owner(a, n, i) = Owner(b, n, i)
<1> DEFINE S == Marks(a, n, i)
<1>1. d \in Nat /\ n \in Nat /\ \A k \in 1..n : a[k] = b[k]
  BY LenProperties DEF Agree
<1>2. S = Marks(b, n, i)
  BY <1>1 DEF Marks
<1>3. S # {} => a[Anthropic!Max(S)] = b[Anthropic!Max(S)]
  <2>1. S \in SUBSET (0..n) /\ \A j \in S : j \in 1..n
    BY <1>1 DEF Marks
  <2> HIDE DEF S
  <2> QED  BY <1>1, <2>1, Extremes
<1> HIDE DEF S
<1>4. Owner(a, n, i) = Owner(b, n, i)
  BY <1>2, <1>3 DEF Owner, S
<1> QED  BY <1>2, <1>3, <1>4 DEF S

LEMMA AgreeLines ==
  ASSUME NEW a, NEW b, NEW d, Agree(a, b, d)
  PROVE  /\ \A k \in 1..d : /\ Stopping(a, k) <=> Stopping(b, k)
                            /\ Anthropic!Yields(a, k) = Anthropic!Yields(b, k)
         /\ Anthropic!Yielded(a, d) = Anthropic!Yielded(b, d)
<1>1. ASSUME NEW k \in 1..d
      PROVE  Anthropic!LastMark(a, k) = Anthropic!LastMark(b, k) /\ a[k] = b[k]
  <2>1. a[k] = b[k]
    BY DEF Agree
  <2> DEFINE i == a[k].index
             S == Marks(a, k - 1, i)
  <2>2. k - 1 \in 0..d
    BY LenProperties DEF Agree
  <2>3. S = Marks(b, k - 1, i) /\ (S # {} => a[Anthropic!Max(S)] = b[Anthropic!Max(S)])
    BY <2>2, AgreeMarks
  <2>4. /\ Anthropic!LastMark(a, k) = IF S = {} THEN Anthropic!BlockStop(i) ELSE a[Anthropic!Max(S)]
        /\ Anthropic!LastMark(b, k)
             = IF Marks(b, k - 1, i) = {} THEN Anthropic!BlockStop(i)
               ELSE b[Anthropic!Max(Marks(b, k - 1, i))]
    BY <2>1 DEF Anthropic!LastMark, Marks
  <2> HIDE DEF S
  <2> QED  BY <2>1, <2>3, <2>4
<1>2. ASSUME NEW k \in 1..d
      PROVE  /\ Stopping(a, k) <=> Stopping(b, k)
             /\ Anthropic!Yields(a, k) = Anthropic!Yields(b, k)
  <2>1. Stopping(a, k) <=> Stopping(b, k)
    BY <1>1, Zenon DEF Stopping, Anthropic!InError
  <2>2. Anthropic!EventAt(a, k) = Anthropic!EventAt(b, k)
    BY <1>1, Zenon DEF Anthropic!EventAt
  <2> QED  BY <1>1, <2>1, <2>2, Zenon DEF Anthropic!Yields
<1>3. [k \in 1..d |-> Anthropic!Yields(a, k)] = [k \in 1..d |-> Anthropic!Yields(b, k)]
  BY <1>2
<1> QED  BY <1>2, <1>3, Zenon DEF Anthropic!Yielded

LEMMA DecodedAgree ==
  ASSUME NEW a, NEW b, NEW d, Agree(a, b, d), NEW o, NEW map, Decoded(a, d, o, map)
  PROVE  Decoded(b, d, o, map)
<1>1. d \in 0..d /\ d \in 0..Len(b)
  BY LenProperties DEF Agree
<1>2. ASSUME NEW i PROVE Owner(a, d, i) = Owner(b, d, i)
  BY <1>1, AgreeMarks
<1>3. [i \in Indices |-> Owner(a, d, i)] = [i \in Indices |-> Owner(b, d, i)]
  BY <1>2
<1> QED  BY <1>1, <1>3, AgreeLines, Zenon DEF Decoded

(***************************************************************************)
(* One more line.                                                          *)
(***************************************************************************)
LEMMA DecodedStops ==
  ASSUME NEW ls \in Seq(Line), NEW d, NEW o, NEW map, Decoded(ls, d, o, map), d < Len(ls),
         Stopping(ls, d + 1)
  PROVE  Anthropic!Item(map, ls[d + 1])
           = <<IF ls[d + 1] = Anthropic!MessageStop THEN DoneItem ELSE ErrItem>>
<1> DEFINE l == ls[d + 1]
<1>1. d \in 0..Len(ls) /\ d + 1 \in 1..Len(ls) /\ (d + 1) - 1 = d
  BY LenProperties DEF Decoded
<1>2. l \in Line
  BY <1>1, ElementOfSeq
<1>3. Anthropic!DoneItem = DoneItem /\ Anthropic!ErrItem = ErrItem
  BY DEF Anthropic!DoneItem, DoneItem, Anthropic!ErrItem, ErrItem
<1>4. CASE l.kind = "json"
  <2>1. l # Anthropic!MessageStop
    BY <1>2, <1>4, LineKinds
  <2>2. l # Anthropic!Malformed
    BY <1>2, <1>4, LineKinds
  <2>3. Anthropic!LastMark(ls, d + 1).kind = "block_stop"
    BY <2>1, <2>2 DEF Stopping, Anthropic!InError
  <2>4. Owner(ls, d, l.index) = NoId /\ l.index \in Indices
    BY <1>1, <1>2, <1>4, <2>3, LastMarkIs, LineKinds
  <2>5. map[l.index] = NoId
    BY <2>4 DEF Decoded
  <2>6. Anthropic!Item(map, l) = <<ErrItem>>
    <3> HIDE DEF l
    <3> QED  BY <1>3, <1>4, <2>5 DEF Anthropic!Item
  <2> QED  BY <2>1, <2>6
<1>5. CASE l.kind # "json"
  <2>1. l = Anthropic!MessageStop \/ l = Anthropic!Malformed
    BY <1>5 DEF Stopping, Anthropic!InError
  <2>2. CASE l = Anthropic!MessageStop
    <3>1. Anthropic!Item(map, l) = <<DoneItem>>
      <4> HIDE DEF l
      <4> QED  BY <1>3, <2>2 DEF Anthropic!Item, Anthropic!MessageStop
    <3> QED  BY <2>2, <3>1
  <2>3. CASE l = Anthropic!Malformed
    <3>1. Anthropic!Item(map, l) = <<ErrItem>>
      <4> HIDE DEF l
      <4> QED  BY <1>3, <2>3 DEF Anthropic!Item, Anthropic!Malformed
    <3>2. Anthropic!Malformed # Anthropic!MessageStop
      BY DEF Anthropic!Malformed, Anthropic!MessageStop
    <3> QED  BY <2>3, <3>1, <3>2
  <2> QED  BY <2>1, <2>2, <2>3
<1> QED  BY <1>4, <1>5

LEMMA DecodedNext ==
  ASSUME NEW ls \in Seq(Line), NEW d, NEW o, NEW map, Decoded(ls, d, o, map), d < Len(ls),
         ~Stopping(ls, d + 1)
  PROVE  /\ Anthropic!Item(map, ls[d + 1]) \in Seq(Event)
         /\ Decoded(ls, d + 1, o \o Anthropic!Item(map, ls[d + 1]), Anthropic!IndexMap(map, ls[d + 1]))
<1> DEFINE l == ls[d + 1]
           own == Owner(ls, d, l.index)
<1>1. d \in 0..Len(ls) /\ d + 1 \in 1..Len(ls) /\ (d + 1) - 1 = d /\ d + 1 \in 0..Len(ls)
      /\ \A k \in 1..d + 1 : k \in 1..d \/ k = d + 1
  BY LenProperties DEF Decoded
<1>2. l \in Line
  BY <1>1, ElementOfSeq
<1>3. l.kind \in LineKind /\ l.kind # "message_stop" /\ l.kind # "malformed"
      /\ (l.kind \in {"start", "json", "block_stop"} => l.index \in Indices)
  <2>1. l # Anthropic!MessageStop /\ l # Anthropic!Malformed
    BY DEF Stopping, Anthropic!InError
  <2> QED  BY <1>2, <2>1, LineKinds
<1>4. /\ Anthropic!Yields(ls, d + 1) \in Seq(Event)
      /\ l.kind = "plain" => Anthropic!Yields(ls, d + 1) = <<Anthropic!Plain>>
      /\ l.kind = "start" => Anthropic!Yields(ls, d + 1) = <<Anthropic!Tool(l.id, TRUE)>>
      /\ l.kind = "json" => /\ own \in Ids
                            /\ Anthropic!Yields(ls, d + 1) = <<Anthropic!Tool(own, FALSE)>>
      /\ l.kind \notin {"plain", "start", "json"} => Anthropic!Yields(ls, d + 1) = <<>>
  <2>1. \A k \in 1..Len(ls) : ~Stopping(ls, k) =>
          /\ Anthropic!Yields(ls, k) \in Seq(Event)
          /\ ls[k].kind = "plain" => Anthropic!Yields(ls, k) = <<Anthropic!Plain>>
          /\ ls[k].kind = "start"
               => Anthropic!Yields(ls, k) = <<Anthropic!Tool(ls[k].id, TRUE)>>
          /\ ls[k].kind = "json"
               => /\ Owner(ls, k - 1, ls[k].index) \in Ids
                  /\ Anthropic!Yields(ls, k)
                       = <<Anthropic!Tool(Owner(ls, k - 1, ls[k].index), FALSE)>>
          /\ ls[k].kind \notin {"plain", "start", "json"} => Anthropic!Yields(ls, k) = <<>>
    BY YieldsType
  <2>2. Owner(ls, (d + 1) - 1, ls[d + 1].index) = own
    BY <1>1, Zenon
  <2> HIDE DEF own
  <2> QED  BY <1>1, <2>1, <2>2
<1>5. \A i \in Indices : map[i] = Owner(ls, d, i)
  BY DEF Decoded
<1>6. Anthropic!Item(map, l) = Anthropic!Yields(ls, d + 1)
  <2> HIDE DEF l
  <2>1. CASE l.kind = "start"
    BY <1>4, <2>1 DEF Anthropic!Item
  <2>2. CASE l.kind = "json"
    <3>1. map[l.index] = own /\ own # NoId
      BY <1>3, <1>4, <1>5, <2>2, IdsAssumption
    <3> HIDE DEF own
    <3> QED  BY <1>4, <2>2, <3>1 DEF Anthropic!Item
  <2>3. CASE l.kind = "plain"
    BY <1>4, <2>3 DEF Anthropic!Item
  <2>4. CASE l.kind \in {"quiet", "block_stop", "blank"}
    BY <1>4, <2>4 DEF Anthropic!Item
  <2> QED  BY <1>3, <2>1, <2>2, <2>3, <2>4 DEF LineKind
<1>7. Anthropic!IndexMap(map, l) = [i \in Indices |-> Owner(ls, d + 1, i)]
  <2>1. \A i : Owner(ls, d + 1, i) =
           IF l.kind \in {"start", "block_stop"} /\ l.index = i
           THEN IF l.kind = "start" THEN l.id ELSE NoId
           ELSE Owner(ls, d, i)
    BY <1>1, OwnerNext
  <2>2. map = [i \in Indices |-> Owner(ls, d, i)]
    BY DEF Decoded
  <2> HIDE DEF l
  <2>3. CASE l.kind = "start"
    <3>1. Anthropic!IndexMap(map, l) = [map EXCEPT ![l.index] = l.id]
      BY <2>3 DEF Anthropic!IndexMap
    <3> QED  BY <1>3, <2>1, <2>2, <2>3, <3>1
  <2>4. CASE l.kind = "block_stop"
    <3>1. Anthropic!IndexMap(map, l) = [map EXCEPT ![l.index] = NoId]
      BY <2>4 DEF Anthropic!IndexMap
    <3> QED  BY <1>3, <2>1, <2>2, <2>4, <3>1
  <2>5. CASE l.kind \notin {"start", "block_stop"}
    <3>1. Anthropic!IndexMap(map, l) = map
      BY <2>5 DEF Anthropic!IndexMap
    <3> QED  BY <2>1, <2>2, <2>5, <3>1
  <2> QED  BY <2>3, <2>4, <2>5
<1>8. \A k \in 1..d + 1 : ~Stopping(ls, k)
  BY <1>1 DEF Decoded
<1>9. o \o Anthropic!Yields(ls, d + 1) = Anthropic!Yielded(ls, d + 1)
  <2>1. o = Anthropic!Yielded(ls, d) /\ \A k \in 1..d : ~Stopping(ls, k)
    BY DEF Decoded
  <2> QED  BY <1>1, <2>1, YieldedNext
<1> QED  BY <1>1, <1>4, <1>6, <1>7, <1>8, <1>9 DEF Decoded

(***************************************************************************)
(* The lines without the blank ones, which the parser drops; and the lines *)
(* that what the parser has made of them decode to.                        *)
(***************************************************************************)
Solid == [l \in Line |-> IF l = Anthropic!Blank THEN <<>> ELSE <<l>>]
Solids(ls, d) == Collected(Solid, SubSeq(ls, 1, d))

Scrap == {<<Anthropic!Piece(l, 1), Anthropic!Piece(l, 2)>> : l \in Line}
           \cup {<<Anthropic!Piece(l, 1)>> : l \in Line}
Wire == [b \in Scrap |-> <<Anthropic!WireEvent(b)>>]

LEMMA ScrapEvents ==
  /\ \A b \in Scrap : Anthropic!WireEvent(b) \in Line
  /\ \A l \in Line :
       /\ <<Anthropic!Piece(l, 1), Anthropic!Piece(l, 2)>> \in Scrap
       /\ Anthropic!WireEvent(<<Anthropic!Piece(l, 1), Anthropic!Piece(l, 2)>>) = l
       /\ <<Anthropic!Piece(l, 1)>> \in Scrap
       /\ Anthropic!WireEvent(<<Anthropic!Piece(l, 1)>>) = Anthropic!Malformed
<1>1. ASSUME NEW l \in Line
      PROVE  Anthropic!WireEvent(<<Anthropic!Piece(l, 1), Anthropic!Piece(l, 2)>>) = l
  BY DEF Anthropic!WireEvent, Anthropic!Piece
<1>2. ASSUME NEW l \in Line
      PROVE  Anthropic!WireEvent(<<Anthropic!Piece(l, 1)>>) = Anthropic!Malformed
  BY DEF Anthropic!WireEvent
<1>3. Anthropic!Malformed \in Line
  BY DEF Line, Anthropic!Lines
<1> QED  BY <1>1, <1>2, <1>3 DEF Scrap

LEMMA SolidLists == Lists(Solid, Line, Line) /\ Lists(Wire, Scrap, Line)
<1>1. ASSUME NEW l \in Line PROVE Solid[l] \in Seq(Line)
  BY EmptySeq DEF Solid
<1>2. ASSUME NEW b \in Scrap PROVE Wire[b] \in Seq(Line)
  <2>1. Anthropic!WireEvent(b) \in Line
    BY ScrapEvents
  <2>2. \A x \in Line : <<x>> \in Seq(Line)
    OBVIOUS
  <2> QED  BY <2>1, <2>2 DEF Wire
<1> QED  BY <1>1, <1>2 DEF Lists

LEMMA SolidsType ==
  ASSUME NEW ls \in Seq(Line), NEW d \in 0..Len(ls)
  PROVE  Solids(ls, d) \in Seq(Line)
<1>1. SubSeq(ls, 1, d) \in Seq(Line)
  BY SplitAt
<1> QED  BY <1>1, SolidLists, CollectedType DEF Solids

LEMMA SolidsNext ==
  ASSUME NEW ls \in Seq(Line), NEW d \in 0..Len(ls), d < Len(ls)
  PROVE  Solids(ls, d + 1) = Solids(ls, d) \o Solid[ls[d + 1]]
<1>1. d + 1 \in 1..Len(ls) /\ (d + 1) - 1 = d
  BY LenProperties
<1>2. \A n \in 1..Len(ls) : Collected(Solid, SubSeq(ls, 1, n))
                              = Collected(Solid, SubSeq(ls, 1, n - 1)) \o Solid[ls[n]]
  BY SolidLists, CollectedPrefix
<1> QED  BY <1>1, <1>2, Zenon DEF Solids

LEMMA SolidsSplit ==
  ASSUME NEW ls \in Seq(Line), NEW d \in 0..Len(ls)
  PROVE  \E r \in Seq(Line) : Solids(ls, Len(ls)) = Solids(ls, d) \o r
<1> DEFINE a == SubSeq(ls, 1, d)
           b == SubSeq(ls, d + 1, Len(ls))
<1>1. a \in Seq(Line) /\ b \in Seq(Line) /\ a \o b = ls
  BY SplitAt
<1>2. SubSeq(ls, 1, Len(ls)) = ls
  OBVIOUS
<1>3. Collected(Solid, a \o b) = Collected(Solid, a) \o Collected(Solid, b)
  <2>1. \A u, v \in Seq(Line) :
          Collected(Solid, u \o v) = Collected(Solid, u) \o Collected(Solid, v)
    BY SolidLists, CollectedConcat
  <2> QED  BY <1>1, <2>1, Zenon
<1>4. Collected(Solid, b) \in Seq(Line)
  <2> HIDE DEF a, b
  <2> QED  BY <1>1, SolidLists, CollectedType
<1>5. Solids(ls, Len(ls)) = Collected(Solid, ls)
  BY <1>2, Zenon DEF Solids
<1> QED  BY <1>1, <1>3, <1>4, <1>5, Zenon DEF Solids

LEMMA SolidsAgree ==
  ASSUME NEW a, NEW b, NEW d, Agree(a, b, d)
  PROVE  Solids(a, d) = Solids(b, d)
<1>1. SubSeq(a, 1, d) = SubSeq(b, 1, d)
  <2>1. a \in Seq(Line) /\ b \in Seq(Line) /\ d \in 0..Len(a) /\ d \in 0..Len(b)
    BY DEF Agree
  <2>2. /\ SubSeq(a, 1, d) \in Seq(Line) /\ Len(SubSeq(a, 1, d)) = d
        /\ \A i \in 1..d : SubSeq(a, 1, d)[i] = a[i]
    BY <2>1, SplitAt
  <2>3. /\ SubSeq(b, 1, d) \in Seq(Line) /\ Len(SubSeq(b, 1, d)) = d
        /\ \A i \in 1..d : SubSeq(b, 1, d)[i] = b[i]
    BY <2>1, SplitAt
  <2>4. \A i \in 1..d : SubSeq(a, 1, d)[i] = SubSeq(b, 1, d)[i]
    BY <2>2, <2>3 DEF Agree
  <2> QED  BY <2>2, <2>3, <2>4, SeqEqual
<1> QED  BY <1>1, Zenon DEF Solids

LEMMA WireConcat ==
  /\ Collected(Wire, <<>>) = <<>>
  /\ \A b \in Scrap : Collected(Wire, <<b>>) = <<Anthropic!WireEvent(b)>>
  /\ \A s, t \in Seq(Scrap) : Collected(Wire, s \o t) = Collected(Wire, s) \o Collected(Wire, t)
  /\ \A s \in Seq(Scrap) : Collected(Wire, s) \in Seq(Line)
<1>1. ASSUME NEW b \in Scrap PROVE Collected(Wire, <<b>>) = <<Anthropic!WireEvent(b)>>
  <2>1. <<b>> = Append(<<>>, b) /\ <<>> \in Seq(Scrap)
    BY EmptySeq
  <2>2. Collected(Wire, Append(<<>>, b)) = Collected(Wire, <<>>) \o Wire[b]
    BY <2>1, SolidLists, CollectedAppend
  <2>3. Wire[b] = <<Anthropic!WireEvent(b)>> /\ Wire[b] \in Seq(Line)
    BY SolidLists DEF Wire, Lists
  <2>4. <<>> \o Wire[b] = Wire[b]
    BY <2>3, ConcatEmptySeq
  <2> QED  BY <2>1, <2>2, <2>3, <2>4, CollectedEmpty, Zenon
<1>2. ASSUME NEW s \in Seq(Scrap), NEW t \in Seq(Scrap)
      PROVE  Collected(Wire, s \o t) = Collected(Wire, s) \o Collected(Wire, t)
  BY SolidLists, CollectedConcat
<1>3. ASSUME NEW s \in Seq(Scrap) PROVE Collected(Wire, s) \in Seq(Line)
  BY SolidLists, CollectedType
<1> QED  BY <1>1, <1>2, <1>3, CollectedEmpty

LEMMA LineAssociative ==
  \A u, v, w \in Seq(Line) : (u \o v) \o w = u \o (v \o w)
BY ConcatAssociative

LEMMA LineConcat ==
  /\ \A u, v \in Seq(Line) : u \o v \in Seq(Line)
  /\ \A x \in Line : <<x>> \in Seq(Line)
BY ConcatProperties

LEMMA LineEmpty ==
  /\ \A u, v \in Seq(Line) : u \o v = u => v = <<>>
  /\ \A u \in Seq(Line) : u \o <<>> = u /\ <<>> \o u = u
<1>1. \A u, v \in Seq(Line) : u \o v = u => v = <<>>
  BY ConcatEqualIffEmpty
<1>2. \A u \in Seq(Line) : u \o <<>> = u /\ <<>> \o u = u
  BY ConcatEmptySeq
<1> QED  BY <1>1, <1>2

LEMMA LineCancel ==
  \A u, v, w \in Seq(Line) : u \o v = u \o w => v = w
<1> SUFFICES ASSUME NEW u \in Seq(Line), NEW v \in Seq(Line), NEW w \in Seq(Line),
                    u \o v = u \o w
             PROVE  v = w
  OBVIOUS
<1>1. /\ Len(u \o v) = Len(u) + Len(v)
      /\ \A i \in 1..Len(u) + Len(v) : (u \o v)[i] = IF i <= Len(u) THEN u[i] ELSE v[i - Len(u)]
  BY ConcatProperties
<1>2. /\ Len(u \o w) = Len(u) + Len(w)
      /\ \A i \in 1..Len(u) + Len(w) : (u \o w)[i] = IF i <= Len(u) THEN u[i] ELSE w[i - Len(u)]
  BY ConcatProperties
<1>3. Len(u) \in Nat /\ Len(v) \in Nat /\ Len(w) \in Nat
  BY LenProperties
<1>4. Len(v) = Len(w)
  BY <1>1, <1>2, <1>3
<1>5. ASSUME NEW i \in 1..Len(v) PROVE v[i] = w[i]
  <2>1. i + Len(u) \in 1..Len(u) + Len(v) /\ ~(i + Len(u) <= Len(u)) /\ (i + Len(u)) - Len(u) = i
    BY <1>3
  <2> QED  BY <1>1, <1>2, <1>4, <2>1
<1> QED  BY <1>4, <1>5, SeqEqual

LEMMA LineHead ==
  /\ \A x, y \in Line, u, v \in Seq(Line) : <<x>> \o u = <<y>> \o v => x = y /\ u = v
  /\ \A x \in Line, u \in Seq(Line) : <<x>> \o u # <<>>
<1>1. ASSUME NEW x \in Line, NEW u \in Seq(Line)
      PROVE  (<<x>> \o u)[1] = x /\ <<x>> \o u # <<>>
  OBVIOUS
<1>2. ASSUME NEW x \in Line, NEW y \in Line, NEW u \in Seq(Line), NEW v \in Seq(Line),
             <<x>> \o u = <<y>> \o v
      PROVE  x = y /\ u = v
  <2>1. x = y
    BY <1>1, <1>2, Zenon
  <2>2. <<x>> \in Seq(Line) /\ <<x>> \o u = <<x>> \o v
    BY <1>2, <2>1, LineConcat
  <2>3. u = v
    BY <2>2, LineCancel, Zenon
  <2> QED  BY <2>1, <2>3
<1> QED  BY <1>1, <1>2

(***************************************************************************)
(* How far a stream is that has seen the lines W and still has q to        *)
(* decode.                                                                 *)
(***************************************************************************)
Standing(W, q, d, o, map) ==
  /\ Decoded(W, d, o, map)
  /\ Solids(W, d) \o Collected(Wire, q) = Solids(W, Len(W))

Progress(W, q, o, map) ==
  /\ W \in Seq(Line) /\ q \in Seq(Scrap)
  /\ \E d \in 0..Len(W) : Standing(W, q, d, o, map)

LEMMA BlankLine ==
  ASSUME NEW W \in Seq(Line), NEW q \in Seq(Scrap), NEW d, NEW o, NEW map,
         Standing(W, q, d, o, map), d < Len(W), W[d + 1] = Anthropic!Blank
  PROVE  Standing(W, q, d + 1, o, map)
<1>1. d \in 0..Len(W) /\ Decoded(W, d, o, map)
  BY DEF Standing, Decoded
<1>2. d + 1 \in 1..Len(W)
  BY <1>1, LenProperties
<1>3. W[d + 1].kind = "blank" /\ W[d + 1] \in Line
  BY <1>2, ElementOfSeq DEF Anthropic!Blank
<1>4. ~Stopping(W, d + 1)
  <2>1. W[d + 1] # Anthropic!MessageStop /\ W[d + 1] # Anthropic!Malformed
    BY <1>3 DEF Anthropic!MessageStop, Anthropic!Malformed
  <2> QED  BY <1>3, <2>1 DEF Stopping, Anthropic!InError
<1>5. Decoded(W, d + 1, o \o Anthropic!Item(map, W[d + 1]), Anthropic!IndexMap(map, W[d + 1]))
  BY <1>1, <1>4, DecodedNext
<1>6. Anthropic!Item(map, W[d + 1]) = <<>> /\ Anthropic!IndexMap(map, W[d + 1]) = map
  <2> DEFINE l == W[d + 1]
  <2>1. l.kind = "blank"
    BY <1>3
  <2> HIDE DEF l
  <2>2. Anthropic!Item(map, l) = <<>> /\ Anthropic!IndexMap(map, l) = map
    BY <2>1 DEF Anthropic!Item, Anthropic!IndexMap
  <2> QED  BY <2>2 DEF l
<1>7. o \o <<>> = o
  <2>1. o \in Seq(Event)
    BY <1>1, YieldedNext DEF Decoded
  <2> QED  BY <2>1, ConcatEmptySeq
<1>8. Solids(W, d + 1) = Solids(W, d)
  <2>1. Solids(W, d + 1) = Solids(W, d) \o Solid[W[d + 1]]
    BY <1>1, SolidsNext
  <2>2. Solid[W[d + 1]] = <<>>
    BY <1>3 DEF Solid
  <2>3. Solids(W, d) \in Seq(Line)
    BY <1>1, SolidsType
  <2> QED  BY <2>1, <2>2, <2>3, LineEmpty, Zenon
<1> QED  BY <1>5, <1>6, <1>7, <1>8, Zenon DEF Standing

LEMMA SolidLine ==
  ASSUME NEW W \in Seq(Line), NEW q \in Seq(Scrap), NEW d, NEW o, NEW map,
         Standing(W, q, d, o, map), d < Len(W), W[d + 1] # Anthropic!Blank
  PROVE  /\ q # <<>> /\ q[1] \in Scrap
         /\ W[d + 1] = Anthropic!WireEvent(q[1])
         /\ Solids(W, d + 1) \o Collected(Wire, Tail(q)) = Solids(W, Len(W))
<1> DEFINE l == W[d + 1]
           a == Solids(W, d)
<1>1. d \in 0..Len(W) /\ d + 1 \in 0..Len(W) /\ d + 1 \in 1..Len(W)
  BY LenProperties DEF Standing, Decoded
<1>2. l \in Line /\ <<l>> \in Seq(Line)
  BY <1>1, ElementOfSeq
<1>3. Solids(W, d + 1) = a \o <<l>> /\ a \in Seq(Line)
  <2>1. Solids(W, d + 1) = a \o Solid[l]
    BY <1>1, SolidsNext
  <2>2. Solid[l] = <<l>>
    BY <1>2 DEF Solid
  <2> QED  BY <1>1, <2>1, <2>2, SolidsType
<1>4. PICK r \in Seq(Line) : Solids(W, Len(W)) = Solids(W, d + 1) \o r
  BY <1>1, SolidsSplit
<1>5. Collected(Wire, q) \in Seq(Line)
  BY WireConcat
<1> HIDE DEF a, l
<1>6. a \o Collected(Wire, q) = Solids(W, Len(W))
  BY DEF Standing, a
<1>7. Collected(Wire, q) = <<l>> \o r
  <2>1. a \o Collected(Wire, q) = a \o (<<l>> \o r)
    <3>1. (a \o <<l>>) \o r = a \o (<<l>> \o r)
      BY <1>2, <1>3, LineAssociative, Zenon
    <3> QED  BY <1>3, <1>4, <1>6, <3>1, Zenon
  <2>2. <<l>> \o r \in Seq(Line)
    BY <1>2, LineConcat
  <2> QED  BY <1>3, <1>5, <2>1, <2>2, LineCancel, Zenon
<1>8. q # <<>>
  <2>1. <<l>> \o r # <<>>
    BY <1>2, LineHead, Zenon
  <2> QED  BY <1>7, <2>1, CollectedEmpty, Zenon
<1>9. q[1] \in Scrap /\ Tail(q) \in Seq(Scrap) /\ q = <<q[1]>> \o Tail(q) /\ <<q[1]>> \in Seq(Scrap)
  BY <1>8
<1>10. Anthropic!WireEvent(q[1]) = l /\ Collected(Wire, Tail(q)) = r
  <2>1. Collected(Wire, q) = <<Anthropic!WireEvent(q[1])>> \o Collected(Wire, Tail(q))
    BY <1>9, WireConcat, Zenon
  <2>2. Anthropic!WireEvent(q[1]) \in Line /\ Collected(Wire, Tail(q)) \in Seq(Line)
    BY <1>9, ScrapEvents, WireConcat
  <2>3. <<Anthropic!WireEvent(q[1])>> \o Collected(Wire, Tail(q)) = <<l>> \o r
    BY <1>7, <2>1, Zenon
  <2> DEFINE w == Anthropic!WireEvent(q[1])
             c == Collected(Wire, Tail(q))
  <2>4. w \in Line /\ c \in Seq(Line) /\ <<w>> \o c = <<l>> \o r
    BY <2>2, <2>3
  <2> HIDE DEF w, c
  <2>5. w = l /\ c = r
    BY <1>2, <2>4, LineHead, Zenon
  <2> QED  BY <2>5 DEF w, c
<1> QED  BY <1>4, <1>8, <1>9, <1>10, Zenon DEF l

LEMMA Caught ==
  ASSUME NEW W, NEW q, NEW o, NEW map, Progress(W, q, o, map)
  PROVE  \E d \in 0..Len(W) :
           /\ Standing(W, q, d, o, map)
           /\ q = <<>> => d = Len(W)
           /\ q # <<>> => /\ d < Len(W) /\ q[1] \in Scrap
                          /\ W[d + 1] = Anthropic!WireEvent(q[1])
                          /\ Solids(W, d + 1) \o Collected(Wire, Tail(q)) = Solids(W, Len(W))
<1>1. W \in Seq(Line) /\ q \in Seq(Scrap) /\ Len(W) \in Nat
  BY LenProperties DEF Progress
<1> DEFINE S == {d \in 0..Len(W) : Standing(W, q, d, o, map)}
<1>2. S # {} /\ S \in SUBSET (0..Len(W))
  BY DEF Progress
<1>3. PICK d \in S : \A e \in S : e <= d
  <2> HIDE DEF S
  <2> QED  BY <1>1, <1>2, GreatestNumber
<1>4. d \in 0..Len(W) /\ Standing(W, q, d, o, map)
  BY <1>3
<1>5. CASE d = Len(W)
  <2>1. Solids(W, d) \in Seq(Line) /\ Collected(Wire, q) \in Seq(Line)
    BY <1>1, <1>4, SolidsType, WireConcat
  <2>2. Collected(Wire, q) = <<>>
    BY <1>4, <1>5, <2>1, LineEmpty, Zenon DEF Standing
  <2>3. ASSUME q # <<>> PROVE FALSE
    <3>1. q[1] \in Scrap /\ Tail(q) \in Seq(Scrap) /\ q = <<q[1]>> \o Tail(q)
          /\ <<q[1]>> \in Seq(Scrap)
      BY <1>1, <2>3
    <3>2. Collected(Wire, q) = <<Anthropic!WireEvent(q[1])>> \o Collected(Wire, Tail(q))
      BY <3>1, WireConcat, Zenon
    <3>3. Anthropic!WireEvent(q[1]) \in Line /\ Collected(Wire, Tail(q)) \in Seq(Line)
      BY <3>1, ScrapEvents, WireConcat
    <3> QED  BY <2>2, <3>2, <3>3, LineHead, Zenon
  <2> QED  BY <1>4, <1>5, <2>3
<1>6. CASE d # Len(W)
  <2>1. d < Len(W) /\ d + 1 \in 0..Len(W) /\ ~(d + 1 <= d)
    BY <1>1, <1>4, <1>6
  <2>2. W[d + 1] # Anthropic!Blank
    <3> SUFFICES ASSUME W[d + 1] = Anthropic!Blank PROVE FALSE
      OBVIOUS
    <3>1. Standing(W, q, d + 1, o, map)
      BY <1>1, <1>4, <2>1, BlankLine
    <3>2. d + 1 \in S
      BY <2>1, <3>1
    <3> HIDE DEF S
    <3> QED  BY <1>3, <2>1, <3>2
  <2>3. /\ q # <<>> /\ q[1] \in Scrap
        /\ W[d + 1] = Anthropic!WireEvent(q[1])
        /\ Solids(W, d + 1) \o Collected(Wire, Tail(q)) = Solids(W, Len(W))
    BY <1>1, <1>4, <2>1, <2>2, SolidLine
  <2> HIDE DEF S
  <2> QED  BY <1>4, <2>1, <2>3
<1> QED  BY <1>5, <1>6

(***************************************************************************)
(* What the reference says of such lines.                                  *)
(***************************************************************************)
LEMMA NoStop ==
  ASSUME NEW ls \in Seq(Line), \A k \in 1..Len(ls) : ~Stopping(ls, k)
  PROVE  Anthropic!FirstStop(ls) = 0 /\ Anthropic!Meaning(ls) = Anthropic!Yielded(ls, Len(ls))
<1>1. DOMAIN ls = 1..Len(ls)
  BY LenProperties
<1>2. {k \in DOMAIN ls : ls[k] = Anthropic!MessageStop \/ Anthropic!InError(ls, k)} = {}
  BY <1>1 DEF Stopping
<1>3. Anthropic!FirstStop(ls) = 0
  BY <1>2, Zenon DEF Anthropic!FirstStop
<1> QED  BY <1>3 DEF Anthropic!Meaning

LEMMA FirstStopIs ==
  ASSUME NEW ls \in Seq(Line), NEW d \in 0..Len(ls), d < Len(ls),
         \A k \in 1..d : ~Stopping(ls, k), Stopping(ls, d + 1)
  PROVE  /\ Anthropic!FirstStop(ls) = d + 1 /\ d + 1 # 0
         /\ Anthropic!Meaning(ls) = Anthropic!Yielded(ls, d)
<1> DEFINE stops == {k \in DOMAIN ls : ls[k] = Anthropic!MessageStop \/ Anthropic!InError(ls, k)}
<1>1. Len(ls) \in Nat /\ DOMAIN ls = 1..Len(ls) /\ d + 1 \in 1..Len(ls) /\ (d + 1) - 1 = d
      /\ d + 1 # 0
  BY LenProperties
<1>2. d + 1 \in stops /\ stops \in SUBSET (0..Len(ls))
  BY <1>1 DEF Stopping
<1>3. \A k \in stops : Stopping(ls, k) /\ k \in 1..Len(ls)
  BY <1>1 DEF Stopping
<1>4. Anthropic!FirstStop(ls) = IF stops = {} THEN 0 ELSE Anthropic!Min(stops)
  BY Zenon DEF Anthropic!FirstStop
<1> HIDE DEF stops
<1>5. Anthropic!Min(stops) \in stops /\ Anthropic!Min(stops) <= d + 1
  BY <1>1, <1>2, Extremes
<1>6. Anthropic!Min(stops) = d + 1
  <2> DEFINE m == Anthropic!Min(stops)
  <2>1. Stopping(ls, m) /\ m \in 1..Len(ls) /\ m <= d + 1
    BY <1>3, <1>5
  <2> HIDE DEF m
  <2>2. m \notin 1..d
    BY <2>1
  <2>3. m = d + 1
    BY <2>1, <2>2
  <2> QED  BY <2>3 DEF m
<1>7. Anthropic!FirstStop(ls) = d + 1
  BY <1>2, <1>4, <1>6
<1> QED  BY <1>1, <1>7 DEF Anthropic!Meaning

(***************************************************************************)
(* Nothing left, the next line, and one line more.                         *)
(***************************************************************************)
LEMMA NothingLeft ==
  ASSUME NEW W, NEW o, NEW map, Progress(W, <<>>, o, map)
  PROVE  /\ o \in Seq(Event) /\ o = Anthropic!Meaning(W)
         /\ Anthropic!FirstStop(W) = 0
<1>1. PICK d \in 0..Len(W) : Decoded(W, d, o, map) /\ d = Len(W)
  BY Caught DEF Standing
<1>2. W \in Seq(Line)
  BY DEF Progress
<1>3. o = Anthropic!Yielded(W, Len(W)) /\ \A k \in 1..Len(W) : ~Stopping(W, k)
  BY <1>1 DEF Decoded
<1>4. Anthropic!Yielded(W, d) \in Seq(Event)
  BY <1>1, <1>2, <1>3, YieldedNext
<1> QED  BY <1>1, <1>2, <1>3, <1>4, NoStop

LEMMA NextLine ==
  ASSUME NEW W, NEW q, NEW o, NEW map, Progress(W, q, o, map), q # <<>>,
         NEW V \in Seq(Line), Len(W) <= Len(V), \A k \in 1..Len(W) : V[k] = W[k]
  PROVE  LET l == Anthropic!WireEvent(q[1]) IN
         \/ /\ Anthropic!Item(map, l) \in Seq(Event)
            /\ Progress(W, Tail(q), o \o Anthropic!Item(map, l), Anthropic!IndexMap(map, l))
         \/ /\ o \in Seq(Event) /\ o = Anthropic!Meaning(V)
            /\ Anthropic!FirstStop(V) # 0
            /\ Anthropic!Item(map, l)
                 = <<IF V[Anthropic!FirstStop(V)] = Anthropic!MessageStop THEN DoneItem ELSE ErrItem>>
<1>1. W \in Seq(Line) /\ q \in Seq(Scrap) /\ Len(W) \in Nat /\ Len(V) \in Nat
  BY LenProperties DEF Progress
<1>2. PICK d \in 0..Len(W) :
        /\ Decoded(W, d, o, map)
        /\ d < Len(W) /\ W[d + 1] = Anthropic!WireEvent(q[1])
        /\ Solids(W, d + 1) \o Collected(Wire, Tail(q)) = Solids(W, Len(W))
  BY Caught DEF Standing
<1>3. d + 1 \in 0..Len(W) /\ d + 1 \in 1..Len(W) /\ d \in 0..Len(V) /\ d < Len(V)
      /\ d + 1 \in 0..Len(V) /\ \A k \in 1..d + 1 : k \in 1..Len(W)
  BY <1>1, <1>2
<1>4. CASE ~Stopping(W, d + 1)
  <2>1. /\ Anthropic!Item(map, W[d + 1]) \in Seq(Event)
        /\ Decoded(W, d + 1, o \o Anthropic!Item(map, W[d + 1]), Anthropic!IndexMap(map, W[d + 1]))
    BY <1>1, <1>2, <1>4, DecodedNext
  <2>2. Tail(q) \in Seq(Scrap)
    BY <1>1
  <2>3. Progress(W, Tail(q), o \o Anthropic!Item(map, W[d + 1]), Anthropic!IndexMap(map, W[d + 1]))
    BY <1>1, <1>2, <1>3, <2>1, <2>2, Zenon DEF Progress, Standing
  <2> QED  BY <1>2, <2>1, <2>3, Zenon
<1>5. CASE Stopping(W, d + 1)
  <2>1. Agree(W, V, d + 1)
    BY <1>1, <1>3 DEF Agree
  <2>2. Agree(W, V, d)
    BY <1>1, <1>3 DEF Agree
  <2>3. Decoded(V, d, o, map)
    BY <1>2, <2>2, DecodedAgree
  <2>4. Stopping(V, d + 1) /\ V[d + 1] = W[d + 1]
    <3>1. d + 1 \in 1..d + 1
      BY <1>3
    <3> QED  BY <1>3, <1>5, <2>1, <3>1, AgreeLines
  <2>5. \A k \in 1..d : ~Stopping(V, k)
    BY <2>3 DEF Decoded
  <2>6. /\ Anthropic!FirstStop(V) = d + 1 /\ d + 1 # 0
        /\ Anthropic!Meaning(V) = Anthropic!Yielded(V, d)
    BY <1>3, <2>4, <2>5, FirstStopIs
  <2>7. o = Anthropic!Yielded(V, d) /\ Anthropic!Yielded(V, d) \in Seq(Event)
    BY <1>3, <2>3, <2>5, YieldedNext DEF Decoded
  <2>8. Anthropic!Item(map, V[d + 1])
          = <<IF V[d + 1] = Anthropic!MessageStop THEN DoneItem ELSE ErrItem>>
    BY <1>3, <2>3, <2>4, DecodedStops
  <2> QED  BY <1>2, <2>4, <2>6, <2>7, <2>8, Zenon
<1> QED  BY <1>4, <1>5

LEMMA OneLine ==
  ASSUME NEW W, NEW q, NEW o, NEW map, Progress(W, q, o, map), NEW l \in Line,
         NEW r \in Seq(Scrap), Collected(Wire, r) = Solid[l]
  PROVE  Progress(Append(W, l), q \o r, o, map)
<1> DEFINE V == Append(W, l)
<1>1. W \in Seq(Line) /\ q \in Seq(Scrap) /\ Len(W) \in Nat
  BY LenProperties DEF Progress
<1>2. PICK d \in 0..Len(W) : Standing(W, q, d, o, map)
  BY DEF Progress
<1>3. /\ V \in Seq(Line) /\ Len(V) = Len(W) + 1 /\ \A k \in 1..Len(W) : V[k] = W[k]
      /\ V[Len(W) + 1] = l
  BY <1>1
<1>4. q \o r \in Seq(Scrap)
  BY <1>1
<1> HIDE DEF V
<1>5. d \in 0..Len(V) /\ Len(W) \in 0..Len(V) /\ Len(W) < Len(V) /\ \A k \in 1..d : k \in 1..Len(W)
  BY <1>1, <1>3
<1>6. Agree(W, V, d) /\ Agree(W, V, Len(W))
  BY <1>1, <1>3, <1>5 DEF Agree
<1>7. Decoded(V, d, o, map)
  BY <1>2, <1>6, DecodedAgree DEF Standing
<1>8. Solids(V, d) = Solids(W, d) /\ Solids(V, Len(W)) = Solids(W, Len(W))
  BY <1>6, SolidsAgree
<1>9. Solids(V, Len(V)) = Solids(W, Len(W)) \o Solid[l]
  <2>1. Solids(V, Len(W) + 1) = Solids(V, Len(W)) \o Solid[V[Len(W) + 1]]
    BY <1>3, <1>5, SolidsNext
  <2> QED  BY <1>3, <1>8, <2>1, Zenon
<1>10. Solids(V, d) \o Collected(Wire, q \o r) = Solids(V, Len(V))
  <2>1. Solids(W, d) \in Seq(Line) /\ Collected(Wire, q) \in Seq(Line) /\ Solid[l] \in Seq(Line)
    BY <1>1, <1>2, SolidsType, WireConcat, SolidLists DEF Lists
  <2>2. Collected(Wire, q \o r) = Collected(Wire, q) \o Solid[l]
    BY <1>1, WireConcat, Zenon
  <2>3. Solids(W, d) \o (Collected(Wire, q) \o Solid[l])
          = (Solids(W, d) \o Collected(Wire, q)) \o Solid[l]
    BY <2>1, LineAssociative, Zenon
  <2>4. Solids(W, d) \o Collected(Wire, q) = Solids(W, Len(W))
    BY <1>2 DEF Standing
  <2> QED  BY <1>8, <1>9, <2>2, <2>3, <2>4, Zenon
<1>11. Standing(V, q \o r, d, o, map)
  BY <1>7, <1>10 DEF Standing
<1> QED  BY <1>3, <1>4, <1>5, <1>11, Zenon DEF Progress, V

(***************************************************************************)
(* Short sequences, element by element.                                    *)
(***************************************************************************)
LEMMA Two ==
  ASSUME NEW S, NEW s \in Seq(S), Len(s) = 2, NEW a, NEW b, s[1] = a, s[2] = b
  PROVE  s = <<a, b>>
<1> DEFINE t == <<a, b>>
<1>1. Len(t) = 2 /\ t[1] = a /\ t[2] = b
  OBVIOUS
<1>2. a \in S /\ b \in S
  <2>1. \A i \in 1..Len(s) : s[i] \in S
    BY ElementOfSeq
  <2>2. 1 \in 1..2 /\ 2 \in 1..2
    OBVIOUS
  <2> QED  BY <2>1, <2>2
<1>3. t \in Seq(S)
  BY <1>2
<1> HIDE DEF t
<1>4. \A i \in 1..2 : i = 1 \/ i = 2
  OBVIOUS
<1>5. \A i \in 1..Len(s) : s[i] = t[i]
  BY <1>1, <1>4
<1>6. s = t
  BY <1>1, <1>3, <1>5, SeqEqual
<1> QED  BY <1>6 DEF t

LEMMA Three ==
  ASSUME NEW S, NEW s \in Seq(S), Len(s) = 3, NEW a, NEW b, NEW c, s[1] = a, s[2] = b, s[3] = c
  PROVE  s = <<a, b, c>>
<1> DEFINE t == <<a, b, c>>
<1>1. Len(t) = 3 /\ t[1] = a /\ t[2] = b /\ t[3] = c
  OBVIOUS
<1>2. a \in S /\ b \in S /\ c \in S
  <2>1. \A i \in 1..Len(s) : s[i] \in S
    BY ElementOfSeq
  <2>2. 1 \in 1..3 /\ 2 \in 1..3 /\ 3 \in 1..3
    OBVIOUS
  <2> QED  BY <2>1, <2>2
<1>3. t \in Seq(S)
  BY <1>2
<1> HIDE DEF t
<1>4. \A i \in 1..3 : i = 1 \/ i = 2 \/ i = 3
  OBVIOUS
<1>5. \A i \in 1..Len(s) : s[i] = t[i]
  BY <1>1, <1>4
<1>6. s = t
  BY <1>1, <1>3, <1>5, SeqEqual
<1> QED  BY <1>6 DEF t

LEMMA Four ==
  ASSUME NEW S, NEW s \in Seq(S), Len(s) = 4, NEW a, NEW b, NEW c, NEW d, s[1] = a, s[2] = b, s[3] = c, s[4] = d
  PROVE  s = <<a, b, c, d>>
<1> DEFINE t == <<a, b, c, d>>
<1>1. Len(t) = 4 /\ t[1] = a /\ t[2] = b /\ t[3] = c /\ t[4] = d
  OBVIOUS
<1>2. a \in S /\ b \in S /\ c \in S /\ d \in S
  <2>1. \A i \in 1..Len(s) : s[i] \in S
    BY ElementOfSeq
  <2>2. 1 \in 1..4 /\ 2 \in 1..4 /\ 3 \in 1..4 /\ 4 \in 1..4
    OBVIOUS
  <2> QED  BY <2>1, <2>2
<1>3. t \in Seq(S)
  BY <1>2
<1> HIDE DEF t
<1>4. \A i \in 1..4 : i = 1 \/ i = 2 \/ i = 3 \/ i = 4
  OBVIOUS
<1>5. \A i \in 1..Len(s) : s[i] = t[i]
  BY <1>1, <1>4
<1>6. s = t
  BY <1>1, <1>3, <1>5, SeqEqual
<1> QED  BY <1>6 DEF t

LEMMA Joined ==
  /\ \A x, y, f : <<x, y>> \o <<f>> = <<x, y, f>>
  /\ \A x, y, c, f : <<x, y>> \o <<c, f>> = <<x, y, c, f>>
  /\ \A y, f : <<y>> \o <<f>> = <<y, f>>
  /\ \A y, c, f : <<y>> \o <<c, f>> = <<y, c, f>>
<1>1. ASSUME NEW x, NEW y, NEW f PROVE <<x, y>> \o <<f>> = <<x, y, f>>
  <2> DEFINE s == <<x, y>> \o <<f>>
             S == {x, y, f}
  <2>1. Len(s) = 3 /\ s[1] = x /\ s[2] = y /\ s[3] = f
    OBVIOUS
  <2>2. s \in Seq(S)
    OBVIOUS
  <2> HIDE DEF s, S
  <2>3. s = <<x, y, f>>
    BY <2>1, <2>2, Three
  <2> QED  BY <2>3 DEF s
<1>2. ASSUME NEW x, NEW y, NEW c, NEW f PROVE <<x, y>> \o <<c, f>> = <<x, y, c, f>>
  <2> DEFINE s == <<x, y>> \o <<c, f>>
             S == {x, y, c, f}
  <2>1. Len(s) = 4 /\ s[1] = x /\ s[2] = y /\ s[3] = c /\ s[4] = f
    OBVIOUS
  <2>2. s \in Seq(S)
    OBVIOUS
  <2> HIDE DEF s, S
  <2>3. s = <<x, y, c, f>>
    BY <2>1, <2>2, Four
  <2> QED  BY <2>3 DEF s
<1>3. ASSUME NEW y, NEW f PROVE <<y>> \o <<f>> = <<y, f>>
  <2> DEFINE s == <<y>> \o <<f>>
             S == {y, f}
  <2>1. Len(s) = 2 /\ s[1] = y /\ s[2] = f
    OBVIOUS
  <2>2. s \in Seq(S)
    OBVIOUS
  <2> HIDE DEF s, S
  <2>3. s = <<y, f>>
    BY <2>1, <2>2, Two
  <2> QED  BY <2>3 DEF s
<1>4. ASSUME NEW y, NEW c, NEW f PROVE <<y>> \o <<c, f>> = <<y, c, f>>
  <2> DEFINE s == <<y>> \o <<c, f>>
             S == {y, c, f}
  <2>1. Len(s) = 3 /\ s[1] = y /\ s[2] = c /\ s[3] = f
    OBVIOUS
  <2>2. s \in Seq(S)
    OBVIOUS
  <2> HIDE DEF s, S
  <2>3. s = <<y, c, f>>
    BY <2>1, <2>2, Three
  <2> QED  BY <2>3 DEF s
<1> QED  BY <1>1, <1>2, <1>3, <1>4

LEMMA Longer ==
  /\ \A x, y, c : Append(<<x, y>>, c) = <<x, y, c>>
  /\ \A x, y : Append(<<x>>, y) = <<x, y>>
  /\ \A x, y, c : SubSeq(<<x, y, c>>, 1, 2) = <<x, y>>
<1>1. ASSUME NEW x, NEW y, NEW c PROVE Append(<<x, y>>, c) = <<x, y, c>>
  <2> DEFINE s == Append(<<x, y>>, c)
             S == {x, y, c}
  <2>1. Len(s) = 3 /\ s[1] = x /\ s[2] = y /\ s[3] = c
    OBVIOUS
  <2>2. s \in Seq(S)
    OBVIOUS
  <2> HIDE DEF s, S
  <2>3. s = <<x, y, c>>
    BY <2>1, <2>2, Three
  <2> QED  BY <2>3 DEF s
<1>2. ASSUME NEW x, NEW y PROVE Append(<<x>>, y) = <<x, y>>
  <2> DEFINE s == Append(<<x>>, y)
             S == {x, y}
  <2>1. Len(s) = 2 /\ s[1] = x /\ s[2] = y
    OBVIOUS
  <2>2. s \in Seq(S)
    OBVIOUS
  <2> HIDE DEF s, S
  <2>3. s = <<x, y>>
    BY <2>1, <2>2, Two
  <2> QED  BY <2>3 DEF s
<1>3. ASSUME NEW x, NEW y, NEW c PROVE SubSeq(<<x, y, c>>, 1, 2) = <<x, y>>
  <2> DEFINE s == SubSeq(<<x, y, c>>, 1, 2)
             S == {x, y, c}
  <2>1. Len(s) = 2 /\ s[1] = x /\ s[2] = y
    OBVIOUS
  <2>2. s \in Seq(S)
    OBVIOUS
  <2> HIDE DEF s, S
  <2>3. s = <<x, y>>
    BY <2>1, <2>2, Two
  <2> QED  BY <2>3 DEF s
<1> QED  BY <1>1, <1>2, <1>3

(***************************************************************************)
(* A line that is cut: what of it is in the buffer, and what is to come.   *)
(***************************************************************************)
LineEnds == {<<Anthropic!LF>>, <<Anthropic!CR, Anthropic!LF>>}
First(l) == Anthropic!Piece(l, 1)
Second(l) == Anthropic!Piece(l, 2)

Cut(e, l, b, r) ==
  \/ l # Anthropic!Blank /\ b = <<First(l)>> /\ r = <<Second(l)>> \o e
  \/ l # Anthropic!Blank /\ b = <<First(l), Second(l)>> /\ r = e
  \/ /\ l # Anthropic!Blank /\ e = <<Anthropic!CR, Anthropic!LF>>
     /\ b = <<First(l), Second(l), Anthropic!CR>> /\ r = <<Anthropic!LF>>
  \/ /\ l = Anthropic!Blank /\ e = <<Anthropic!CR, Anthropic!LF>>
     /\ b = <<Anthropic!CR>> /\ r = <<Anthropic!LF>>

LEMMA BytesDiffer ==
  /\ Anthropic!CR # Anthropic!LF
  /\ \A l : /\ First(l) # Anthropic!LF /\ First(l) # Anthropic!CR
            /\ Second(l) # Anthropic!LF /\ Second(l) # Anthropic!CR
            /\ First(l) # Second(l)
BY DEF Anthropic!CR, Anthropic!LF, First, Second, Anthropic!Piece

LEMMA FirstByte ==
  ASSUME eol \in LineEnds, NEW l \in Line
  PROVE  LET b == Anthropic!Bytes(l, eol) IN
         \/ b[1] = Anthropic!LF /\ l = Anthropic!Blank /\ Tail(b) = <<>>
         \/ b[1] # Anthropic!LF /\ Tail(b) # <<>> /\ Cut(eol, l, Append(<<>>, b[1]), Tail(b))
<1> DEFINE b == Anthropic!Bytes(l, eol)
<1>1. CASE l = Anthropic!Blank
  <2>1. b = <<>> \o eol
    BY <1>1 DEF Anthropic!Bytes
  <2>2. CASE eol = <<Anthropic!LF>>
    <3>1. b = <<Anthropic!LF>>
      BY <2>1, <2>2
    <3> HIDE DEF b
    <3> QED  BY <1>1, <3>1 DEF b
  <2>3. CASE eol = <<Anthropic!CR, Anthropic!LF>>
    <3>1. b = <<Anthropic!CR, Anthropic!LF>>
      BY <2>1, <2>3
    <3> HIDE DEF b
    <3>2. b[1] = Anthropic!CR /\ Tail(b) = <<Anthropic!LF>> /\ Append(<<>>, b[1]) = <<Anthropic!CR>>
      BY <3>1
    <3>3. <<Anthropic!LF>> # <<>>
      OBVIOUS
    <3> QED  BY <1>1, <2>3, <3>2, <3>3, BytesDiffer DEF b, Cut
  <2> QED  BY <2>2, <2>3 DEF LineEnds
<1>2. CASE l # Anthropic!Blank
  <2>1. b = <<First(l), Second(l)>> \o eol
    BY <1>2 DEF Anthropic!Bytes, First, Second
  <2> HIDE DEF b
  <2>2. b[1] = First(l) /\ Append(<<>>, b[1]) = <<First(l)>> /\ Tail(b) = <<Second(l)>> \o eol
        /\ Tail(b) # <<>>
    <3>1. CASE eol = <<Anthropic!LF>>
      <4>1. b = <<First(l), Second(l), Anthropic!LF>>
        <5>1. <<First(l), Second(l)>> \o <<Anthropic!LF>> = <<First(l), Second(l), Anthropic!LF>>
          BY Joined, Zenon
        <5> QED  BY <2>1, <3>1, <5>1, Zenon
      <4>2. <<Second(l)>> \o eol = <<Second(l), Anthropic!LF>>
        BY <3>1, Joined, Zenon
      <4>3. b[1] = First(l) /\ Tail(b) = <<Second(l), Anthropic!LF>> /\ Tail(b) # <<>>
        BY <4>1
      <4>4. Append(<<>>, First(l)) = <<First(l)>>
        OBVIOUS
      <4> QED  BY <4>2, <4>3, <4>4, Zenon
    <3>2. CASE eol = <<Anthropic!CR, Anthropic!LF>>
      <4>1. b = <<First(l), Second(l), Anthropic!CR, Anthropic!LF>>
        <5>1. <<First(l), Second(l)>> \o <<Anthropic!CR, Anthropic!LF>> = <<First(l), Second(l), Anthropic!CR, Anthropic!LF>>
          <6>1. \A x, y, c, f : <<x, y>> \o <<c, f>> = <<x, y, c, f>>
            BY Joined
          <6> QED  BY <6>1, Zenon
        <5> QED  BY <2>1, <3>2, <5>1, Zenon
      <4>2. <<Second(l)>> \o eol = <<Second(l), Anthropic!CR, Anthropic!LF>>
        BY <3>2, Joined, Zenon
      <4>3. b[1] = First(l) /\ Tail(b) = <<Second(l), Anthropic!CR, Anthropic!LF>> /\ Tail(b) # <<>>
        BY <4>1
      <4>4. Append(<<>>, First(l)) = <<First(l)>>
        OBVIOUS
      <4> QED  BY <4>2, <4>3, <4>4, Zenon
    <3> QED  BY <3>1, <3>2 DEF LineEnds
  <2> QED  BY <1>2, <2>2, BytesDiffer DEF b, Cut
<1> QED  BY <1>1, <1>2

LEMMA StrippedIs ==
  \A l : /\ Anthropic!Stripped(<<First(l)>>) = <<First(l)>>
         /\ Anthropic!Stripped(<<First(l), Second(l)>>) = <<First(l), Second(l)>>
         /\ Anthropic!Stripped(<<First(l), Second(l), Anthropic!CR>>) = <<First(l), Second(l)>>
         /\ Anthropic!Stripped(<<Anthropic!CR>>) = <<>>
         /\ Anthropic!Stripped(<<>>) = <<>>
<1> SUFFICES ASSUME NEW l
             PROVE  /\ Anthropic!Stripped(<<First(l)>>) = <<First(l)>>
                    /\ Anthropic!Stripped(<<First(l), Second(l)>>) = <<First(l), Second(l)>>
                    /\ Anthropic!Stripped(<<First(l), Second(l), Anthropic!CR>>)
                         = <<First(l), Second(l)>>
                    /\ Anthropic!Stripped(<<Anthropic!CR>>) = <<>>
                    /\ Anthropic!Stripped(<<>>) = <<>>
  OBVIOUS
<1> USE DEF Anthropic!Stripped, Anthropic!Last, Anthropic!Front
<1>1. Anthropic!Stripped(<<First(l)>>) = <<First(l)>>
  BY BytesDiffer
<1>2. Anthropic!Stripped(<<First(l), Second(l)>>) = <<First(l), Second(l)>>
  BY BytesDiffer
<1>3. Anthropic!Stripped(<<First(l), Second(l), Anthropic!CR>>) = <<First(l), Second(l)>>
  <2> DEFINE s == <<First(l), Second(l), Anthropic!CR>>
  <2>1. s # <<>> /\ Len(s) = 3 /\ s[3] = Anthropic!CR /\ 3 - 1 = 2
    OBVIOUS
  <2>2. SubSeq(s, 1, 2) = <<First(l), Second(l)>>
    BY Longer, Zenon
  <2> HIDE DEF s
  <2>3. Anthropic!Stripped(s) = <<First(l), Second(l)>>
    BY <2>1, <2>2
  <2> QED  BY <2>3 DEF s
<1>4. Anthropic!Stripped(<<Anthropic!CR>>) = <<>>
  OBVIOUS
<1>5. Anthropic!Stripped(<<>>) = <<>>
  OBVIOUS
<1> QED  BY <1>1, <1>2, <1>3, <1>4, <1>5

LEMMA NonBlankIs ==
  /\ \A l : /\ Anthropic!NonBlank(<<First(l)>>) = <<<<First(l)>>>>
            /\ Anthropic!NonBlank(<<First(l), Second(l)>>) = <<<<First(l), Second(l)>>>>
            /\ Anthropic!NonBlank(<<First(l), Second(l), Anthropic!CR>>)
                 = <<<<First(l), Second(l)>>>>
  /\ Anthropic!NonBlank(<<Anthropic!CR>>) = <<>>
  /\ Anthropic!NonBlank(<<>>) = <<>>
<1>1. \A x, y : <<x>> # <<>> /\ <<x, y>> # <<>>
  OBVIOUS
<1> QED  BY <1>1, StrippedIs, Zenon DEF Anthropic!NonBlank

(***************************************************************************)
(* The parts of a line, whole or broken off, in the consumer's queue.      *)
(***************************************************************************)
LEMMA WholeLine ==
  ASSUME NEW l \in Line, l # Anthropic!Blank
  PROVE  /\ <<<<First(l), Second(l)>>>> \in Seq(Scrap)
         /\ Collected(Wire, <<<<First(l), Second(l)>>>>) = Solid[l]
<1>1. <<First(l), Second(l)>> \in Scrap /\ Anthropic!WireEvent(<<First(l), Second(l)>>) = l
  BY ScrapEvents DEF First, Second
<1>2. \A b \in Scrap : <<b>> \in Seq(Scrap)
  OBVIOUS
<1>3. Solid[l] = <<l>>
  BY DEF Solid
<1> QED  BY <1>1, <1>2, <1>3, WireConcat, Zenon

LEMMA HalfLine ==
  ASSUME NEW l \in Line
  PROVE  /\ <<<<First(l)>>>> \in Seq(Scrap) /\ Anthropic!Malformed \in Line
         /\ Collected(Wire, <<<<First(l)>>>>) = Solid[Anthropic!Malformed]
<1>1. <<First(l)>> \in Scrap /\ Anthropic!WireEvent(<<First(l)>>) = Anthropic!Malformed
  BY ScrapEvents DEF First
<1>2. \A b \in Scrap : <<b>> \in Seq(Scrap)
  OBVIOUS
<1>3. Anthropic!Malformed \in Line /\ Anthropic!Malformed # Anthropic!Blank
  BY DEF Line, Anthropic!Lines, Anthropic!Malformed, Anthropic!Blank
<1>4. Solid[Anthropic!Malformed] = <<Anthropic!Malformed>>
  BY <1>3 DEF Solid
<1> QED  BY <1>1, <1>2, <1>3, <1>4, WireConcat, Zenon

LEMMA NoLine ==
  /\ <<>> \in Seq(Scrap) /\ Anthropic!Blank \in Line
  /\ Collected(Wire, <<>>) = Solid[Anthropic!Blank]
<1>1. Anthropic!Blank \in Line
  BY DEF Line, Anthropic!Lines
<1>2. Solid[Anthropic!Blank] = <<>>
  BY <1>1 DEF Solid
<1> QED  BY <1>1, <1>2, CollectedEmpty, EmptySeq

LEMMA NextByte ==
  ASSUME eol \in LineEnds, NEW l \in Line, NEW b, NEW r, Cut(eol, l, b, r)
  PROVE  /\ r # <<>>
         /\ \/ /\ r[1] = Anthropic!LF /\ Tail(r) = <<>>
               /\ Anthropic!NonBlank(b) \in Seq(Scrap)
               /\ Collected(Wire, Anthropic!NonBlank(b)) = Solid[l]
            \/ r[1] # Anthropic!LF /\ Tail(r) # <<>> /\ Cut(eol, l, Append(b, r[1]), Tail(r))
<1>1. CASE l # Anthropic!Blank /\ b = <<First(l)>> /\ r = <<Second(l)>> \o eol
  <2>1. r # <<>> /\ r[1] = Second(l) /\ Tail(r) = eol /\ eol # <<>>
        /\ Append(b, r[1]) = <<First(l), Second(l)>>
    <3>1. CASE eol = <<Anthropic!LF>>
      <4>1. r = <<Second(l), Anthropic!LF>>
        BY <1>1, <3>1, Joined, Zenon
      <4>2. Append(b, Second(l)) = <<First(l), Second(l)>>
        BY <1>1, Longer, Zenon
      <4> QED  BY <3>1, <4>1, <4>2
    <3>2. CASE eol = <<Anthropic!CR, Anthropic!LF>>
      <4>1. r = <<Second(l), Anthropic!CR, Anthropic!LF>>
        BY <1>1, <3>2, Joined, Zenon
      <4>2. Append(b, Second(l)) = <<First(l), Second(l)>>
        BY <1>1, Longer, Zenon
      <4> QED  BY <3>2, <4>1, <4>2
    <3> QED  BY <3>1, <3>2 DEF LineEnds
  <2> QED  BY <1>1, <2>1, BytesDiffer DEF Cut
<1>2. CASE l # Anthropic!Blank /\ b = <<First(l), Second(l)>> /\ r = eol
  <2>1. CASE eol = <<Anthropic!LF>>
    <3>1. r # <<>> /\ r[1] = Anthropic!LF /\ Tail(r) = <<>>
      BY <1>2, <2>1
    <3>2. Anthropic!NonBlank(b) = <<<<First(l), Second(l)>>>>
      BY <1>2, NonBlankIs
    <3> QED  BY <1>2, <3>1, <3>2, WholeLine
  <2>2. CASE eol = <<Anthropic!CR, Anthropic!LF>>
    <3>1. r # <<>> /\ r[1] = Anthropic!CR /\ Tail(r) = <<Anthropic!LF>> /\ Tail(r) # <<>>
      BY <1>2, <2>2
    <3>2. Append(b, Anthropic!CR) = <<First(l), Second(l), Anthropic!CR>>
      BY <1>2, Longer, Zenon
    <3> QED  BY <1>2, <2>2, <3>1, <3>2, BytesDiffer DEF Cut
  <2> QED  BY <2>1, <2>2 DEF LineEnds
<1>3. CASE /\ l # Anthropic!Blank /\ eol = <<Anthropic!CR, Anthropic!LF>>
           /\ b = <<First(l), Second(l), Anthropic!CR>> /\ r = <<Anthropic!LF>>
  <2>1. r # <<>> /\ r[1] = Anthropic!LF /\ Tail(r) = <<>>
    BY <1>3
  <2>2. Anthropic!NonBlank(b) = <<<<First(l), Second(l)>>>>
    BY <1>3, NonBlankIs
  <2> QED  BY <1>3, <2>1, <2>2, WholeLine
<1>4. CASE /\ l = Anthropic!Blank /\ eol = <<Anthropic!CR, Anthropic!LF>>
           /\ b = <<Anthropic!CR>> /\ r = <<Anthropic!LF>>
  <2>1. r # <<>> /\ r[1] = Anthropic!LF /\ Tail(r) = <<>>
    BY <1>4
  <2>2. Anthropic!NonBlank(b) = <<>>
    BY <1>4, NonBlankIs
  <2> QED  BY <1>4, <2>1, <2>2, NoLine
<1> QED  BY <1>1, <1>2, <1>3, <1>4, Zenon DEF Cut

(***************************************************************************)
(* What a line that the response's end cuts stands for.                    *)
(***************************************************************************)
LEMMA Trailing ==
  ASSUME eol \in LineEnds, NEW l \in Line, NEW b, NEW r, Cut(eol, l, b, r)
  PROVE  /\ r # <<>> /\ Anthropic!NonBlank(b) \in Seq(Scrap)
         /\ Collected(Wire, Anthropic!NonBlank(b))
              = Solid[IF Second(l) \in Anthropic!Range(r) /\ l # Anthropic!Blank
                      THEN Anthropic!Malformed ELSE l]
<1>1. CASE l # Anthropic!Blank /\ b = <<First(l)>> /\ r = <<Second(l)>> \o eol
  <2>1. Second(l) \in Anthropic!Range(r)
    <3>1. 1 \in DOMAIN r /\ r[1] = Second(l)
      BY <1>1 DEF LineEnds
    <3> QED  BY <3>1 DEF Anthropic!Range
  <2>2. Anthropic!NonBlank(b) = <<<<First(l)>>>>
    BY <1>1, NonBlankIs
  <2>3. r # <<>>
    BY <1>1, NextByte
  <2> QED  BY <1>1, <2>1, <2>2, <2>3, HalfLine
<1>2. CASE l # Anthropic!Blank /\ b = <<First(l), Second(l)>> /\ r = eol
  <2>1. Second(l) \notin Anthropic!Range(r)
    BY <1>2, BytesDiffer DEF Anthropic!Range, LineEnds
  <2>2. Anthropic!NonBlank(b) = <<<<First(l), Second(l)>>>>
    BY <1>2, NonBlankIs
  <2>3. r # <<>>
    BY <1>2, NextByte
  <2> QED  BY <1>2, <2>1, <2>2, <2>3, WholeLine
<1>3. CASE /\ l # Anthropic!Blank /\ eol = <<Anthropic!CR, Anthropic!LF>>
           /\ b = <<First(l), Second(l), Anthropic!CR>> /\ r = <<Anthropic!LF>>
  <2>1. Second(l) \notin Anthropic!Range(r)
    BY <1>3, BytesDiffer DEF Anthropic!Range
  <2>2. Anthropic!NonBlank(b) = <<<<First(l), Second(l)>>>>
    BY <1>3, NonBlankIs
  <2>3. r # <<>>
    BY <1>3, NextByte
  <2> QED  BY <1>3, <2>1, <2>2, <2>3, WholeLine
<1>4. CASE /\ l = Anthropic!Blank /\ eol = <<Anthropic!CR, Anthropic!LF>>
           /\ b = <<Anthropic!CR>> /\ r = <<Anthropic!LF>>
  <2>1. Anthropic!NonBlank(b) = <<>>
    BY <1>4, NonBlankIs
  <2>2. r # <<>>
    BY <1>4, NextByte
  <2> QED  BY <1>4, <2>1, <2>2, NoLine
<1> QED  BY <1>1, <1>2, <1>3, <1>4, Zenon DEF Cut

(***************************************************************************)
(* The lines that have arrived, and what the response's end adds to them.  *)
(***************************************************************************)
Cursor ==
  \/ rest = <<>> /\ buffer = <<>>
  \/ line # <<>> /\ Cut(eol, Last(line), buffer, rest)

LEMMA LastLine ==
  ASSUME NEW ls \in Seq(Line), ls # <<>>
  PROVE  Front(ls) \in Seq(Line) /\ Last(ls) \in Line /\ ls = Append(Front(ls), Last(ls))
<1>1. Len(ls) \in Nat /\ Len(ls) # 0 /\ Len(ls) \in 1..Len(ls)
  BY EmptySeq, LenProperties
<1>2. SubSeq(ls, 1, Len(ls)) = ls
  BY SubSeqFull
<1>3. /\ ls[Len(ls)] \in Line /\ SubSeq(ls, 1, Len(ls) - 1) \in Seq(Line)
      /\ SubSeq(ls, 1, Len(ls)) = Append(SubSeq(ls, 1, Len(ls) - 1), ls[Len(ls)])
  BY <1>1, PrefixAppend
<1> QED  BY <1>2, <1>3, Zenon DEF Front, Last

LEMMA WholeIs ==
  ASSUME line \in Seq(Line), Cursor, eol \in LineEnds
  PROVE  /\ Anthropic!Whole(line, rest) \in Seq(Line)
         /\ rest = <<>> => Anthropic!Whole(line, rest) = line
         /\ rest # <<>> => /\ line # <<>> /\ Cut(eol, Last(line), buffer, rest)
                           /\ Anthropic!Whole(line, rest) = Front(line)
                           /\ Last(line) \in Line
                           /\ line = Append(Front(line), Last(line))
<1>1. CASE rest = <<>>
  BY <1>1 DEF Anthropic!Whole
<1>2. CASE rest # <<>>
  <2>1. line # <<>> /\ Cut(eol, Last(line), buffer, rest)
    BY <1>2 DEF Cursor
  <2>2. Anthropic!Whole(line, rest) = Front(line)
    BY <1>2, AnthropicLibrary DEF Anthropic!Whole
  <2> QED  BY <1>2, <2>1, <2>2, LastLine
<1> QED  BY <1>1, <1>2

LEMMA NothingCut ==
  ASSUME rest = <<>>
  PROVE  Anthropic!WithTrailer(line, rest) = Anthropic!Whole(line, rest)
<1>1. Anthropic!Piece(Anthropic!Last(line), 2) \notin Anthropic!Range(rest)
  BY DEF Anthropic!Range
<1> QED  BY <1>1 DEF Anthropic!WithTrailer

LEMMA TrailerIs ==
  ASSUME line \in Seq(Line), Cursor, eol \in LineEnds, rest # <<>>
  PROVE  Anthropic!WithTrailer(line, rest)
           = IF Last(line) = Anthropic!Blank THEN Front(line)
             ELSE IF Second(Last(line)) \in Anthropic!Range(rest)
                  THEN Append(Front(line), Anthropic!Malformed) ELSE line
<1>1. Anthropic!Whole(line, rest) = Front(line)
  BY WholeIs
<1>2. Anthropic!Last(line) = Last(line) /\ Anthropic!Front(line) = Front(line)
  BY AnthropicLibrary
<1>3. Last(line) = Anthropic!Blank => Second(Last(line)) \notin Anthropic!Range(rest)
  <2> SUFFICES ASSUME Last(line) = Anthropic!Blank
               PROVE  Second(Last(line)) \notin Anthropic!Range(rest)
    OBVIOUS
  <2>1. rest = <<Anthropic!LF>>
    BY WholeIs DEF Cut
  <2> QED  BY <2>1, BytesDiffer DEF Anthropic!Range
<1> DEFINE p == Second(Last(line))
           w == Anthropic!Whole(line, rest)
<1>4. Anthropic!Piece(Anthropic!Last(line), 2) = p
  BY <1>2, Zenon DEF Second
<1> HIDE DEF p, w
<1>5. Anthropic!WithTrailer(line, rest)
        = CASE rest = <<>> \/ Last(line) = Anthropic!Blank -> w
            [] p \in Anthropic!Range(rest) -> Append(Front(line), Anthropic!Malformed)
            [] OTHER -> line
  BY <1>2, <1>4, Zenon DEF Anthropic!WithTrailer, w
<1> QED  BY <1>1, <1>3, <1>5 DEF p, w

LEMMA TrailerExtends ==
  ASSUME line \in Seq(Line), Cursor, eol \in LineEnds
  PROVE  LET W == Anthropic!Whole(line, rest)
             V == Anthropic!WithTrailer(line, rest)
         IN V \in Seq(Line) /\ Len(W) <= Len(V) /\ \A k \in 1..Len(W) : V[k] = W[k]
<1> DEFINE W == Anthropic!Whole(line, rest)
           V == Anthropic!WithTrailer(line, rest)
<1>1. W \in Seq(Line) /\ Len(W) \in Nat /\ Len(W) <= Len(W)
  <2>1. W \in Seq(Line)
    BY WholeIs
  <2> HIDE DEF W
  <2> QED  BY <2>1, LenProperties
<1>2. CASE V = W
  BY <1>1, <1>2, Zenon
<1>3. CASE V # W
  <2>1. rest # <<>>
    BY <1>3, NothingCut
  <2>2. W = Front(line) /\ Last(line) \in Line /\ line = Append(Front(line), Last(line))
    BY <2>1, WholeIs
  <2>3. \E l \in Line : V = Append(W, l)
    BY <1>3, <2>1, <2>2, TrailerIs, HalfLine
  <2>4. \A l \in Line : /\ Append(W, l) \in Seq(Line) /\ Len(W) <= Len(Append(W, l))
                        /\ \A k \in 1..Len(W) : Append(W, l)[k] = W[k]
    <3> HIDE DEF W
    <3> QED  BY <1>1
  <2> HIDE DEF V, W
  <2>5. V \in Seq(Line) /\ Len(W) <= Len(V) /\ \A k \in 1..Len(W) : V[k] = W[k]
    BY <2>3, <2>4, Zenon
  <2> QED  BY <2>5 DEF V, W
<1> QED  BY <1>2, <1>3

LEMMA TrailerProgress ==
  ASSUME line \in Seq(Line), Cursor, eol \in LineEnds, NEW o, NEW map,
         Progress(Anthropic!Whole(line, rest), <<>>, o, map)
  PROVE  /\ Anthropic!NonBlank(buffer) \in Seq(Scrap)
         /\ Progress(Anthropic!WithTrailer(line, rest), Anthropic!NonBlank(buffer), o, map)
<1> DEFINE n == Anthropic!NonBlank(buffer)
           W == Anthropic!Whole(line, rest)
           V == Anthropic!WithTrailer(line, rest)
<1>1. CASE rest = <<>>
  <2>1. buffer = <<>>
    BY <1>1, NextByte, LastLine DEF Cursor
  <2>2. n = <<>>
    BY <2>1, NonBlankIs
  <2>3. V = W
    BY <1>1, NothingCut
  <2> QED  BY <2>2, <2>3, NoLine
<1>2. CASE rest # <<>>
  <2> DEFINE l == Last(line)
             half == Second(l) \in Anthropic!Range(rest)
  <2>1. /\ line # <<>> /\ Cut(eol, l, buffer, rest) /\ W = Front(line) /\ l \in Line
        /\ line = Append(Front(line), l)
    BY <1>2, WholeIs
  <2>2. /\ n \in Seq(Scrap)
        /\ Collected(Wire, n) = Solid[IF half /\ l # Anthropic!Blank THEN Anthropic!Malformed ELSE l]
    BY <2>1, Trailing
  <2>3. V = IF l = Anthropic!Blank THEN Front(line)
            ELSE IF half THEN Append(Front(line), Anthropic!Malformed) ELSE line
    BY <1>2, TrailerIs
  <2>4. <<>> \o n = n
    BY <2>2, ConcatEmptySeq
  <2> HIDE DEF l, half, n, V, W
  <2>5. CASE l = Anthropic!Blank
    <3>1. Collected(Wire, n) = <<>>
      BY <2>1, <2>2, <2>5 DEF Solid
    <3>2. n = <<>>
      <4> SUFFICES ASSUME n # <<>> PROVE FALSE
        OBVIOUS
      <4>1. n[1] \in Scrap /\ Tail(n) \in Seq(Scrap) /\ n = <<n[1]>> \o Tail(n)
            /\ <<n[1]>> \in Seq(Scrap)
        BY <2>2
      <4>2. Collected(Wire, n) = <<Anthropic!WireEvent(n[1])>> \o Collected(Wire, Tail(n))
        BY <4>1, WireConcat, Zenon
      <4>3. Anthropic!WireEvent(n[1]) \in Line /\ Collected(Wire, Tail(n)) \in Seq(Line)
        BY <4>1, ScrapEvents, WireConcat
      <4> QED  BY <3>1, <4>2, <4>3, LineHead, Zenon
    <3> QED  BY <2>1, <2>2, <2>3, <2>5, <3>2 DEF n, V, W
  <2>6. CASE l # Anthropic!Blank
    <3> DEFINE m == IF half THEN Anthropic!Malformed ELSE l
    <3>1. m \in Line /\ Collected(Wire, n) = Solid[m] /\ V = Append(W, m)
      BY <2>1, <2>2, <2>3, <2>6, HalfLine
    <3> HIDE DEF m
    <3>2. Progress(Append(W, m), <<>> \o n, o, map)
      BY <2>2, <3>1, OneLine DEF W
    <3> QED  BY <2>2, <2>4, <3>1, <3>2, Zenon DEF n, V
  <2> QED  BY <2>5, <2>6
<1> QED  BY <1>1, <1>2

(***************************************************************************)
(* The invariant: what has been fed and not yet decoded is what the        *)
(* consumer is behind by; a stream that has closed has given all of it,    *)
(* and then one terminal item.                                             *)
(***************************************************************************)
AnthropicTexts ==
  /\ eol \in LineEnds /\ line \in Seq(Line)
  /\ lines \in Seq(Scrap) /\ fed \in Seq(Scrap)
  /\ phase \in {"new", "reading", "flushing", "closed"}

AnthropicNew ==
  phase = "new" =>
    /\ line = <<>> /\ rest = <<>> /\ buffer = <<>> /\ fed = <<>> /\ lines = <<>> /\ out = <<>>
    /\ conn = "up" /\ index_map = [i \in Indices |-> NoId]

AnthropicReading ==
  phase = "reading" =>
    /\ Cursor
    /\ fed = <<>> \/ lines = <<>>
    /\ Progress(Anthropic!Whole(line, rest), lines \o fed, out, index_map)

AnthropicFlushing ==
  phase = "flushing" =>
    /\ conn = "eof" /\ fed = <<>>
    /\ Progress(Anthropic!WithTrailer(line, rest), lines, out, index_map)

AnthropicClosed ==
  phase = "closed" =>
    /\ Anthropic!Meaning(Anthropic!Received) \in Seq(Event)
    /\ Anthropic!Verdict(Anthropic!Received) \in {DoneItem, ErrItem}
    /\ out = Append(Anthropic!Meaning(Anthropic!Received), Anthropic!Verdict(Anthropic!Received))

AnthropicHolds ==
  /\ AnthropicTexts
  /\ AnthropicNew /\ AnthropicReading /\ AnthropicFlushing /\ AnthropicClosed

-----------------------------------------------------------------------------
LEMMA ItemsDiffer ==
  /\ Anthropic!DoneItem = DoneItem /\ Anthropic!ErrItem = ErrItem
  /\ Anthropic!Terminals = {DoneItem, ErrItem} /\ Terminals = {DoneItem, ErrItem}
  /\ \A e \in Event : e # DoneItem /\ e # ErrItem
<1>1. \A e \in Event : e.kind \in {"plain", "tool"}
  BY DEF Event, Anthropic!Plain
<1>2. DoneItem.kind = "Done" /\ ErrItem.kind = "Err"
  BY DEF DoneItem, ErrItem
<1> QED  BY <1>1, <1>2 DEF Anthropic!DoneItem, DoneItem, Anthropic!ErrItem, ErrItem,
                           Anthropic!Terminals, Terminals

LEMMA VerdictIs ==
  \A ls : Anthropic!Verdict(ls) =
            IF Anthropic!FirstStop(ls) = 0 THEN IF conn = "eof" THEN DoneItem ELSE ErrItem
            ELSE IF ls[Anthropic!FirstStop(ls)] = Anthropic!MessageStop THEN DoneItem ELSE ErrItem
BY ItemsDiffer DEF Anthropic!Verdict

LEMMA NothingYet ==
  ASSUME NEW map, map = [i \in Indices |-> NoId]
  PROVE  Progress(<<>>, <<>>, <<>>, map)
<1>1. <<>> \in Seq(Line) /\ <<>> \in Seq(Scrap) /\ Len(<<>>) = 0 /\ 0 \in 0..Len(<<>>)
  BY EmptySeq
<1>2. Decoded(<<>>, 0, <<>>, map)
  <2>1. map = [i \in Indices |-> Owner(<<>>, 0, i)]
    BY OwnerFirst
  <2>2. \A k \in 1..0 : ~Stopping(<<>>, k)
    OBVIOUS
  <2> QED  BY <1>1, <2>1, <2>2, YieldedFirst, Zenon DEF Decoded
<1>3. Solids(<<>>, 0) \o Collected(Wire, <<>>) = Solids(<<>>, Len(<<>>))
  <2>1. Solids(<<>>, 0) \in Seq(Line)
    BY <1>1, SolidsType
  <2> QED  BY <1>1, <2>1, CollectedEmpty, LineEmpty, Zenon
<1> QED  BY <1>1, <1>2, <1>3, Zenon DEF Progress, Standing

LEMMA AnthropicStarts ==
  ASSUME Anthropic!Init
  PROVE  AnthropicHolds
<1>1. AnthropicTexts
  BY EmptySeq DEF Anthropic!Init, AnthropicTexts, LineEnds
<1>2. AnthropicNew /\ phase = "new"
  BY DEF Anthropic!Init, AnthropicNew
<1> QED  BY <1>1, <1>2 DEF AnthropicHolds, AnthropicReading, AnthropicFlushing, AnthropicClosed

LEMMA OpenStep ==
  ASSUME AnthropicHolds, Anthropic!Open
  PROVE  AnthropicHolds'
<1> USE DEF Anthropic!Open
<1>1. /\ line = <<>> /\ rest = <<>> /\ buffer = <<>> /\ fed = <<>> /\ lines = <<>> /\ out = <<>>
      /\ conn = "up" /\ index_map = [i \in Indices |-> NoId]
  BY DEF AnthropicHolds, AnthropicNew
<1>2. AnthropicTexts'
  BY DEF AnthropicHolds, AnthropicTexts
<1>3. Anthropic!Whole(<<>>, <<>>) = <<>>
  BY DEF Anthropic!Whole
<1>4. CASE phase' = "reading" /\ UNCHANGED out
  <2>1. Cursor'
    BY <1>1 DEF Cursor
  <2>2. <<>> \o <<>> = <<>>
    OBVIOUS
  <2>3. AnthropicReading'
    BY <1>1, <1>3, <1>4, <2>1, <2>2, NothingYet DEF AnthropicReading
  <2> QED  BY <1>2, <1>4, <2>3 DEF AnthropicHolds, AnthropicNew, AnthropicFlushing, AnthropicClosed
<1>5. CASE phase' = "closed" /\ out' = <<Anthropic!ErrItem>>
  <2>1. Anthropic!Received' = <<>> /\ conn' = "up"
    BY <1>1, <1>3 DEF Anthropic!Received
  <2>2. Anthropic!Meaning(<<>>) = <<>> /\ Anthropic!FirstStop(<<>>) = 0
    BY NothingYet, NothingLeft
  <2>3. Anthropic!Verdict(Anthropic!Received)' = ErrItem
    BY <2>1, <2>2, ItemsDiffer DEF Anthropic!Verdict
  <2>4. Append(<<>>, ErrItem) = <<ErrItem>> /\ <<>> \in Seq(Event)
    OBVIOUS
  <2>5. AnthropicClosed'
    BY <1>5, <2>1, <2>2, <2>3, <2>4, ItemsDiffer, Zenon DEF AnthropicClosed
  <2> QED  BY <1>2, <1>5, <2>5 DEF AnthropicHolds, AnthropicNew, AnthropicFlushing, AnthropicReading
<1> QED  BY <1>4, <1>5

LEMMA FeedStep ==
  ASSUME AnthropicHolds, Anthropic!FeedByte
  PROVE  AnthropicHolds'
<1>1. /\ phase = "reading" /\ lines = <<>> /\ eol' = eol /\ phase' = phase /\ lines' = lines
      /\ index_map' = index_map /\ out' = out
  BY DEF Anthropic!FeedByte
<1>2. eol \in LineEnds /\ line \in Seq(Line) /\ fed \in Seq(Scrap) /\ Cursor
  BY <1>1 DEF AnthropicHolds, AnthropicTexts, AnthropicReading
<1>3. Progress(Anthropic!Whole(line, rest), fed, out, index_map)
  <2>1. <<>> \o fed = fed
    BY <1>2, ConcatEmptySeq
  <2> QED  BY <1>1, <2>1 DEF AnthropicHolds, AnthropicReading
<1> DEFINE Good == /\ line' \in Seq(Line) /\ fed' \in Seq(Scrap) /\ Cursor'
                   /\ Progress(Anthropic!Whole(line', rest'), fed', out, index_map)
<1>4. ASSUME rest # <<>> /\ Anthropic!Take(rest) /\ line' = line PROVE Good
  <2> DEFINE l == Last(line)
             n == Anthropic!NonBlank(buffer)
  <2>1. /\ line # <<>> /\ Cut(eol, l, buffer, rest) /\ Anthropic!Whole(line, rest) = Front(line)
        /\ l \in Line /\ line = Append(Front(line), l)
    BY <1>2, <1>4, WholeIs
  <2>2. /\ rest' = Tail(rest)
        /\ buffer' = IF rest[1] = Anthropic!LF THEN <<>> ELSE Append(buffer, rest[1])
        /\ fed' = IF rest[1] = Anthropic!LF THEN fed \o n ELSE fed
    BY <1>4 DEF Anthropic!Take
  <2> HIDE DEF l, n
  <2>3. CASE /\ rest[1] = Anthropic!LF /\ Tail(rest) = <<>>
             /\ n \in Seq(Scrap) /\ Collected(Wire, n) = Solid[l]
    <3>1. rest' = <<>> /\ buffer' = <<>> /\ fed' = fed \o n
      BY <2>2, <2>3
    <3>2. Anthropic!Whole(line', rest') = line
      BY <1>4, <3>1 DEF Anthropic!Whole
    <3>3. Progress(Append(Front(line), l), fed \o n, out, index_map)
      BY <1>3, <2>1, <2>3, OneLine
    <3>4. fed' \in Seq(Scrap)
      BY <1>2, <2>3, <3>1, ConcatProperties
    <3> QED  BY <1>2, <1>4, <2>1, <3>1, <3>2, <3>3, <3>4 DEF Cursor
  <2>4. CASE /\ rest[1] # Anthropic!LF /\ Tail(rest) # <<>>
             /\ Cut(eol, l, Append(buffer, rest[1]), Tail(rest))
    <3>1. rest' = Tail(rest) /\ buffer' = Append(buffer, rest[1]) /\ fed' = fed /\ rest' # <<>>
      BY <2>2, <2>4
    <3>2. Anthropic!Whole(line', rest') = Front(line)
      BY <1>4, <3>1, AnthropicLibrary DEF Anthropic!Whole
    <3>3. Cursor'
      BY <1>1, <1>4, <2>1, <2>4, <3>1 DEF Cursor, l
    <3> QED  BY <1>2, <1>3, <1>4, <2>1, <3>1, <3>2, <3>3
  <2> QED  BY <1>2, <2>1, <2>3, <2>4, NextByte DEF n
<1>5. ASSUME rest = <<>>, NEW l \in Line, line' = Append(line, l),
             Anthropic!Take(Anthropic!Bytes(l, eol))
      PROVE  Good
  <2> DEFINE b == Anthropic!Bytes(l, eol)
  <2>1. buffer = <<>> /\ Anthropic!Whole(line, rest) = line
    BY <1>2, <1>5, NextByte, LastLine DEF Cursor, Anthropic!Whole
  <2>2. line' \in Seq(Line) /\ line' # <<>> /\ Last(line') = l /\ Front(line') = line
    <3>1. Append(line, l) \in Seq(Line) /\ Append(line, l) # <<>>
      BY <1>2
    <3>2. Last(Append(line, l)) = l /\ Front(Append(line, l)) = line
      BY <1>2 DEF Last, Front
    <3> QED  BY <1>5, <3>1, <3>2, Zenon
  <2>3. /\ rest' = Tail(b)
        /\ buffer' = IF b[1] = Anthropic!LF THEN <<>> ELSE Append(<<>>, b[1])
        /\ fed' = IF b[1] = Anthropic!LF THEN fed \o Anthropic!NonBlank(<<>>) ELSE fed
    BY <1>5, <2>1 DEF Anthropic!Take
  <2>4. \/ b[1] = Anthropic!LF /\ l = Anthropic!Blank /\ Tail(b) = <<>>
        \/ b[1] # Anthropic!LF /\ Tail(b) # <<>> /\ Cut(eol, l, Append(<<>>, b[1]), Tail(b))
    BY <1>2, FirstByte
  <2> HIDE DEF b
  <2>5. CASE b[1] = Anthropic!LF /\ l = Anthropic!Blank /\ Tail(b) = <<>>
    <3>1. rest' = <<>> /\ buffer' = <<>> /\ fed' = fed \o <<>>
      BY <2>3, <2>5, NonBlankIs
    <3>2. Progress(Append(line, l), fed \o <<>>, out, index_map)
      BY <1>3, <2>1, <2>5, NoLine, OneLine
    <3>3. Anthropic!Whole(line', rest') = line'
      BY <3>1 DEF Anthropic!Whole
    <3>4. fed \o <<>> \in Seq(Scrap)
      BY <1>2, ConcatEmptySeq
    <3> QED  BY <1>5, <2>2, <3>1, <3>2, <3>3, <3>4 DEF Cursor
  <2>6. CASE b[1] # Anthropic!LF /\ Tail(b) # <<>> /\ Cut(eol, l, Append(<<>>, b[1]), Tail(b))
    <3>1. rest' = Tail(b) /\ buffer' = Append(<<>>, b[1]) /\ fed' = fed /\ rest' # <<>>
      BY <2>3, <2>6
    <3>2. Anthropic!Whole(line', rest') = line
      BY <2>2, <3>1, AnthropicLibrary DEF Anthropic!Whole
    <3>3. Cursor'
      BY <1>1, <2>2, <2>6, <3>1 DEF Cursor
    <3> QED  BY <1>2, <1>3, <2>1, <2>2, <3>1, <3>2, <3>3
  <2> QED  BY <2>4, <2>5, <2>6
<1>6. Good
  <2> HIDE DEF Good
  <2>1. \/ rest # <<>> /\ Anthropic!Take(rest) /\ line' = line
        \/ /\ rest = <<>>
           /\ \E l \in Line : line' = Append(line, l) /\ Anthropic!Take(Anthropic!Bytes(l, eol))
    BY Zenon DEF Anthropic!FeedByte, Line
  <2> QED  BY <1>4, <1>5, <2>1
<1>7. lines' \o fed' = fed'
  BY <1>1, <1>6, ConcatEmptySeq
<1>8. AnthropicReading'
  BY <1>1, <1>6, <1>7 DEF AnthropicReading
<1>9. AnthropicTexts'
  BY <1>1, <1>6 DEF AnthropicHolds, AnthropicTexts
<1> QED  BY <1>1, <1>8, <1>9 DEF AnthropicHolds, AnthropicNew, AnthropicFlushing, AnthropicClosed

LEMMA EndChunkStep ==
  ASSUME AnthropicHolds, Anthropic!EndChunk
  PROVE  AnthropicHolds'
<1> USE DEF Anthropic!EndChunk
<1>1. fed \in Seq(Scrap) /\ <<>> \in Seq(Scrap)
  BY EmptySeq DEF AnthropicHolds, AnthropicTexts
<1>2. <<>> \o fed = fed /\ fed \o <<>> = fed
  BY <1>1, ConcatEmptySeq
<1>3. Cursor /\ Progress(Anthropic!Whole(line, rest), fed, out, index_map)
  BY <1>2 DEF AnthropicHolds, AnthropicReading
<1>4. Cursor'
  BY <1>3 DEF Cursor
<1>5. AnthropicReading'
  BY <1>2, <1>3, <1>4 DEF AnthropicReading
<1>6. AnthropicTexts'
  BY <1>1 DEF AnthropicHolds, AnthropicTexts
<1> QED  BY <1>5, <1>6 DEF AnthropicHolds, AnthropicNew, AnthropicFlushing, AnthropicClosed

LEMMA DecodeStep ==
  ASSUME AnthropicHolds, Anthropic!Decode
  PROVE  AnthropicHolds'
<1> DEFINE l == Anthropic!WireEvent(lines[1])
           i == Anthropic!Item(index_map, l)
           W == IF phase = "flushing" THEN Anthropic!WithTrailer(line, rest)
                ELSE Anthropic!Whole(line, rest)
           V == Anthropic!Received
<1>1. /\ phase \in {"reading", "flushing"} /\ lines # <<>>
      /\ out' = out \o i /\ index_map' = Anthropic!IndexMap(index_map, l)
      /\ phase' = IF Anthropic!HasTerminal(i) THEN "closed" ELSE phase
      /\ lines' = Tail(lines)
      /\ UNCHANGED <<eol, line, rest, conn, buffer, fed>>
  BY DEF Anthropic!Decode
<1>2. eol \in LineEnds /\ line \in Seq(Line) /\ lines \in Seq(Scrap) /\ fed \in Seq(Scrap)
  BY DEF AnthropicHolds, AnthropicTexts
<1>3. fed = <<>> /\ Progress(W, lines, out, index_map)
  <2>1. lines \o <<>> = lines
    BY <1>2, ConcatEmptySeq
  <2>2. CASE phase = "reading"
    BY <1>1, <2>1, <2>2 DEF AnthropicHolds, AnthropicReading
  <2>3. CASE phase = "flushing"
    BY <2>3 DEF AnthropicHolds, AnthropicFlushing
  <2> QED  BY <1>1, <2>2, <2>3
<1>4. V \in Seq(Line) /\ Len(W) <= Len(V) /\ \A k \in 1..Len(W) : V[k] = W[k]
  <2>1. W \in Seq(Line)
    BY <1>3 DEF Progress
  <2>2. Len(W) <= Len(W)
    <3> HIDE DEF W
    <3> QED  BY <2>1, LenProperties
  <2>3. CASE V = W
    <3> HIDE DEF V, W
    <3> QED  BY <2>1, <2>2, <2>3
  <2>4. CASE V # W
    <3>1. conn = "eof" /\ phase = "reading"
      BY <1>1, <2>4 DEF AnthropicHolds, AnthropicFlushing, Anthropic!Received
    <3>2. Cursor /\ V = Anthropic!WithTrailer(line, rest) /\ W = Anthropic!Whole(line, rest)
      BY <3>1 DEF AnthropicHolds, AnthropicReading, Anthropic!Received
    <3> HIDE DEF V, W
    <3> QED  BY <1>2, <3>2, TrailerExtends
  <2> QED  BY <2>3, <2>4
<1>5. \/ /\ i \in Seq(Event)
         /\ Progress(W, Tail(lines), out \o i, Anthropic!IndexMap(index_map, l))
      \/ /\ out \in Seq(Event) /\ out = Anthropic!Meaning(V)
         /\ Anthropic!FirstStop(V) # 0
         /\ i = <<IF V[Anthropic!FirstStop(V)] = Anthropic!MessageStop THEN DoneItem ELSE ErrItem>>
  <2> HIDE DEF V, W
  <2> QED  BY <1>1, <1>3, <1>4, NextLine
<1>6. Tail(lines) \in Seq(Scrap)
  BY <1>1, <1>2
<1>7. CASE /\ i \in Seq(Event)
           /\ Progress(W, Tail(lines), out \o i, Anthropic!IndexMap(index_map, l))
  <2>1. ~Anthropic!HasTerminal(i)
    <3>1. \A k \in DOMAIN i : i[k] \in Event
      <4> HIDE DEF i
      <4> QED  BY <1>7, LenProperties, ElementOfSeq
    <3> HIDE DEF i
    <3> QED  BY <3>1, ItemsDiffer DEF Anthropic!HasTerminal
  <2>2. phase' = phase
    BY <1>1, <2>1
  <2>3. Tail(lines) \o <<>> = Tail(lines)
    BY <1>6, ConcatEmptySeq
  <2> HIDE DEF i, l
  <2>4. AnthropicTexts'
    BY <1>1, <1>2, <1>3, <1>6, <2>2 DEF AnthropicTexts, AnthropicHolds
  <2>5. CASE phase = "reading"
    <3>1. Cursor'
      BY <1>1, <2>5 DEF AnthropicHolds, AnthropicReading, Cursor
    <3>2. AnthropicReading'
      BY <1>1, <1>3, <1>7, <2>3, <2>5, <3>1 DEF AnthropicReading
    <3> QED  BY <2>2, <2>4, <2>5, <3>2
              DEF AnthropicHolds, AnthropicNew, AnthropicFlushing, AnthropicClosed
  <2>6. CASE phase = "flushing"
    <3>1. AnthropicFlushing'
      BY <1>1, <1>3, <1>7, <2>6 DEF AnthropicHolds, AnthropicFlushing
    <3> QED  BY <2>2, <2>4, <2>6, <3>1
              DEF AnthropicHolds, AnthropicNew, AnthropicReading, AnthropicClosed
  <2> QED  BY <1>1, <2>5, <2>6
<1>8. ASSUME out \in Seq(Event), out = Anthropic!Meaning(V), Anthropic!FirstStop(V) # 0,
             i = <<IF V[Anthropic!FirstStop(V)] = Anthropic!MessageStop THEN DoneItem ELSE ErrItem>>
      PROVE  AnthropicHolds'
  <2> DEFINE t == IF V[Anthropic!FirstStop(V)] = Anthropic!MessageStop THEN DoneItem ELSE ErrItem
  <2>1. t \in {DoneItem, ErrItem} /\ Anthropic!Verdict(V) = t
    BY <1>8, VerdictIs
  <2>2. i = <<t>>
    BY <1>8
  <2> HIDE DEF t, i
  <2>3. Anthropic!HasTerminal(i)
    <3>1. 1 \in DOMAIN i /\ i[1] = t
      BY <2>2
    <3> QED  BY <2>1, <3>1, ItemsDiffer DEF Anthropic!HasTerminal
  <2>4. phase' = "closed"
    BY <1>1, <2>3 DEF i
  <2>5. out' = Append(out, t)
    <3>1. out' = out \o <<t>>
      BY <1>1, <2>2 DEF i
    <3> QED  BY <1>8, <3>1
  <2>6. V' = V /\ Anthropic!Verdict(V)' = Anthropic!Verdict(V)
        /\ Anthropic!Meaning(V)' = Anthropic!Meaning(V)
    BY <1>1 DEF Anthropic!Received, Anthropic!Verdict
  <2>7. AnthropicClosed'
    BY <1>8, <2>1, <2>5, <2>6, Zenon DEF AnthropicClosed
  <2>8. AnthropicTexts'
    BY <1>1, <1>2, <1>6, <2>4 DEF AnthropicTexts
  <2> QED  BY <2>4, <2>7, <2>8 DEF AnthropicHolds, AnthropicNew, AnthropicReading, AnthropicFlushing
<1> QED  BY <1>5, <1>7, <1>8

LEMMA CloseStep ==
  ASSUME AnthropicHolds, Anthropic!ReadError \/ Anthropic!Finish
  PROVE  AnthropicHolds'
<1> DEFINE V == Anthropic!Received
           t == IF conn = "eof" THEN DoneItem ELSE ErrItem
<1>1. lines = <<>> /\ fed = <<>> /\ phase' = "closed" /\ out' = Append(out, t)
      /\ UNCHANGED <<eol, line, rest, conn, buffer, fed, lines, index_map>>
  <2>1. CASE Anthropic!ReadError
    BY <2>1, ItemsDiffer DEF Anthropic!ReadError
  <2>2. CASE Anthropic!Finish
    BY <2>2, ItemsDiffer DEF Anthropic!Finish, AnthropicHolds, AnthropicFlushing
  <2> QED  BY <2>1, <2>2
<1>2. Progress(V, <<>>, out, index_map)
  <2>1. CASE Anthropic!ReadError
    <3>1. phase = "reading" /\ conn = "reset" /\ <<>> \o <<>> = <<>>
      BY <2>1 DEF Anthropic!ReadError
    <3> QED  BY <1>1, <3>1 DEF AnthropicHolds, AnthropicReading, Anthropic!Received
  <2>2. CASE Anthropic!Finish
    <3>1. phase = "flushing"
      BY <2>2 DEF Anthropic!Finish
    <3> QED  BY <1>1, <3>1 DEF AnthropicHolds, AnthropicFlushing, Anthropic!Received
  <2> QED  BY <2>1, <2>2
<1>3. out \in Seq(Event) /\ out = Anthropic!Meaning(V) /\ Anthropic!FirstStop(V) = 0
  <2> HIDE DEF V
  <2> QED  BY <1>2, NothingLeft
<1>4. t \in {DoneItem, ErrItem} /\ Anthropic!Verdict(V) = t
  BY <1>3, VerdictIs
<1>5. V' = V /\ Anthropic!Verdict(V)' = Anthropic!Verdict(V)
      /\ Anthropic!Meaning(V)' = Anthropic!Meaning(V)
  BY <1>1 DEF Anthropic!Received, Anthropic!Verdict
<1> HIDE DEF t
<1>6. AnthropicClosed'
  BY <1>1, <1>3, <1>4, <1>5, Zenon DEF AnthropicClosed
<1>7. AnthropicTexts'
  BY <1>1 DEF AnthropicHolds, AnthropicTexts
<1> QED  BY <1>1, <1>6, <1>7 DEF AnthropicHolds, AnthropicNew, AnthropicReading, AnthropicFlushing

LEMMA FlushStep ==
  ASSUME AnthropicHolds, Anthropic!Flush
  PROVE  AnthropicHolds'
<1> USE DEF Anthropic!Flush
<1>1. eol \in LineEnds /\ line \in Seq(Line) /\ Cursor
  BY DEF AnthropicHolds, AnthropicTexts, AnthropicReading
<1>2. Progress(Anthropic!Whole(line, rest), <<>>, out, index_map)
  <2>1. <<>> \o <<>> = <<>>
    OBVIOUS
  <2> QED  BY <2>1 DEF AnthropicHolds, AnthropicReading
<1>3. /\ Anthropic!NonBlank(buffer) \in Seq(Scrap)
      /\ Progress(Anthropic!WithTrailer(line, rest), Anthropic!NonBlank(buffer), out, index_map)
  BY <1>1, <1>2, TrailerProgress
<1>4. AnthropicFlushing'
  BY <1>3 DEF AnthropicFlushing
<1>5. AnthropicTexts'
  BY <1>3 DEF AnthropicHolds, AnthropicTexts
<1> QED  BY <1>4, <1>5 DEF AnthropicHolds, AnthropicNew, AnthropicReading, AnthropicClosed

LEMMA HangUpStep ==
  ASSUME AnthropicHolds, Anthropic!HangUp
  PROVE  AnthropicHolds'
<1> USE DEF Anthropic!HangUp
<1>1. AnthropicReading'
  BY DEF AnthropicHolds, AnthropicReading, Cursor
<1>2. AnthropicTexts'
  BY DEF AnthropicHolds, AnthropicTexts
<1> QED  BY <1>1, <1>2 DEF AnthropicHolds, AnthropicNew, AnthropicFlushing, AnthropicClosed

LEMMA AnthropicStep ==
  ASSUME AnthropicHolds, Anthropic!Next \/ UNCHANGED <<streamVars, anthropicVars>>
  PROVE  AnthropicHolds'
<1>1. CASE UNCHANGED <<streamVars, anthropicVars>>
  <2>1. UNCHANGED <<eol, line, rest, conn, phase, buffer, fed, lines, index_map, out>>
    BY <1>1 DEF streamVars, anthropicVars
  <2>2. Anthropic!Received' = Anthropic!Received
    BY <2>1 DEF Anthropic!Received
  <2>3. Anthropic!Verdict(Anthropic!Received)' = Anthropic!Verdict(Anthropic!Received)
        /\ Anthropic!Meaning(Anthropic!Received)' = Anthropic!Meaning(Anthropic!Received)
    BY <2>1, <2>2 DEF Anthropic!Verdict
  <2>4. AnthropicTexts' /\ AnthropicNew' /\ AnthropicReading' /\ AnthropicFlushing'
    BY <2>1 DEF AnthropicHolds, AnthropicTexts, AnthropicNew, AnthropicReading, Cursor,
                AnthropicFlushing
  <2>5. AnthropicClosed'
    BY <2>1, <2>3 DEF AnthropicHolds, AnthropicClosed
  <2> QED  BY <2>4, <2>5 DEF AnthropicHolds
<1>2. CASE Anthropic!Next
  BY <1>2, OpenStep, FeedStep, EndChunkStep, DecodeStep, CloseStep, FlushStep, HangUpStep
     DEF Anthropic!Next, Anthropic!Generator
<1> QED  BY <1>1, <1>2

(***************************************************************************)
(* The properties.  Without its last item, what a closed stream has given  *)
(* are its events.                                                         *)
(***************************************************************************)
Item == Event \cup {DoneItem, ErrItem}
Kept == [e \in Item |-> IF e \in Terminals THEN <<>> ELSE <<e>>]

LEMMA EventsOf ==
  ASSUME NEW o \in Seq(Event), NEW t \in {DoneItem, ErrItem}
  PROVE  /\ Anthropic!Events(Append(o, t)) = o
         /\ Last(Append(o, t)) = t
         /\ Anthropic!HasTerminal(Append(o, t))
         /\ \A k \in DOMAIN Append(o, t) : Append(o, t)[k] \in Terminals => k = Len(Append(o, t))
<1> DEFINE s == Append(o, t)
<1>1. o \in Seq(Item) /\ t \in Item /\ Len(o) \in Nat
  <2>1. Event \subseteq Item
    BY DEF Item
  <2> QED  BY <2>1, SeqMonotonic, LenProperties DEF Item
<1>2. /\ s \in Seq(Item) /\ Len(s) = Len(o) + 1 /\ DOMAIN s = 1..Len(s)
      /\ s[Len(s)] = t /\ \A k \in 1..Len(o) : s[k] = o[k]
  BY <1>1
<1>3. Lists(Kept, Item, Item)
  <2>1. ASSUME NEW e \in Item PROVE Kept[e] \in Seq(Item)
    BY EmptySeq DEF Kept
  <2> QED  BY <2>1 DEF Lists
<1>4. Anthropic!Events(s) = Collected(Kept, s)
  <2> HIDE DEF s
  <2>1. \A k \in DOMAIN s : s[k] \in Item
    BY <1>2, ElementOfSeq
  <2>2. [k \in DOMAIN s |-> IF s[k] \in Anthropic!Terminals THEN <<>> ELSE <<s[k]>>]
          = [k \in DOMAIN s |-> Kept[s[k]]]
    BY <2>1, ItemsDiffer DEF Kept
  <2> QED  BY <2>2, AnthropicLibrary, Zenon DEF Anthropic!Events, Collected, Mapped
<1>5. Collected(Kept, s) = Collected(Kept, o) \o Kept[t]
  BY <1>1, <1>3, CollectedAppend
<1>6. Collected(Kept, o) = o
  <2>1. \A k \in 1..Len(o) : Kept[o[k]] = <<o[k]>>
    <3>1. \A k \in 1..Len(o) : o[k] \in Event
      BY ElementOfSeq
    <3> QED  BY <3>1, ItemsDiffer DEF Kept, Item
  <2> QED  BY <1>1, <1>3, <2>1, CollectedSame
<1>7. Kept[t] = <<>>
  BY <1>1, ItemsDiffer DEF Kept
<1>8. o \o <<>> = o
  BY ConcatEmptySeq
<1>9. Last(s) = t
  <2> HIDE DEF s
  <2> QED  BY <1>2, Zenon DEF Last
<1>10. Anthropic!HasTerminal(s)
  <2>1. Len(s) \in DOMAIN s
    BY <1>1, <1>2
  <2> HIDE DEF s
  <2> QED  BY <1>2, <2>1, ItemsDiffer DEF Anthropic!HasTerminal
<1>11. \A k \in DOMAIN s : s[k] \in Terminals => k = Len(s)
  <2>1. \A k \in 1..Len(o) : o[k] \in Event
    BY ElementOfSeq
  <2>2. \A k \in DOMAIN s : k = Len(s) \/ k \in 1..Len(o)
    BY <1>1, <1>2
  <2> HIDE DEF s
  <2> QED  BY <1>2, <2>1, <2>2, ItemsDiffer
<1> HIDE DEF s
<1> QED  BY <1>4, <1>5, <1>6, <1>7, <1>8, <1>9, <1>10, <1>11, Zenon DEF s

LEMMA NoTerminal ==
  ASSUME NEW o \in Seq(Event)
  PROVE  ~Anthropic!HasTerminal(o) /\ \A k \in DOMAIN o : o[k] \notin Terminals
<1>1. \A k \in DOMAIN o : o[k] \in Event
  BY LenProperties, ElementOfSeq
<1> QED  BY <1>1, ItemsDiffer DEF Anthropic!HasTerminal

LEMMA AnthropicSurfaces ==
  ASSUME AnthropicHolds
  PROVE  Anthropic!EverythingSurfaces /\ Anthropic!OneTerminal
<1>1. CASE phase = "closed"
  <2> DEFINE o == Anthropic!Meaning(Anthropic!Received)
             t == Anthropic!Verdict(Anthropic!Received)
  <2>1. o \in Seq(Event) /\ t \in {DoneItem, ErrItem} /\ out = Append(o, t)
    BY <1>1 DEF AnthropicHolds, AnthropicClosed
  <2>2. /\ Anthropic!Events(out) = o /\ Last(out) = t /\ Anthropic!HasTerminal(out)
        /\ \A k \in DOMAIN out : out[k] \in Terminals => k = Len(out)
    <3> HIDE DEF o, t
    <3> QED  BY <2>1, EventsOf
  <2> QED  BY <1>1, <2>2, AnthropicLibrary, ItemsDiffer
           DEF Anthropic!EverythingSurfaces, Anthropic!OneTerminal
<1>2. CASE phase # "closed"
  <2>1. out \in Seq(Event)
    <3>1. CASE phase = "new"
      BY <3>1, EmptySeq DEF AnthropicHolds, AnthropicNew
    <3>2. ASSUME NEW W, NEW q, Progress(W, q, out, index_map) PROVE out \in Seq(Event)
      <4>1. PICK d \in 0..Len(W) : W \in Seq(Line) /\ Decoded(W, d, out, index_map)
        BY <3>2 DEF Progress, Standing
      <4> QED  BY <4>1, YieldedNext DEF Decoded
    <3> QED  BY <1>2, <3>1, <3>2
             DEF AnthropicHolds, AnthropicTexts, AnthropicReading, AnthropicFlushing
  <2>2. ~Anthropic!HasTerminal(out) /\ \A k \in DOMAIN out : out[k] \notin Terminals
    BY <2>1, NoTerminal
  <2> QED  BY <1>2, <2>2, ItemsDiffer
           DEF Anthropic!EverythingSurfaces, Anthropic!OneTerminal, AnthropicHolds,
               AnthropicReading
<1> QED  BY <1>1, <1>2

-----------------------------------------------------------------------------
(***************************************************************************)
(* The stream of the OpenAI-compatible adapter.  A byte off a response.    *)
(***************************************************************************)
LEMMA HeadTail ==
  ASSUME NEW S, NEW x \in S, NEW u \in Seq(S)
  PROVE  /\ <<x>> \o u \in Seq(S) /\ <<x>> \o u # <<>> /\ Len(<<x>> \o u) = Len(u) + 1
         /\ (<<x>> \o u)[1] = x /\ Tail(<<x>> \o u) = u
<1> DEFINE s == <<x>> \o u
           t == Tail(s)
<1>1. s \in Seq(S) /\ Len(s) = Len(u) + 1 /\ Len(u) \in Nat /\ s[1] = x /\ s # <<>>
  OBVIOUS
<1>2. \A i \in 1..Len(u) : s[i + 1] = u[i]
  OBVIOUS
<1> HIDE DEF s
<1>3. t \in Seq(S) /\ Len(t) = Len(u) /\ \A i \in 1..Len(u) : t[i] = s[i + 1]
  BY <1>1
<1> HIDE DEF t
<1>4. t = u
  BY <1>2, <1>3, SeqEqual
<1> QED  BY <1>1, <1>4 DEF s, t

OpenAiEnds == {<<OpenAi!LF>>, <<OpenAi!CR>>, <<OpenAi!CR, OpenAi!LF>>}
Payload == {f.payload : f \in OpenAi!Frames}
Bite == {OpenAi!LF, OpenAi!CR, OpenAi!Aside} \cup {OpenAi!Piece(p, n) : p \in Payload, n \in {1, 2}}

LEMMA BitesDiffer ==
  /\ OpenAi!CR # OpenAi!LF /\ OpenAi!Aside # OpenAi!LF /\ OpenAi!Aside # OpenAi!CR
  /\ \A p, n : /\ OpenAi!Piece(p, n) # OpenAi!LF /\ OpenAi!Piece(p, n) # OpenAi!CR
               /\ OpenAi!Piece(p, n) # OpenAi!Aside
BY DEF OpenAi!CR, OpenAi!LF, OpenAi!Aside, OpenAi!Piece

LEMMA BitesAre ==
  /\ OpenAi!LF \in Bite /\ OpenAi!CR \in Bite /\ OpenAi!Aside \in Bite
  /\ \A f \in OpenAi!Frames :
       OpenAi!Piece(f.payload, 1) \in Bite /\ OpenAi!Piece(f.payload, 2) \in Bite
BY DEF Bite, Payload

(***************************************************************************)
(* What is left of the bytes r is t, up to the second half of a line end.  *)
(***************************************************************************)
Left(e, cr, r, t) ==
  \/ r = t /\ (e = <<OpenAi!CR>> \/ ~cr)
  \/ e = <<OpenAi!CR, OpenAi!LF>> /\ cr /\ r = <<OpenAi!LF>> \o t

IsParser(p) ==
  p = [line_buffer |-> p.line_buffer, pending_data |-> p.pending_data,
       completed |-> p.completed, saw_cr |-> p.saw_cr] /\ p.saw_cr \in BOOLEAN

LEMMA LineEndHalf ==
  ASSUME NEW p, IsParser(p), p.saw_cr, NEW t \in Seq(Bite), NEW r, r = <<OpenAi!LF>> \o t,
         NEW e, e = <<OpenAi!CR, OpenAi!LF>>
  PROVE  LET q == OpenAi!Byte(p, r[1]) IN
         /\ r # <<>> /\ IsParser(q) /\ Left(e, q.saw_cr, Tail(r), t)
         /\ q.line_buffer = p.line_buffer /\ q.pending_data = p.pending_data
         /\ q.completed = p.completed
<1>1. r # <<>> /\ r[1] = OpenAi!LF /\ Tail(r) = t
  BY BitesAre, HeadTail
<1>2. OpenAi!Byte(p, r[1]) = [p EXCEPT !.saw_cr = FALSE]
  BY <1>1, BitesDiffer DEF OpenAi!Byte
<1> QED  BY <1>1, <1>2 DEF IsParser, Left

Takes(p, e, x, t, r) ==
  LET q == OpenAi!Byte(p, r[1]) IN
  /\ r # <<>> /\ IsParser(q) /\ Left(e, q.saw_cr, Tail(r), t)
  /\ q.line_buffer = Append(p.line_buffer, x) /\ q.pending_data = p.pending_data
  /\ q.completed = p.completed

LEMMA PieceByte ==
  ASSUME NEW p, IsParser(p), NEW e, NEW x \in Bite, x # OpenAi!LF, x # OpenAi!CR,
         NEW t \in Seq(Bite)
  PROVE  Takes(p, e, x, t, <<x>> \o t)
<1> DEFINE r == <<x>> \o t
<1>1. r # <<>> /\ r[1] = x /\ Tail(r) = t
  BY HeadTail
<1> HIDE DEF r
<1>2. OpenAi!Byte(p, r[1]) = [p EXCEPT !.saw_cr = FALSE, !.line_buffer = Append(@, x)]
  BY <1>1 DEF OpenAi!Byte
<1>3. Takes(p, e, x, t, r)
  BY <1>1, <1>2 DEF IsParser, Left, Takes
<1> QED  BY <1>3 DEF r

(***************************************************************************)
(* The first byte of a line end flushes the line.                          *)
(***************************************************************************)
LEMMA EndByte ==
  ASSUME NEW p, IsParser(p), NEW e \in OpenAiEnds, NEW t \in Seq(Bite), NEW r, r = e \o t,
         e = <<OpenAi!CR>> \/ ~p.saw_cr
  PROVE  LET q == OpenAi!Byte(p, r[1])
             z == OpenAi!FlushLine(p)
         IN
         /\ r # <<>> /\ IsParser(q) /\ Left(e, q.saw_cr, Tail(r), t)
         /\ q.line_buffer = z.line_buffer /\ q.pending_data = z.pending_data
         /\ q.completed = z.completed
<1> DEFINE z == OpenAi!FlushLine(p)
           y == [p EXCEPT !.saw_cr = ~@]
           f == OpenAi!FlushLine(y)
<1>1. IsParser(y) /\ y.line_buffer = p.line_buffer /\ y.pending_data = p.pending_data
      /\ y.completed = p.completed /\ y.saw_cr = ~p.saw_cr
  BY DEF IsParser
<1>2. IsParser(z) /\ z.saw_cr = p.saw_cr
  BY DEF OpenAi!FlushLine, IsParser
<1> HIDE DEF y
<1>3. IsParser(f) /\ f.saw_cr = ~p.saw_cr /\ f.line_buffer = z.line_buffer
      /\ f.pending_data = z.pending_data /\ f.completed = z.completed
  BY <1>1 DEF OpenAi!FlushLine, IsParser
<1> HIDE DEF z, f
<1>4. CASE e = <<OpenAi!LF>>
  <2>1. r # <<>> /\ r[1] = OpenAi!LF /\ Tail(r) = t
    BY <1>4, BitesAre, HeadTail
  <2>2. ~p.saw_cr
    BY <1>4, BitesDiffer
  <2>3. OpenAi!Byte(p, r[1]) = z
    BY <2>1, <2>2, BitesDiffer DEF OpenAi!Byte, z
  <2> QED  BY <1>2, <2>1, <2>2, <2>3 DEF Left, z
<1>5. CASE e = <<OpenAi!CR>>
  <2>1. r # <<>> /\ r[1] = OpenAi!CR /\ Tail(r) = t
    BY <1>5, BitesAre, HeadTail
  <2>2. OpenAi!Byte(p, r[1]) = f
    BY <2>1, BitesDiffer DEF OpenAi!Byte, f, y
  <2> QED  BY <1>3, <1>5, <2>1, <2>2 DEF Left, z
<1>6. CASE e = <<OpenAi!CR, OpenAi!LF>>
  <2>1. r = <<OpenAi!CR>> \o (<<OpenAi!LF>> \o t) /\ <<OpenAi!LF>> \o t \in Seq(Bite)
    <3>1. e = <<OpenAi!CR>> \o <<OpenAi!LF>>
      BY <1>6, Joined, Zenon
    <3>2. <<OpenAi!CR>> \in Seq(Bite) /\ <<OpenAi!LF>> \in Seq(Bite)
      BY BitesAre
    <3>3. \A u, v, w \in Seq(Bite) : (u \o v) \o w = u \o (v \o w)
      BY ConcatAssociative
    <3>4. <<OpenAi!LF>> \o t \in Seq(Bite)
      BY BitesAre, HeadTail
    <3> QED  BY <3>1, <3>2, <3>3, <3>4, Zenon
  <2>2. r # <<>> /\ r[1] = OpenAi!CR /\ Tail(r) = <<OpenAi!LF>> \o t
    BY <2>1, BitesAre, HeadTail
  <2>3. OpenAi!Byte(p, r[1]) = f
    BY <2>2, BitesDiffer DEF OpenAi!Byte, f, y
  <2>4. ~p.saw_cr
    <3>1. <<OpenAi!CR, OpenAi!LF>> # <<OpenAi!CR>>
      OBVIOUS
    <3> QED  BY <1>6, <3>1
  <2>5. f.saw_cr
    BY <1>3, <2>4
  <2> QED  BY <1>3, <1>6, <2>2, <2>3, <2>5 DEF Left, z
<1> QED  BY <1>4, <1>5, <1>6 DEF OpenAiEnds

(***************************************************************************)
(* What a line end does to the parser.                                     *)
(***************************************************************************)
LEMMA FlushIs ==
  ASSUME NEW p, IsParser(p)
  PROVE  LET z == OpenAi!FlushLine(p) IN
         /\ p.line_buffer = <<>> /\ p.pending_data = <<>> => z = p
         /\ p.line_buffer = <<>> /\ p.pending_data # <<>>
              => /\ z.line_buffer = <<>> /\ z.pending_data = <<>>
                 /\ z.completed = Append(p.completed, p.pending_data)
         /\ p.line_buffer # <<>> /\ p.line_buffer[1] = OpenAi!Aside
              => /\ z.line_buffer = <<>> /\ z.pending_data = p.pending_data
                 /\ z.completed = p.completed
         /\ p.line_buffer # <<>> /\ p.line_buffer[1] # OpenAi!Aside
              => /\ z.line_buffer = <<>> /\ z.pending_data = p.pending_data \o p.line_buffer
                 /\ z.completed = p.completed
BY DEF OpenAi!FlushLine, IsParser

(***************************************************************************)
(* The bytes of a frame, one after the other.                              *)
(***************************************************************************)
Fore(f) == OpenAi!Piece(f.payload, 1)
Back(f) == OpenAi!Piece(f.payload, 2)
LastEnd(e) == e \o <<>>
TwoEnds(e) == e \o LastEnd(e)
BackOn(e, f) == <<Back(f)>> \o TwoEnds(e)

LEMMA EndsAre ==
  ASSUME NEW e \in OpenAiEnds
  PROVE  /\ e \in Seq(Bite) /\ LastEnd(e) \in Seq(Bite) /\ TwoEnds(e) \in Seq(Bite)
         /\ LastEnd(e) = e
         /\ \A f \in OpenAi!Frames :
              BackOn(e, f) \in Seq(Bite) /\ e \o BackOn(e, f) \in Seq(Bite)
<1>1. e \in Seq(Bite)
  <2>1. \A x, y \in Bite : <<x>> \in Seq(Bite) /\ <<x, y>> \in Seq(Bite)
    OBVIOUS
  <2>2. e = <<OpenAi!LF>> \/ e = <<OpenAi!CR>> \/ e = <<OpenAi!CR, OpenAi!LF>>
    BY DEF OpenAiEnds
  <2> QED  BY <2>1, <2>2, BitesAre
<1>2. LastEnd(e) = e
  BY <1>1, ConcatEmptySeq DEF LastEnd
<1>3. \A u, v \in Seq(Bite) : u \o v \in Seq(Bite)
  BY ConcatProperties
<1>4. TwoEnds(e) \in Seq(Bite)
  BY <1>1, <1>2, <1>3, Zenon DEF TwoEnds
<1>5. ASSUME NEW f \in OpenAi!Frames
      PROVE  BackOn(e, f) \in Seq(Bite) /\ e \o BackOn(e, f) \in Seq(Bite)
  <2>1. Back(f) \in Bite
    BY BitesAre DEF Back
  <2>2. BackOn(e, f) \in Seq(Bite)
    BY <1>4, <2>1, HeadTail DEF BackOn
  <2> QED  BY <1>1, <1>3, <2>2, Zenon
<1> QED  BY <1>1, <1>2, <1>4, <1>5

LEMMA FrameBytes ==
  ASSUME NEW e \in OpenAiEnds, NEW f \in OpenAi!Frames
  PROVE  OpenAi!Bytes(f, e)
           = IF f.payload = OpenAi!Aside THEN <<OpenAi!Aside>> \o TwoEnds(e)
             ELSE IF f.wrapped THEN <<Fore(f)>> \o (e \o BackOn(e, f))
             ELSE <<Fore(f)>> \o BackOn(e, f)
<1> DEFINE a == <<OpenAi!Aside>>
           x == <<Fore(f)>>
           y == <<Back(f)>>
<1>1. /\ a \in Seq(Bite) /\ x \in Seq(Bite) /\ y \in Seq(Bite) /\ e \in Seq(Bite)
      /\ <<>> \in Seq(Bite)
  BY BitesAre, EndsAre DEF Fore, Back
<1>2. \A u, v, w \in Seq(Bite) : (u \o v) \o w = u \o (v \o w)
  BY ConcatAssociative
<1>3. \A u, v \in Seq(Bite) : u \o v \in Seq(Bite)
  BY ConcatProperties
<1>4. \A u \in Seq(Bite) : u \o <<>> = u /\ <<>> \o u = u
  BY ConcatEmptySeq
<1>5. TwoEnds(e) = e \o e
  BY EndsAre, Zenon DEF TwoEnds
<1>6. OpenAi!Bytes(f, e)
        = IF f.payload = OpenAi!Aside THEN (a \o e) \o e
          ELSE (((x \o (IF f.wrapped THEN e ELSE <<>>)) \o y) \o e) \o e
  BY DEF OpenAi!Bytes, Fore, Back
<1>7. BackOn(e, f) = y \o (e \o e)
  BY <1>5 DEF BackOn
<1> HIDE DEF a, x, y
<1>8. (a \o e) \o e = a \o (e \o e)
  BY <1>1, <1>2, Zenon
<1>9. ASSUME NEW u \in Seq(Bite)
      PROVE  ((u \o y) \o e) \o e = u \o (y \o (e \o e))
  <2>0. u \o y \in Seq(Bite) /\ e \o e \in Seq(Bite)
    BY <1>1, <1>3
  <2>1. ((u \o y) \o e) \o e = (u \o y) \o (e \o e)
    BY <1>1, <1>2, <2>0
  <2>2. (u \o y) \o (e \o e) = u \o (y \o (e \o e))
    BY <1>1, <1>2, <2>0
  <2> QED  BY <2>1, <2>2
<1>10. CASE f.wrapped
  <2>1. (((x \o e) \o y) \o e) \o e = (x \o e) \o (y \o (e \o e))
    BY <1>1, <1>3, <1>9, Zenon
  <2>2. (x \o e) \o (y \o (e \o e)) = x \o (e \o (y \o (e \o e)))
    <3>1. e \o e \in Seq(Bite)
      BY <1>1, <1>3
    <3>2. y \o (e \o e) \in Seq(Bite)
      BY <1>1, <1>3, <3>1
    <3> QED  BY <1>1, <1>2, <3>2
  <2> QED  BY <1>5, <1>6, <1>7, <1>8, <1>10, <2>1, <2>2 DEF a, x
<1>11. CASE ~f.wrapped
  <2>1. (((x \o <<>>) \o y) \o e) \o e = x \o (y \o (e \o e))
    BY <1>1, <1>4, <1>9, Zenon
  <2> QED  BY <1>5, <1>6, <1>7, <1>8, <1>11, <2>1 DEF a, x
<1> QED  BY <1>10, <1>11

(***************************************************************************)
(* Where in a frame the parser is: what it holds of it, and what is left.  *)
(***************************************************************************)
InAside(e, f, lb, pd, t) ==
  /\ f.payload = OpenAi!Aside /\ pd = <<>>
  /\ \/ lb = <<OpenAi!Aside>> /\ t = TwoEnds(e)
     \/ lb = <<>> /\ t = LastEnd(e)

InPayload(e, f, lb, pd, t) ==
  /\ f.payload # OpenAi!Aside
  /\ \/ ~f.wrapped /\ lb = <<Fore(f)>> /\ pd = <<>> /\ t = BackOn(e, f)
     \/ ~f.wrapped /\ lb = <<Fore(f), Back(f)>> /\ pd = <<>> /\ t = TwoEnds(e)
     \/ f.wrapped /\ lb = <<Fore(f)>> /\ pd = <<>> /\ t = e \o BackOn(e, f)
     \/ f.wrapped /\ lb = <<>> /\ pd = <<Fore(f)>> /\ t = BackOn(e, f)
     \/ f.wrapped /\ lb = <<Back(f)>> /\ pd = <<Fore(f)>> /\ t = TwoEnds(e)
     \/ lb = <<>> /\ pd = <<Fore(f), Back(f)>> /\ t = LastEnd(e)

InFrame(e, f, lb, pd, t) ==
  \/ lb = <<>> /\ pd = <<>> /\ t = OpenAi!Bytes(f, e)
  \/ InAside(e, f, lb, pd, t) \/ InPayload(e, f, lb, pd, t)

Ready(f) ==
  IF f.payload = OpenAi!Aside THEN <<>> ELSE <<<<Fore(f), Back(f)>>>>

Moves(e, f, p, r, t) ==
  LET q == OpenAi!Byte(p, r[1]) IN
  /\ r # <<>> /\ IsParser(q)
  /\ \E u \in Seq(Bite) :
       /\ Left(e, q.saw_cr, Tail(r), u)
       /\ \/ /\ InFrame(e, f, q.line_buffer, q.pending_data, u)
             /\ u # <<>> /\ q.completed = p.completed
          \/ /\ q.line_buffer = <<>> /\ q.pending_data = <<>> /\ u = <<>>
             /\ q.completed = p.completed \o Ready(f)

LEMMA LeftOver ==
  ASSUME NEW e \in OpenAiEnds, NEW f \in OpenAi!Frames, NEW lb, NEW pd, NEW t,
         InFrame(e, f, lb, pd, t)
  PROVE  t \in Seq(Bite) /\ Len(e) <= Len(t) /\ t # <<>> /\ Len(e) \in {1, 2}
<1>1. e \in Seq(Bite) /\ Len(e) \in {1, 2}
  BY EndsAre DEF OpenAiEnds
<1>2. \A u \in Seq(Bite) : /\ e \o u \in Seq(Bite) /\ Len(e) <= Len(e \o u)
  <2>1. \A u \in Seq(Bite) : /\ e \o u \in Seq(Bite) /\ Len(e \o u) = Len(e) + Len(u)
                             /\ Len(u) \in Nat
    BY <1>1, ConcatProperties, LenProperties
  <2> QED  BY <1>1, <2>1
<1>3. \A x \in Bite, u \in Seq(Bite) :
        Len(e) <= Len(u) => <<x>> \o u \in Seq(Bite) /\ Len(e) <= Len(<<x>> \o u)
  <2>1. \A x \in Bite, u \in Seq(Bite) :
          <<x>> \o u \in Seq(Bite) /\ Len(<<x>> \o u) = Len(u) + 1 /\ Len(u) \in Nat
    BY HeadTail, LenProperties
  <2> QED  BY <1>1, <2>1
<1>4. LastEnd(e) \in Seq(Bite) /\ Len(e) <= Len(LastEnd(e))
  BY <1>1, EndsAre
<1>5. TwoEnds(e) \in Seq(Bite) /\ Len(e) <= Len(TwoEnds(e))
  BY <1>2, <1>4, Zenon DEF TwoEnds
<1>6. Fore(f) \in Bite /\ Back(f) \in Bite /\ OpenAi!Aside \in Bite
  BY BitesAre DEF Fore, Back
<1>7. BackOn(e, f) \in Seq(Bite) /\ Len(e) <= Len(BackOn(e, f))
  BY <1>3, <1>5, <1>6, Zenon DEF BackOn
<1>8. e \o BackOn(e, f) \in Seq(Bite) /\ Len(e) <= Len(e \o BackOn(e, f))
  BY <1>2, <1>7, Zenon
<1>9. OpenAi!Bytes(f, e) \in Seq(Bite) /\ Len(e) <= Len(OpenAi!Bytes(f, e))
  <2>1. CASE f.payload = OpenAi!Aside
    BY <1>3, <1>5, <1>6, <2>1, FrameBytes
  <2>2. CASE f.payload # OpenAi!Aside /\ f.wrapped
    BY <1>3, <1>6, <1>8, <2>2, FrameBytes
  <2>3. CASE f.payload # OpenAi!Aside /\ ~f.wrapped
    BY <1>3, <1>6, <1>7, <2>3, FrameBytes
  <2> QED  BY <2>1, <2>2, <2>3
<1>10. t \in Seq(Bite) /\ Len(e) <= Len(t)
  <2>1. t \in {OpenAi!Bytes(f, e), TwoEnds(e), LastEnd(e), BackOn(e, f), e \o BackOn(e, f)}
    BY DEF InFrame, InAside, InPayload
  <2> QED  BY <1>4, <1>5, <1>7, <1>8, <1>9, <2>1
<1>11. t # <<>>
  <2>1. Len(e) \in {1, 2} /\ Len(e) <= Len(t)
    BY <1>1, <1>10
  <2>2. Len(t) # 0
    BY <2>1
  <2>3. t = <<>> => Len(t) = 0
    OBVIOUS
  <2> QED  BY <2>2, <2>3
<1> QED  BY <1>1, <1>10, <1>11

(***************************************************************************)
(* One more byte of a frame.                                               *)
(***************************************************************************)
LEMMA ParserHalf ==
  ASSUME NEW e \in OpenAiEnds, NEW f \in OpenAi!Frames, NEW p, IsParser(p), NEW r, NEW t,
         InFrame(e, f, p.line_buffer, p.pending_data, t),
         e = <<OpenAi!CR, OpenAi!LF>>, p.saw_cr, r = <<OpenAi!LF>> \o t
  PROVE  Moves(e, f, p, r, t)
<1>1. t \in Seq(Bite) /\ t # <<>>
  BY LeftOver
<1> QED  BY <1>1, LineEndHalf DEF Moves

LEMMA ParserPiece ==
  ASSUME NEW e \in OpenAiEnds, NEW f \in OpenAi!Frames, NEW p, IsParser(p),
         NEW x \in Bite, x # OpenAi!LF, x # OpenAi!CR, NEW u \in Seq(Bite), NEW r, r = <<x>> \o u,
         InFrame(e, f, Append(p.line_buffer, x), p.pending_data, u)
  PROVE  Moves(e, f, p, r, <<x>> \o u)
<1> DEFINE q == OpenAi!Byte(p, r[1])
<1>1. u # <<>>
  BY LeftOver
<1>2. Takes(p, e, x, u, r)
  BY PieceByte
<1>3. /\ r # <<>> /\ IsParser(q) /\ Left(e, q.saw_cr, Tail(r), u)
      /\ q.line_buffer = Append(p.line_buffer, x) /\ q.pending_data = p.pending_data
      /\ q.completed = p.completed
  BY <1>2, Zenon DEF Takes
<1> HIDE DEF q
<1> QED  BY <1>1, <1>3 DEF Moves, q

LEMMA ParserEnd ==
  ASSUME NEW e \in OpenAiEnds, NEW f \in OpenAi!Frames, NEW p, IsParser(p),
         NEW u \in Seq(Bite), NEW r, r = e \o u, e = <<OpenAi!CR>> \/ ~p.saw_cr,
         LET z == OpenAi!FlushLine(p) IN
           \/ /\ InFrame(e, f, z.line_buffer, z.pending_data, u)
              /\ z.completed = p.completed
           \/ /\ z.line_buffer = <<>> /\ z.pending_data = <<>> /\ u = <<>>
              /\ z.completed = p.completed \o Ready(f)
  PROVE  Moves(e, f, p, r, e \o u)
<1> DEFINE z == OpenAi!FlushLine(p)
           q == OpenAi!Byte(p, r[1])
<1>1. /\ r # <<>> /\ IsParser(q) /\ Left(e, q.saw_cr, Tail(r), u)
      /\ q.line_buffer = z.line_buffer /\ q.pending_data = z.pending_data
      /\ q.completed = z.completed
  BY EndByte
<1>2. InFrame(e, f, z.line_buffer, z.pending_data, u) => u # <<>>
  BY LeftOver
<1> HIDE DEF q, z
<1>3. \/ /\ InFrame(e, f, q.line_buffer, q.pending_data, u)
         /\ u # <<>> /\ q.completed = p.completed
      \/ /\ q.line_buffer = <<>> /\ q.pending_data = <<>> /\ u = <<>>
         /\ q.completed = p.completed \o Ready(f)
  BY <1>1, <1>2 DEF z
<1> QED  BY <1>1, <1>3 DEF Moves, q

LEMMA ParserFrame ==
  ASSUME NEW e \in OpenAiEnds, NEW f \in OpenAi!Frames, NEW p, IsParser(p),
         p.completed \in Seq(Seq(Bite)), NEW t,
         InFrame(e, f, p.line_buffer, p.pending_data, t),
         e = <<OpenAi!CR>> \/ ~p.saw_cr
  PROVE  Moves(e, f, p, t, t)
<1> DEFINE lb == p.line_buffer
           pd == p.pending_data
           x == Fore(f)
           y == Back(f)
           a == OpenAi!Aside
           z == OpenAi!FlushLine(p)
<1>1. /\ x \in Bite /\ y \in Bite /\ a \in Bite
      /\ x # OpenAi!LF /\ x # OpenAi!CR /\ x # a
      /\ y # OpenAi!LF /\ y # OpenAi!CR /\ y # a
      /\ a # OpenAi!LF /\ a # OpenAi!CR
  BY BitesAre, BitesDiffer DEF Fore, Back
<1>2. /\ LastEnd(e) \in Seq(Bite) /\ TwoEnds(e) \in Seq(Bite) /\ BackOn(e, f) \in Seq(Bite)
      /\ e \o BackOn(e, f) \in Seq(Bite) /\ <<>> \in Seq(Bite)
  BY EndsAre
<1>3. /\ lb = <<>> /\ pd = <<>> => z = p
      /\ lb = <<>> /\ pd # <<>>
           => /\ z.line_buffer = <<>> /\ z.pending_data = <<>>
              /\ z.completed = Append(p.completed, pd)
      /\ lb # <<>> /\ lb[1] = a
           => /\ z.line_buffer = <<>> /\ z.pending_data = pd /\ z.completed = p.completed
      /\ lb # <<>> /\ lb[1] # a
           => /\ z.line_buffer = <<>> /\ z.pending_data = pd \o lb
              /\ z.completed = p.completed
  BY FlushIs
<1>4. /\ Append(<<>>, x) = <<x>> /\ Append(<<>>, y) = <<y>> /\ Append(<<>>, a) = <<a>>
      /\ <<x>>[1] = x /\ <<y>>[1] = y /\ <<a>>[1] = a /\ <<x, y>>[1] = x
      /\ <<x>> # <<>> /\ <<y>> # <<>> /\ <<a>> # <<>> /\ <<x, y>> # <<>>
      /\ <<>> \o <<x>> = <<x>> /\ <<>> \o <<x, y>> = <<x, y>>
  BY <1>1, ConcatEmptySeq
<1>5. Append(<<x>>, y) = <<x, y>> /\ <<x>> \o <<y>> = <<x, y>>
  BY Longer, Joined, Zenon
<1> HIDE DEF z, x, y, a, lb, pd
<1>6. CASE lb = <<>> /\ pd = <<>> /\ t = OpenAi!Bytes(f, e)
  <2>1. CASE f.payload = a
    <3>1. t = <<a>> \o TwoEnds(e)
      BY <1>6, <2>1, FrameBytes DEF a
    <3>2. InFrame(e, f, Append(lb, a), pd, TwoEnds(e))
      BY <1>4, <1>6, <2>1 DEF InFrame, InAside, a
    <3> QED  BY <1>1, <1>2, <3>1, <3>2, ParserPiece DEF lb, pd
  <2>2. CASE f.payload # a /\ f.wrapped
    <3>1. t = <<x>> \o (e \o BackOn(e, f))
      BY <1>6, <2>2, FrameBytes DEF a, x
    <3>2. InFrame(e, f, Append(lb, x), pd, e \o BackOn(e, f))
      BY <1>4, <1>6, <2>2 DEF InFrame, InPayload, a, x
    <3> QED  BY <1>1, <1>2, <3>1, <3>2, ParserPiece DEF lb, pd
  <2>3. CASE f.payload # a /\ ~f.wrapped
    <3>1. t = <<x>> \o BackOn(e, f)
      BY <1>6, <2>3, FrameBytes DEF a, x
    <3>2. InFrame(e, f, Append(lb, x), pd, BackOn(e, f))
      BY <1>4, <1>6, <2>3 DEF InFrame, InPayload, a, x
    <3> QED  BY <1>1, <1>2, <3>1, <3>2, ParserPiece DEF lb, pd
  <2> QED  BY <2>1, <2>2, <2>3
<1>7. CASE f.payload = a /\ pd = <<>> /\ lb = <<a>> /\ t = TwoEnds(e)
  <2>1. InFrame(e, f, z.line_buffer, z.pending_data, LastEnd(e)) /\ z.completed = p.completed
    BY <1>3, <1>4, <1>7 DEF InFrame, InAside, a
  <2> QED  BY <1>2, <1>7, <2>1, ParserEnd DEF TwoEnds, z
<1>8. CASE f.payload = a /\ pd = <<>> /\ lb = <<>> /\ t = LastEnd(e)
  <2>1. p.completed \o <<>> = p.completed
    BY ConcatEmptySeq
  <2>2. z.line_buffer = <<>> /\ z.pending_data = <<>> /\ z.completed = p.completed \o Ready(f)
    BY <1>3, <1>8, <2>1 DEF Ready, a, lb, pd
  <2> QED  BY <1>2, <1>8, <2>2, ParserEnd DEF LastEnd, z
<1>9. CASE f.payload # a /\ ~f.wrapped /\ lb = <<x>> /\ pd = <<>> /\ t = BackOn(e, f)
  <2>1. InFrame(e, f, Append(lb, y), pd, TwoEnds(e))
    BY <1>5, <1>9 DEF InFrame, InPayload, a, x, y
  <2> QED  BY <1>1, <1>2, <1>9, <2>1, ParserPiece DEF lb, pd, BackOn, y
<1>10. CASE f.payload # a /\ ~f.wrapped /\ lb = <<x, y>> /\ pd = <<>> /\ t = TwoEnds(e)
  <2>1. InFrame(e, f, z.line_buffer, z.pending_data, LastEnd(e)) /\ z.completed = p.completed
    BY <1>1, <1>3, <1>4, <1>10 DEF InFrame, InPayload, a, x, y
  <2> QED  BY <1>2, <1>10, <2>1, ParserEnd DEF TwoEnds, z
<1>11. CASE f.payload # a /\ f.wrapped /\ lb = <<x>> /\ pd = <<>> /\ t = e \o BackOn(e, f)
  <2>1. InFrame(e, f, z.line_buffer, z.pending_data, BackOn(e, f)) /\ z.completed = p.completed
    BY <1>1, <1>3, <1>4, <1>11 DEF InFrame, InPayload, a, x, y
  <2> QED  BY <1>2, <1>11, <2>1, ParserEnd DEF z
<1>12. CASE f.payload # a /\ f.wrapped /\ lb = <<>> /\ pd = <<x>> /\ t = BackOn(e, f)
  <2>1. InFrame(e, f, Append(lb, y), pd, TwoEnds(e))
    BY <1>4, <1>12 DEF InFrame, InPayload, a, x, y
  <2> QED  BY <1>1, <1>2, <1>12, <2>1, ParserPiece DEF lb, pd, BackOn, y
<1>13. CASE f.payload # a /\ f.wrapped /\ lb = <<y>> /\ pd = <<x>> /\ t = TwoEnds(e)
  <2>1. InFrame(e, f, z.line_buffer, z.pending_data, LastEnd(e)) /\ z.completed = p.completed
    BY <1>1, <1>3, <1>4, <1>5, <1>13 DEF InFrame, InPayload, a, x, y
  <2> QED  BY <1>2, <1>13, <2>1, ParserEnd DEF TwoEnds, z
<1>14. CASE f.payload # a /\ lb = <<>> /\ pd = <<x, y>> /\ t = LastEnd(e)
  <2>1. p.completed \o <<<<x, y>>>> = Append(p.completed, <<x, y>>)
    <3>1. <<x, y>> \in Seq(Bite)
      BY <1>1
    <3>2. \A s \in Seq(Seq(Bite)), b \in Seq(Bite) : Append(s, b) = s \o <<b>>
      BY AppendIsConcat
    <3> QED  BY <3>1, <3>2
  <2>2. z.line_buffer = <<>> /\ z.pending_data = <<>> /\ z.completed = p.completed \o Ready(f)
    BY <1>3, <1>4, <1>14, <2>1 DEF Ready, a, x, y
  <2> QED  BY <1>2, <1>14, <2>2, ParserEnd DEF LastEnd, z
<1>15. InFrame(e, f, lb, pd, t)
  BY DEF lb, pd
<1> QED  BY <1>6, <1>7, <1>8, <1>9, <1>10, <1>11, <1>12, <1>13, <1>14, <1>15
         DEF InFrame, InAside, InPayload, a, x, y

-----------------------------------------------------------------------------
(***************************************************************************)
(* A response: the bytes of its frames, and how far the parser is in them. *)
(***************************************************************************)
Parts(F, e) == [k \in DOMAIN F |-> OpenAi!Bytes(F[k], e)]

LEMMA EndsGrow ==
  ASSUME NEW T, NEW s \in Seq(Seq(T)), NEW i \in 0..Len(s), NEW j \in i..Len(s)
  PROVE  EndOf(s, i) <= EndOf(s, j)
<1> DEFINE Good == {d \in 0..j - i : EndOf(s, i) <= EndOf(s, i + d)}
<1>1. Len(s) \in Nat /\ i \in Nat /\ j \in Nat /\ j - i \in Nat /\ i + (j - i) = j /\ i + 0 = i
  BY LenProperties
<1>2. /\ \A k \in 0..Len(s) : EndOf(s, k) \in Nat
      /\ \A k \in 1..Len(s) : EndOf(s, k) = EndOf(s, k - 1) + Len(s[k]) /\ Len(s[k]) \in Nat
  BY EndsAscend
<1>3. 0 \in Good
  BY <1>1, <1>2
<1>4. ASSUME NEW d \in 0..j - i, d < j - i, d \in Good PROVE d + 1 \in Good
  <2>1. d + 1 \in 0..j - i /\ i + (d + 1) \in 1..Len(s) /\ (i + (d + 1)) - 1 = i + d
        /\ i + d \in 0..Len(s)
    BY <1>1, <1>4
  <2>2. EndOf(s, i + (d + 1)) = EndOf(s, i + d) + Len(s[i + (d + 1)])
        /\ Len(s[i + (d + 1)]) \in Nat /\ EndOf(s, i + d) \in Nat
    BY <1>2, <2>1
  <2>3. EndOf(s, i) <= EndOf(s, i + d) /\ EndOf(s, i) \in Nat
    BY <1>2, <1>4
  <2>4. EndOf(s, i) <= EndOf(s, i + (d + 1))
    BY <2>2, <2>3
  <2> QED  BY <2>1, <2>4
<1>5. j - i \in Good
  <2> HIDE DEF Good
  <2> QED  BY <1>1, <1>3, <1>4, Climb
<1> QED  BY <1>1, <1>5

LEMMA PartsAre ==
  ASSUME NEW F \in Seq(OpenAi!Frames), NEW e \in OpenAiEnds
  PROVE  /\ Parts(F, e) \in Seq(Seq(Bite)) /\ Len(Parts(F, e)) = Len(F)
         /\ \A k \in 1..Len(F) : Parts(F, e)[k] = OpenAi!Bytes(F[k], e)
         /\ OpenAi!BytesOf(F, e) = FlattenSeq(Parts(F, e))
<1>1. Len(F) \in Nat /\ DOMAIN F = 1..Len(F) /\ \A k \in 1..Len(F) : F[k] \in OpenAi!Frames
  BY LenProperties, ElementOfSeq
<1>2. \A k \in 1..Len(F) : OpenAi!Bytes(F[k], e) \in Seq(Bite)
  <2>1. \A f \in OpenAi!Frames : InFrame(e, f, <<>>, <<>>, OpenAi!Bytes(f, e))
    BY DEF InFrame
  <2>2. \A f \in OpenAi!Frames : OpenAi!Bytes(f, e) \in Seq(Bite)
    BY <2>1, LeftOver
  <2> QED  BY <1>1, <2>2
<1>3. Parts(F, e) \in Seq(Seq(Bite)) /\ Len(Parts(F, e)) = Len(F)
  <2> DEFINE g == Parts(F, e)
  <2>1. g = [k \in 1..Len(F) |-> g[k]] /\ \A k \in 1..Len(F) : g[k] \in Seq(Bite)
    BY <1>1, <1>2 DEF Parts
  <2> HIDE DEF g
  <2>2. g \in Seq(Seq(Bite)) /\ Len(g) = Len(F)
    BY <1>1, <2>1, ListOf
  <2> QED  BY <2>2 DEF g
<1>4. \A s : OpenAi!FlattenSeq(s) = FlattenSeq(s)
  BY DEF OpenAi!FlattenSeq, FlattenSeq
<1>5. OpenAi!BytesOf(F, e) = FlattenSeq(Parts(F, e))
  BY <1>4, Zenon DEF OpenAi!BytesOf, Parts
<1>6. \A k \in 1..Len(F) : Parts(F, e)[k] = OpenAi!Bytes(F[k], e)
  BY <1>1 DEF Parts
<1> QED  BY <1>3, <1>5, <1>6

LEMMA PartsPrefix ==
  ASSUME NEW F \in Seq(OpenAi!Frames), NEW e \in OpenAiEnds, NEW k \in 0..Len(F)
  PROVE  Len(OpenAi!BytesOf(SubSeq(F, 1, k), e)) = EndOf(Parts(F, e), k)
<1> DEFINE G == SubSeq(F, 1, k)
           P == Parts(F, e)
<1>1. G \in Seq(OpenAi!Frames) /\ Len(G) = k /\ \A i \in 1..k : G[i] = F[i]
  BY SplitAt
<1>2. Len(F) \in Nat /\ \A i \in 1..k : i \in 1..Len(F)
  BY LenProperties
<1> HIDE DEF G
<1>3. /\ Parts(G, e) \in Seq(Seq(Bite)) /\ Len(Parts(G, e)) = k
      /\ \A i \in 1..k : Parts(G, e)[i] = OpenAi!Bytes(F[i], e)
      /\ OpenAi!BytesOf(G, e) = FlattenSeq(Parts(G, e))
  BY <1>1, PartsAre
<1>4. /\ P \in Seq(Seq(Bite)) /\ Len(P) = Len(F)
      /\ \A i \in 1..Len(F) : P[i] = OpenAi!Bytes(F[i], e)
  BY PartsAre
<1> HIDE DEF P
<1>5. /\ SubSeq(P, 1, k) \in Seq(Seq(Bite)) /\ Len(SubSeq(P, 1, k)) = k
      /\ \A i \in 1..k : SubSeq(P, 1, k)[i] = P[i]
  BY <1>4, SplitAt
<1>6. Parts(G, e) = SubSeq(P, 1, k)
  <2>1. \A i \in 1..k : Parts(G, e)[i] = SubSeq(P, 1, k)[i]
    BY <1>2, <1>3, <1>4, <1>5
  <2> QED  BY <1>3, <1>5, <2>1, SeqEqual
<1> QED  BY <1>3, <1>6 DEF EndOf, G, P

(***************************************************************************)
(* The parser has seen n bytes: r is left of the k-th frame, and the first *)
(* m frames are complete.                                                  *)
(***************************************************************************)
Facing(F, e, n, k, r) ==
  /\ r \in Seq(Bite) /\ n + Len(r) = EndOf(Parts(F, e), k)
  /\ \A i \in 1..Len(r) : FlattenSeq(Parts(F, e))[n + i] = r[i]

Inside(F, e, n, p, k, r, m) ==
  /\ k \in 1..Len(F) /\ m = k - 1 /\ EndOf(Parts(F, e), k - 1) <= n
  /\ \E t \in Seq(Bite) : /\ Left(e, p.saw_cr, r, t)
                          /\ InFrame(e, F[k], p.line_buffer, p.pending_data, t)

Between(e, p, k, r, m) ==
  /\ m = k /\ p.line_buffer = <<>> /\ p.pending_data = <<>>
  /\ Left(e, p.saw_cr, r, <<>>)

Where(F, e, n, p, m) ==
  /\ IsParser(p) /\ p.completed \in Seq(Seq(Bite))
  /\ \E k \in 0..Len(F), r \in Seq(Bite) :
       Facing(F, e, n, k, r) /\ (Inside(F, e, n, p, k, r, m) \/ Between(e, p, k, r, m))

Took(F, e, n, p, q, m) ==
  \/ Where(F, e, n, q, m) /\ q.completed = p.completed
  \/ /\ m + 1 \in 1..Len(F) /\ Where(F, e, n, q, m + 1)
     /\ q.completed = p.completed \o Ready(F[m + 1])

LEMMA FacingNext ==
  ASSUME NEW F, NEW e, NEW n \in Nat, NEW k, NEW r, Facing(F, e, n, k, r), r # <<>>
  PROVE  Facing(F, e, n + 1, k, Tail(r)) /\ FlattenSeq(Parts(F, e))[n + 1] = r[1]
<1> DEFINE P == Parts(F, e)
           w == FlattenSeq(P)
           t == Tail(r)
<1>1. /\ r \in Seq(Bite) /\ n + Len(r) = EndOf(P, k) /\ Len(r) \in Nat /\ Len(r) # 0
      /\ \A i \in 1..Len(r) : w[n + i] = r[i]
  BY EmptySeq, LenProperties DEF Facing
<1> HIDE DEF w, P
<1>2. t \in Seq(Bite) /\ Len(t) = Len(r) - 1 /\ \A i \in 1..Len(t) : t[i] = r[i + 1]
  BY <1>1
<1> HIDE DEF t
<1>3. (n + 1) + Len(t) = EndOf(P, k)
  BY <1>1, <1>2
<1>4. ASSUME NEW i \in 1..Len(t) PROVE w[(n + 1) + i] = t[i]
  <2>1. i + 1 \in 1..Len(r) /\ n + (i + 1) = (n + 1) + i
    BY <1>1, <1>2
  <2> QED  BY <1>1, <1>2, <2>1
<1>5. w[n + 1] = r[1]
  BY <1>1
<1> QED  BY <1>2, <1>3, <1>4, <1>5 DEF Facing, w, P, t

LEMMA ReadyType ==
  ASSUME NEW f \in OpenAi!Frames, NEW s \in Seq(Seq(Bite))
  PROVE  Ready(f) \in Seq(Seq(Bite)) /\ s \o Ready(f) \in Seq(Seq(Bite))
<1>1. Fore(f) \in Bite /\ Back(f) \in Bite
  BY BitesAre DEF Fore, Back
<1>2. <<Fore(f), Back(f)>> \in Seq(Bite)
  BY <1>1
<1>3. Ready(f) \in Seq(Seq(Bite))
  BY <1>2, EmptySeq DEF Ready
<1> QED  BY <1>3, ConcatProperties

LEMMA InsideNext ==
  ASSUME NEW F \in Seq(OpenAi!Frames), NEW e \in OpenAiEnds, NEW n \in Nat, NEW p,
         IsParser(p), p.completed \in Seq(Seq(Bite)), NEW k, NEW r, NEW m,
         Facing(F, e, n, k, r), Inside(F, e, n, p, k, r, m)
  PROVE  Took(F, e, n + 1, p, OpenAi!Byte(p, FlattenSeq(Parts(F, e))[n + 1]), m)
<1> DEFINE f == F[k]
           q == OpenAi!Byte(p, r[1])
<1>1. k \in 1..Len(F) /\ f \in OpenAi!Frames /\ m = k - 1 /\ k \in 0..Len(F) /\ m + 1 = k
  BY ElementOfSeq, LenProperties DEF Inside
<1>2. PICK t \in Seq(Bite) : Left(e, p.saw_cr, r, t) /\ InFrame(e, f, p.line_buffer, p.pending_data, t)
  BY DEF Inside
<1>3. Moves(e, f, p, r, t)
  <2>1. CASE r = t /\ (e = <<OpenAi!CR>> \/ ~p.saw_cr)
    <3> HIDE DEF f
    <3>1. Moves(e, f, p, t, t)
      BY <1>1, <1>2, <2>1, ParserFrame
    <3> QED  BY <2>1, <3>1
  <2>2. CASE e = <<OpenAi!CR, OpenAi!LF>> /\ p.saw_cr /\ r = <<OpenAi!LF>> \o t
    <3> HIDE DEF f
    <3> QED  BY <1>1, <1>2, <2>2, ParserHalf
  <2> QED  BY <1>2, <2>1, <2>2 DEF Left
<1>4. PICK u \in Seq(Bite) :
        /\ Left(e, q.saw_cr, Tail(r), u)
        /\ \/ /\ InFrame(e, f, q.line_buffer, q.pending_data, u)
              /\ u # <<>> /\ q.completed = p.completed
           \/ /\ q.line_buffer = <<>> /\ q.pending_data = <<>> /\ u = <<>>
              /\ q.completed = p.completed \o Ready(f)
  BY <1>3 DEF Moves
<1>5. r # <<>> /\ IsParser(q)
  BY <1>3 DEF Moves
<1>6. /\ Facing(F, e, n + 1, k, Tail(r)) /\ FlattenSeq(Parts(F, e))[n + 1] = r[1]
      /\ Tail(r) \in Seq(Bite)
  BY <1>5, FacingNext DEF Facing
<1>7. EndOf(Parts(F, e), k - 1) <= n + 1
  <2>1. EndOf(Parts(F, e), k - 1) \in Nat
    <3>1. Parts(F, e) \in Seq(Seq(Bite)) /\ k - 1 \in 0..Len(Parts(F, e))
      BY <1>1, PartsAre
    <3> QED  BY <3>1, EndsAscend
  <2> QED  BY <2>1 DEF Inside
<1> HIDE DEF q
<1>8. CASE InFrame(e, f, q.line_buffer, q.pending_data, u) /\ q.completed = p.completed
  <2>1. Inside(F, e, n + 1, q, k, Tail(r), m)
    BY <1>1, <1>4, <1>7, <1>8 DEF Inside
  <2>2. Where(F, e, n + 1, q, m)
    BY <1>1, <1>5, <1>6, <1>8, <2>1 DEF Where
  <2> QED  BY <1>6, <1>8, <2>2 DEF Took, q
<1>9. CASE /\ q.line_buffer = <<>> /\ q.pending_data = <<>> /\ u = <<>>
           /\ q.completed = p.completed \o Ready(f)
  <2>1. Between(e, q, k, Tail(r), m + 1)
    BY <1>1, <1>4, <1>9 DEF Between
  <2>2. q.completed \in Seq(Seq(Bite))
    BY <1>1, <1>9, ReadyType
  <2>3. Where(F, e, n + 1, q, m + 1)
    BY <1>1, <1>5, <1>6, <2>1, <2>2 DEF Where
  <2> QED  BY <1>1, <1>6, <1>9, <2>3 DEF Took, q
<1> QED  BY <1>4, <1>8, <1>9

LEMMA BetweenNext ==
  ASSUME NEW F \in Seq(OpenAi!Frames), NEW e \in OpenAiEnds, NEW n \in Nat, NEW p,
         IsParser(p), p.completed \in Seq(Seq(Bite)), NEW k \in 0..Len(F), NEW r, NEW m,
         Facing(F, e, n, k, r), Between(e, p, k, r, m), n < Len(FlattenSeq(Parts(F, e)))
  PROVE  Took(F, e, n + 1, p, OpenAi!Byte(p, FlattenSeq(Parts(F, e))[n + 1]), m)
<1> DEFINE P == Parts(F, e)
           w == FlattenSeq(P)
<1>1. Len(F) \in Nat /\ P \in Seq(Seq(Bite)) /\ Len(P) = Len(F) /\ <<>> \in Seq(Bite)
      /\ \A i \in 1..Len(F) : P[i] = OpenAi!Bytes(F[i], e) /\ F[i] \in OpenAi!Frames
  BY PartsAre, LenProperties, ElementOfSeq, EmptySeq
<1>2. CASE r # <<>>
  <2> DEFINE q == OpenAi!Byte(p, r[1])
  <2>1. e = <<OpenAi!CR, OpenAi!LF>> /\ p.saw_cr /\ r = <<OpenAi!LF>> \o <<>>
    BY <1>2 DEF Between, Left
  <2>2. /\ IsParser(q) /\ Left(e, q.saw_cr, Tail(r), <<>>)
        /\ q.line_buffer = p.line_buffer /\ q.pending_data = p.pending_data
        /\ q.completed = p.completed
    BY <1>1, <2>1, LineEndHalf
  <2>3. /\ Facing(F, e, n + 1, k, Tail(r)) /\ w[n + 1] = r[1] /\ Tail(r) \in Seq(Bite)
    <3>1. Facing(F, e, n + 1, k, Tail(r)) /\ w[n + 1] = r[1]
      BY <1>2, FacingNext
    <3> QED  BY <3>1 DEF Facing
  <2> HIDE DEF q, w
  <2>4. Where(F, e, n + 1, q, m)
    BY <2>2, <2>3 DEF Where, Between
  <2> QED  BY <2>2, <2>3, <2>4 DEF Took, q, w
<1>3. CASE r = <<>>
  <2> DEFINE b == P[k + 1]
  <2>1. n = EndOf(P, k)
    BY <1>3, EndsAscend, PartsAre DEF Facing
  <2>2. EndOf(P, Len(F)) = Len(w)
    BY <1>1, EndsAscend
  <2>3. k # Len(F)
    BY <2>1, <2>2
  <2>4. k + 1 \in 1..Len(F) /\ k + 1 \in 0..Len(F) /\ (k + 1) - 1 = k
    BY <1>1, <2>3
  <2>5. b = OpenAi!Bytes(F[k + 1], e) /\ F[k + 1] \in OpenAi!Frames
    BY <1>1, <2>4
  <2>6. InFrame(e, F[k + 1], p.line_buffer, p.pending_data, b)
    BY <2>5 DEF InFrame, Between
  <2>7. b \in Seq(Bite)
    BY <2>5, <2>6, LeftOver
  <2>8. EndOf(P, k + 1) = EndOf(P, k) + Len(b)
    BY <1>1, <2>4, EndsAscend
  <2>9. \A j \in 1..Len(b) : w[EndOf(P, k) + j] = b[j]
    BY <1>1, <2>4, FlattenPlaces
  <2>10. Facing(F, e, n, k + 1, b)
    BY <2>1, <2>7, <2>8, <2>9 DEF Facing
  <2>11. Left(e, p.saw_cr, b, b)
    BY <1>3, BitesAre, HeadTail, EmptySeq DEF Between, Left
  <2>12. Inside(F, e, n, p, k + 1, b, m)
    BY <2>1, <2>4, <2>6, <2>7, <2>11 DEF Inside, Between
  <2> QED  BY <2>10, <2>12, InsideNext
<1> QED  BY <1>2, <1>3

LEMMA OneBite ==
  ASSUME NEW F \in Seq(OpenAi!Frames), NEW e \in OpenAiEnds, NEW n \in Nat, NEW p, NEW m,
         Where(F, e, n, p, m), n < Len(FlattenSeq(Parts(F, e)))
  PROVE  Took(F, e, n + 1, p, OpenAi!Byte(p, FlattenSeq(Parts(F, e))[n + 1]), m)
<1>1. PICK k \in 0..Len(F), r \in Seq(Bite) :
        Facing(F, e, n, k, r) /\ (Inside(F, e, n, p, k, r, m) \/ Between(e, p, k, r, m))
  BY DEF Where
<1>2. IsParser(p) /\ p.completed \in Seq(Seq(Bite))
  BY DEF Where
<1> QED  BY <1>1, <1>2, InsideNext, BetweenNext

LEMMA NoBite ==
  ASSUME NEW F \in Seq(OpenAi!Frames), NEW e \in OpenAiEnds
  PROVE  Where(F, e, 0, OpenAi!EmptyParser, 0)
<1> DEFINE p == OpenAi!EmptyParser
<1>1. IsParser(p) /\ p.completed = <<>> /\ p.line_buffer = <<>> /\ p.pending_data = <<>>
      /\ ~p.saw_cr
  BY DEF OpenAi!EmptyParser, IsParser
<1>2. p.completed \in Seq(Seq(Bite)) /\ <<>> \in Seq(Bite) /\ Len(<<>>) = 0 /\ 0 \in 0..Len(F)
  BY <1>1, EmptySeq, LenProperties
<1>3. EndOf(Parts(F, e), 0) = 0
  BY PartsAre, EndsAscend
<1>4. Facing(F, e, 0, 0, <<>>)
  BY <1>2, <1>3 DEF Facing
<1>5. Between(e, p, 0, <<>>, 0)
  BY <1>1 DEF Between, Left
<1> HIDE DEF p
<1> QED  BY <1>1, <1>2, <1>4, <1>5 DEF Where, p

(***************************************************************************)
(* The complete frames, counted as the reference counts them.              *)
(***************************************************************************)
LEMMA FramesDone ==
  ASSUME NEW F \in Seq(OpenAi!Frames), NEW e \in OpenAiEnds, NEW n \in Nat, NEW p, NEW m,
         Where(F, e, n, p, m)
  PROVE  /\ m \in 0..Len(F)
         /\ {k \in 1..Len(F) : EndOf(Parts(F, e), k) - Len(e) + 1 <= n} = 1..m
<1> DEFINE P == Parts(F, e)
<1>1. PICK k \in 0..Len(F), r \in Seq(Bite) :
        Facing(F, e, n, k, r) /\ (Inside(F, e, n, p, k, r, m) \/ Between(e, p, k, r, m))
  BY DEF Where
<1>2. Len(F) \in Nat /\ P \in Seq(Seq(Bite)) /\ Len(P) = Len(F) /\ Len(r) \in Nat
  BY PartsAre, LenProperties
<1>0. \A a \in Nat, d \in {1, 2} : a <= n => a - d + 1 <= n
  OBVIOUS
<1>3. /\ \A j \in 0..Len(F) : EndOf(P, j) \in Nat
      /\ \A i \in 0..Len(F) : \A j \in i..Len(F) : EndOf(P, i) <= EndOf(P, j)
  BY <1>2, EndsAscend, EndsGrow
<1>4. n + Len(r) = EndOf(P, k) /\ Len(e) \in {1, 2}
  BY <1>1 DEF Facing, OpenAiEnds
<1> HIDE DEF P
<1>5. /\ m \in 0..Len(F)
      /\ \A j \in 1..m : EndOf(P, j) - Len(e) + 1 <= n
      /\ \A j \in m + 1..Len(F) : ~(EndOf(P, j) - Len(e) + 1 <= n)
  <2>1. CASE Inside(F, e, n, p, k, r, m)
    <3>1. k \in 1..Len(F) /\ m = k - 1 /\ EndOf(P, k - 1) <= n
      BY <2>1 DEF Inside, P
    <3>2. Len(e) <= Len(r)
      <4>1. PICK t \in Seq(Bite) : /\ Left(e, p.saw_cr, r, t)
                                   /\ InFrame(e, F[k], p.line_buffer, p.pending_data, t)
        BY <2>1 DEF Inside
      <4>2. F[k] \in OpenAi!Frames
        BY <3>1, ElementOfSeq
      <4>3. Len(e) <= Len(t) /\ Len(t) \in Nat
        BY <4>1, <4>2, LeftOver, LenProperties
      <4>4. Len(<<OpenAi!LF>> \o t) = Len(t) + 1
        BY BitesAre, HeadTail
      <4> QED  BY <1>4, <4>1, <4>3, <4>4 DEF Left
    <3>3. ASSUME NEW j \in 1..m PROVE EndOf(P, j) - Len(e) + 1 <= n
      <4>1. EndOf(P, j) <= EndOf(P, m) /\ EndOf(P, j) \in Nat /\ EndOf(P, m) \in Nat
        BY <1>2, <1>3, <3>1
      <4>2. EndOf(P, m) <= n
        BY <3>1
      <4>3. EndOf(P, j) <= n
        BY <4>1, <4>2
      <4> QED  BY <1>0, <1>4, <4>1, <4>3, Zenon
    <3>4. ASSUME NEW j \in m + 1..Len(F) PROVE ~(EndOf(P, j) - Len(e) + 1 <= n)
      <4>1. EndOf(P, k) <= EndOf(P, j) /\ EndOf(P, j) \in Nat /\ EndOf(P, k) \in Nat
        BY <1>2, <1>3, <3>1
      <4> QED  BY <1>2, <1>4, <3>2, <4>1
    <3> QED  BY <1>2, <3>1, <3>3, <3>4
  <2>2. CASE Between(e, p, k, r, m)
    <3>1. m = k /\ Len(r) <= Len(e) - 1
      <4>1. r = <<>> \/ (e = <<OpenAi!CR, OpenAi!LF>> /\ r = <<OpenAi!LF>> \o <<>>)
        BY <2>2 DEF Between, Left
      <4>2. /\ Len(<<OpenAi!LF>> \o <<>>) = 1 /\ Len(<<>>) = 0
            /\ Len(<<OpenAi!CR, OpenAi!LF>>) = 2
        OBVIOUS
      <4>3. m = k
        BY <2>2 DEF Between
      <4>4. CASE r = <<>>
        <5>1. Len(r) = 0
          BY <4>2, <4>4, Zenon
        <5>2. \A d \in {1, 2} : 0 <= d - 1
          OBVIOUS
        <5> QED  BY <1>4, <4>3, <5>1, <5>2, Zenon
      <4>5. CASE e = <<OpenAi!CR, OpenAi!LF>> /\ r = <<OpenAi!LF>> \o <<>>
        <5>1. Len(e) = 2 /\ Len(r) = 1
          BY <4>2, <4>5, Zenon
        <5> QED  BY <4>3, <5>1
      <4> QED  BY <4>1, <4>4, <4>5
    <3>2. ASSUME NEW j \in 1..m PROVE EndOf(P, j) - Len(e) + 1 <= n
      <4>1. EndOf(P, j) <= EndOf(P, k) /\ EndOf(P, j) \in Nat /\ EndOf(P, k) \in Nat
        BY <1>2, <1>3, <3>1
      <4> QED  BY <1>2, <1>4, <3>1, <4>1
    <3>3. ASSUME NEW j \in m + 1..Len(F) PROVE ~(EndOf(P, j) - Len(e) + 1 <= n)
      <4>1. j \in 1..Len(F) /\ j - 1 \in k..Len(F) /\ j - 1 \in 0..Len(F) /\ j \in 0..Len(F)
        BY <1>2, <3>1
      <4>2. EndOf(P, k) <= EndOf(P, j - 1) /\ EndOf(P, j - 1) \in Nat /\ EndOf(P, j) \in Nat
            /\ EndOf(P, k) \in Nat
        BY <1>2, <1>3, <4>1
      <4>3. EndOf(P, j) = EndOf(P, j - 1) + Len(P[j]) /\ Len(P[j]) \in Nat
        BY <1>2, <4>1, EndsAscend
      <4>4. Len(e) <= Len(P[j])
        <5>1. F[j] \in OpenAi!Frames
          BY <4>1, ElementOfSeq
        <5>2. P[j] = OpenAi!Bytes(F[j], e)
          BY <4>1, PartsAre DEF P
        <5>3. InFrame(e, F[j], <<>>, <<>>, P[j])
          BY <5>2 DEF InFrame
        <5> QED  BY <5>1, <5>3, LeftOver
      <4> QED  BY <1>2, <1>4, <4>2, <4>3, <4>4
    <3> QED  BY <1>2, <3>1, <3>2, <3>3
  <2> QED  BY <1>1, <2>1, <2>2
<1>6. ASSUME NEW j \in 1..Len(F)
      PROVE  EndOf(P, j) - Len(e) + 1 <= n <=> j \in 1..m
  <2>1. j \in 1..m \/ j \in m + 1..Len(F)
    BY <1>2, <1>5
  <2>2. ~(j \in 1..m /\ j \in m + 1..Len(F))
    BY <1>2, <1>5
  <2> QED  BY <1>5, <2>1, <2>2
<1>7. 1..m \subseteq 1..Len(F)
  BY <1>2, <1>5
<1>8. {j \in 1..Len(F) : EndOf(P, j) - Len(e) + 1 <= n} = 1..m
  BY <1>6, <1>7
<1> QED  BY <1>5, <1>8 DEF P

-----------------------------------------------------------------------------
(***************************************************************************)
(* Deltas, and the events they surface as.                                 *)
(***************************************************************************)
Delta ==
  {OpenAi!Text, OpenAi!Usage}
    \cup [kind : {"fragment"}, index : Indices, id : Ids \cup {NoId}, filled : BOOLEAN]
Handle == Ids \cup {OpenAi!Synthetic(i) : i \in Indices}
Happening == {OpenAi!Text, OpenAi!Usage} \cup [kind : {"tool"}, call : Handle]
Real == {p \in Payload : p # OpenAi!Aside}

LEMMA DeltaKinds ==
  ASSUME NEW d \in Delta
  PROVE  /\ d.kind \in {"text", "usage", "fragment"}
         /\ d.kind = "text" => d = OpenAi!Text
         /\ d.kind = "usage" => d = OpenAi!Usage
         /\ d.kind = "fragment" => d.index \in Indices /\ d.id \in Ids \cup {NoId}
BY DEF Delta, OpenAi!Text, OpenAi!Usage

LEMMA PayloadKinds ==
  ASSUME NEW p \in Real
  PROVE  /\ p.kind \in {"chunk", "done", "malformed"}
         /\ p.kind = "chunk" => p.deltas \in Seq(Delta)
<1>1. PICK f \in OpenAi!Frames : p = f.payload
  BY DEF Real, Payload
<1>2. p \in OpenAi!FragmentChunks \cup {OpenAi!Chunk(<<>>), OpenAi!DoneMark, OpenAi!Malformed,
                                        OpenAi!Chunk(<<OpenAi!Text, OpenAi!Usage>>)}
  <2>1. \A q : OpenAi!Plain(q).payload = q
    BY DEF OpenAi!Plain
  <2>2. p # OpenAi!Aside
    BY DEF Real
  <2> QED  BY <1>1, <2>1, <2>2 DEF OpenAi!Frames
<1>3. \A ds : OpenAi!Chunk(ds).kind = "chunk" /\ OpenAi!Chunk(ds).deltas = ds
  BY DEF OpenAi!Chunk
<1>4. OpenAi!DoneMark.kind = "done" /\ OpenAi!Malformed.kind = "malformed"
  BY DEF OpenAi!DoneMark, OpenAi!Malformed
<1>5. \A ds \in Seq(Delta) : p = OpenAi!Chunk(ds) => p.kind = "chunk" /\ p.deltas \in Seq(Delta)
  BY <1>3
<1>6. /\ \A x \in Delta : <<x>> \in Seq(Delta)
      /\ \A x, y \in Delta : <<x, y>> \in Seq(Delta)
  OBVIOUS
<1>7. CASE p \in OpenAi!FragmentChunks
  <2>1. \A g \in OpenAi!Fragments : /\ g \in Delta
                                    /\ OpenAi!Fragment(g.index, NoId, TRUE) \in Delta
    <3> SUFFICES ASSUME NEW g \in OpenAi!Fragments
                 PROVE  g \in Delta /\ OpenAi!Fragment(g.index, NoId, TRUE) \in Delta
      OBVIOUS
    <3>1. g \in Delta /\ g.kind = "fragment"
      BY DEF OpenAi!Fragments, OpenAi!Fragment, Delta
    <3>2. g.index \in Indices
      BY <3>1, DeltaKinds
    <3>3. OpenAi!Fragment(g.index, NoId, TRUE) \in Delta
      BY <3>2 DEF Delta, OpenAi!Fragment
    <3> QED  BY <3>1, <3>3
  <2>2. \E ds \in Seq(Delta) : p = OpenAi!Chunk(ds)
    BY <1>6, <1>7, <2>1 DEF OpenAi!FragmentChunks
  <2> QED  BY <1>5, <2>2
<1>8. CASE p = OpenAi!Chunk(<<>>)
  BY <1>5, <1>8, EmptySeq
<1>9. CASE p = OpenAi!Chunk(<<OpenAi!Text, OpenAi!Usage>>)
  BY <1>5, <1>6, <1>9 DEF Delta
<1> QED  BY <1>2, <1>4, <1>7, <1>8, <1>9

(***************************************************************************)
(* The call a fragment belongs to, and the ids that are known.             *)
(***************************************************************************)
Named(ds, n, i) ==
  {j \in 1..n : ds[j].kind = "fragment" /\ ds[j].index = i /\ ds[j].id # NoId}
Seen(ds, n, i) == {j \in 1..n : ds[j].kind = "fragment" /\ ds[j].index = i}
CallAt(ds, n, i) ==
  IF Named(ds, n, i) = {} THEN OpenAi!Synthetic(i) ELSE ds[OpenAi!Max(Named(ds, n, i))].id
Known(ds, n) == [i \in Indices |-> IF Seen(ds, n, i) = {} THEN NoId ELSE CallAt(ds, n, i)]

LEMMA OpenAiMax ==
  ASSUME NEW n \in Nat, NEW S \in SUBSET (0..n), S # {}
  PROVE  OpenAi!Max(S) \in S /\ \A y \in S : y <= OpenAi!Max(S)
<1>1. OpenAi!Max(S) = Anthropic!Max(S)
  BY DEF OpenAi!Max, Anthropic!Max
<1>2. Anthropic!Max(S) \in S /\ \A y \in S : y <= Anthropic!Max(S)
  BY Extremes
<1> QED  BY <1>1, <1>2

LEMMA CallNext ==
  ASSUME NEW ds \in Seq(Delta), NEW n \in 0..Len(ds), n < Len(ds), NEW i
  PROVE  LET d == ds[n + 1]
             here == d.kind = "fragment" /\ d.index = i
         IN /\ CallAt(ds, n + 1, i) = IF here /\ d.id # NoId THEN d.id ELSE CallAt(ds, n, i)
            /\ Seen(ds, n + 1, i) = {} <=> ~here /\ Seen(ds, n, i) = {}
            /\ Seen(ds, n, i) = {} => Named(ds, n, i) = {}
<1> DEFINE d == ds[n + 1]
           here == d.kind = "fragment" /\ d.index = i
           S == Named(ds, n, i)
           R == Named(ds, n + 1, i)
<1>1. n \in Nat /\ n + 1 \in Nat /\ 1..n + 1 = 1..n \cup {n + 1}
  BY LenProperties
<1>2. R = IF here /\ d.id # NoId THEN S \cup {n + 1} ELSE S
  BY <1>1 DEF Named
<1>3. Seen(ds, n + 1, i) = {} <=> ~here /\ Seen(ds, n, i) = {}
  BY <1>1 DEF Seen
<1>4. Seen(ds, n, i) = {} => S = {}
  BY DEF Seen, Named
<1>5. CASE here /\ d.id # NoId
  <2>1. n + 1 \in R /\ R \in SUBSET (0..n + 1)
    BY <1>1, <1>2, <1>5 DEF Named
  <2>2. R # {} /\ OpenAi!Max(R) = n + 1
    <3> HIDE DEF R
    <3>1. OpenAi!Max(R) \in R /\ n + 1 <= OpenAi!Max(R)
      BY <1>1, <2>1, OpenAiMax
    <3>2. OpenAi!Max(R) \in 0..n + 1
      BY <2>1, <3>1
    <3> QED  BY <1>1, <2>1, <3>1, <3>2
  <2>3. CallAt(ds, n + 1, i) = d.id
    <3> HIDE DEF R
    <3> QED  BY <2>2 DEF CallAt, R
  <2> HIDE DEF R, S
  <2> QED  BY <1>3, <1>4, <1>5, <2>3 DEF S
<1>6. CASE ~(here /\ d.id # NoId)
  <2>1. R = S
    BY <1>2, <1>6
  <2> HIDE DEF R, S
  <2>2. CallAt(ds, n + 1, i) = CallAt(ds, n, i)
    BY <2>1, Zenon DEF CallAt, R, S
  <2> QED  BY <1>3, <1>4, <1>6, <2>2 DEF S
<1> QED  BY <1>5, <1>6

LEMMA CallType ==
  ASSUME NEW ds \in Seq(Delta), NEW n \in 0..Len(ds), NEW i \in Indices
  PROVE  CallAt(ds, n, i) \in Handle /\ CallAt(ds, n, i) # NoId
<1> DEFINE S == Named(ds, n, i)
<1>1. CASE S = {}
  BY <1>1, SyntheticAssumption DEF CallAt, Handle
<1>2. CASE S # {}
  <2>1. n \in Nat /\ S \in SUBSET (0..n)
    BY LenProperties DEF Named
  <2>2. OpenAi!Max(S) \in S
    <3> HIDE DEF S
    <3> QED  BY <1>2, <2>1, OpenAiMax
  <2>3. /\ OpenAi!Max(S) \in 1..Len(ds) /\ ds[OpenAi!Max(S)].kind = "fragment"
        /\ ds[OpenAi!Max(S)].id # NoId
    BY <2>2, LenProperties DEF Named
  <2>4. ds[OpenAi!Max(S)] \in Delta
    <3> HIDE DEF S
    <3> QED  BY <2>3, ElementOfSeq
  <2>5. ds[OpenAi!Max(S)].id \in Ids
    <3> HIDE DEF S
    <3> QED  BY <2>3, <2>4, DeltaKinds
  <2>6. CallAt(ds, n, i) = ds[OpenAi!Max(S)].id
    BY <1>2 DEF CallAt
  <2> QED  BY <2>3, <2>5, <2>6 DEF Handle
<1> QED  BY <1>1, <1>2

Surfaced(ds, k) == IF OpenAi!Surfaces(ds[k]) THEN <<OpenAi!EventAt(ds, k)>> ELSE <<>>
Shown(ds, n) == FlattenSeq([k \in 1..n |-> Surfaced(ds, k)])

LEMMA EventIs ==
  ASSUME NEW ds, NEW k
  PROVE  OpenAi!EventAt(ds, k)
           = IF ds[k].kind # "fragment" THEN ds[k]
             ELSE [kind |-> "tool", call |-> CallAt(ds, k, ds[k].index)]
BY DEF OpenAi!EventAt, CallAt, Named

LEMMA SurfacedType ==
  ASSUME NEW ds \in Seq(Delta), NEW k \in 1..Len(ds)
  PROVE  Surfaced(ds, k) \in Seq(Happening) /\ OpenAi!EventAt(ds, k) \in Happening
<1>1. ds[k] \in Delta /\ k \in 0..Len(ds)
  BY ElementOfSeq, LenProperties
<1>2. OpenAi!EventAt(ds, k) \in Happening
  <2>1. CASE ds[k].kind # "fragment"
    BY <1>1, <2>1, EventIs, DeltaKinds DEF Happening
  <2>2. CASE ds[k].kind = "fragment"
    <3>1. ds[k].index \in Indices
      BY <1>1, <2>2, DeltaKinds
    <3>2. CallAt(ds, k, ds[k].index) \in Handle
      BY <1>1, <3>1, CallType
    <3> QED  BY <2>2, <3>2, EventIs DEF Happening
  <2> QED  BY <2>1, <2>2
<1>3. \A x \in Happening : <<x>> \in Seq(Happening)
  OBVIOUS
<1> QED  BY <1>2, <1>3, EmptySeq DEF Surfaced

LEMMA ShownParts ==
  ASSUME NEW ds \in Seq(Delta), NEW n \in 0..Len(ds)
  PROVE  /\ [k \in 1..n |-> Surfaced(ds, k)] \in Seq(Seq(Happening))
         /\ Len([k \in 1..n |-> Surfaced(ds, k)]) = n
<1> DEFINE f == [k \in 1..n |-> Surfaced(ds, k)]
<1>1. n \in Nat /\ \A k \in 1..n : k \in 1..Len(ds)
  BY LenProperties
<1>2. f = [k \in 1..n |-> f[k]] /\ \A k \in 1..n : f[k] \in Seq(Happening)
  BY <1>1, SurfacedType
<1> HIDE DEF f
<1>3. f \in Seq(Seq(Happening)) /\ Len(f) = n
  BY <1>1, <1>2, ListOf
<1> QED  BY <1>3 DEF f

LEMMA ShownType ==
  ASSUME NEW ds \in Seq(Delta), NEW n \in 0..Len(ds)
  PROVE  Shown(ds, n) \in Seq(Happening)
BY ShownParts, FlattenType DEF Shown

LEMMA ShownNext ==
  ASSUME NEW ds \in Seq(Delta), NEW n \in 0..Len(ds), n < Len(ds)
  PROVE  Shown(ds, n + 1) = Shown(ds, n) \o Surfaced(ds, n + 1)
<1> DEFINE f(m) == [k \in 1..m |-> Surfaced(ds, k)]
<1>1. n \in Nat /\ n + 1 \in 0..Len(ds)
  BY LenProperties
<1>2. /\ f(n) \in Seq(Seq(Happening)) /\ Len(f(n)) = n
      /\ f(n + 1) \in Seq(Seq(Happening)) /\ Len(f(n + 1)) = n + 1
  BY <1>1, ShownParts
<1>3. f(n + 1)[n + 1] = Surfaced(ds, n + 1) /\ \A k \in 1..n : f(n + 1)[k] = f(n)[k]
  BY <1>1
<1>4. \A m : Shown(ds, m) = FlattenSeq(f(m))
  BY DEF Shown
<1> HIDE DEF f
<1>5. FlattenSeq(f(n + 1)) = FlattenSeq(f(n)) \o f(n + 1)[n + 1]
  BY <1>2, <1>3, FlattenExtend
<1> QED  BY <1>3, <1>4, <1>5, Zenon

LEMMA OpenAiLibrary ==
  /\ \A s : OpenAi!FlattenSeq(s) = FlattenSeq(s)
  /\ \A s : OpenAi!Range(s) = Range(s)
  /\ \A s, t : OpenAi!IsPrefix(s, t) = IsPrefix(s, t)
<1>1. \A s : OpenAi!FlattenSeq(s) = FlattenSeq(s)
  BY DEF OpenAi!FlattenSeq, FlattenSeq
<1>2. \A s : OpenAi!Range(s) = Range(s)
  BY DEF OpenAi!Range, Range
<1>3. \A s, t : OpenAi!IsPrefix(s, t) = IsPrefix(s, t)
  BY DEF OpenAi!IsPrefix, IsPrefix
<1> QED  BY <1>1, <1>2, <1>3

LEMMA SurfacingIs ==
  ASSUME NEW ds \in Seq(Delta)
  PROVE  OpenAi!Surfacing(ds) = Shown(ds, Len(ds))
<1>1. DOMAIN ds = 1..Len(ds)
  BY LenProperties
<1>2. [k \in DOMAIN ds |-> IF OpenAi!Surfaces(ds[k]) THEN <<OpenAi!EventAt(ds, k)>> ELSE <<>>]
        = [k \in 1..Len(ds) |-> Surfaced(ds, k)]
  BY <1>1, Zenon DEF Surfaced
<1> QED  BY <1>2, OpenAiLibrary, Zenon DEF OpenAi!Surfacing, Shown

AgreeDeltas(a, b, n) ==
  /\ a \in Seq(Delta) /\ b \in Seq(Delta)
  /\ n \in 0..Len(a) /\ n \in 0..Len(b) /\ \A k \in 1..n : a[k] = b[k]

LEMMA CallAgree ==
  ASSUME NEW a, NEW b, NEW n, AgreeDeltas(a, b, n), NEW k \in 0..n, NEW i
  PROVE  CallAt(a, k, i) = CallAt(b, k, i) /\ Seen(a, k, i) = Seen(b, k, i)
<1> DEFINE S == Named(a, k, i)
<1>1. n \in Nat /\ k \in Nat /\ \A j \in 1..k : a[j] = b[j]
  BY LenProperties DEF AgreeDeltas
<1>2. S = Named(b, k, i) /\ Seen(a, k, i) = Seen(b, k, i)
  BY <1>1 DEF Named, Seen
<1>3. S # {} => a[OpenAi!Max(S)] = b[OpenAi!Max(S)]
  <2>1. S \in SUBSET (0..k) /\ \A j \in S : j \in 1..k
    BY <1>1 DEF Named
  <2> HIDE DEF S
  <2> QED  BY <1>1, <2>1, OpenAiMax
<1> HIDE DEF S
<1> QED  BY <1>2, <1>3 DEF CallAt, S

LEMMA DeltasAgree ==
  ASSUME NEW a, NEW b, NEW n, AgreeDeltas(a, b, n)
  PROVE  Known(a, n) = Known(b, n) /\ Shown(a, n) = Shown(b, n)
<1>1. n \in Nat /\ n \in 0..n /\ \A k \in 1..n : k \in 0..n /\ a[k] = b[k]
  BY LenProperties DEF AgreeDeltas
<1>2. \A k \in 0..n : \A i : CallAt(a, k, i) = CallAt(b, k, i) /\ Seen(a, k, i) = Seen(b, k, i)
  BY CallAgree
<1>3. Known(a, n) = Known(b, n)
  BY <1>1, <1>2, Zenon DEF Known
<1>4. \A k \in 1..n : Surfaced(a, k) = Surfaced(b, k)
  BY <1>1, <1>2, EventIs, Zenon DEF Surfaced
<1>5. [k \in 1..n |-> Surfaced(a, k)] = [k \in 1..n |-> Surfaced(b, k)]
  BY <1>4
<1> QED  BY <1>3, <1>5, Zenon DEF Shown

LEMMA DeltaStep ==
  ASSUME NEW ds \in Seq(Delta), NEW n \in 0..Len(ds), n < Len(ds), NEW ev \in Seq(Happening)
  PROVE  OpenAi!DeltaToEvent([ids |-> Known(ds, n), events |-> ev], ds[n + 1])
           = [ids |-> Known(ds, n + 1), events |-> ev \o Surfaced(ds, n + 1)]
<1> DEFINE d == ds[n + 1]
           acc == [ids |-> Known(ds, n), events |-> ev]
<1>1. n + 1 \in 1..Len(ds) /\ n + 1 \in 0..Len(ds)
  BY LenProperties
<1>2. d \in Delta
  BY <1>1, ElementOfSeq
<1>3. \A i : /\ CallAt(ds, n + 1, i)
                  = IF d.kind = "fragment" /\ d.index = i /\ d.id # NoId THEN d.id
                    ELSE CallAt(ds, n, i)
             /\ Seen(ds, n + 1, i) = {}
                  <=> ~(d.kind = "fragment" /\ d.index = i) /\ Seen(ds, n, i) = {}
             /\ Seen(ds, n, i) = {} => Named(ds, n, i) = {}
  BY CallNext
<1>4. acc.ids = Known(ds, n) /\ acc.events = ev
  OBVIOUS
<1>5. \A x \in Happening : ev \o <<x>> = Append(ev, x)
  BY AppendIsConcat
<1>6. ev \o <<>> = ev
  BY ConcatEmptySeq
<1>7. OpenAi!EventAt(ds, n + 1) \in Happening
  BY <1>1, SurfacedType
<1> HIDE DEF d
<1>8. CASE d.kind # "fragment"
  <2>1. Known(ds, n + 1) = Known(ds, n)
    BY <1>3, <1>8, Zenon DEF Known
  <2>2. OpenAi!EventAt(ds, n + 1) = d
    BY <1>8, EventIs DEF d
  <2>3. Surfaced(ds, n + 1) = <<d>>
    BY <1>8, <2>2 DEF Surfaced, OpenAi!Surfaces, d
  <2>4. OpenAi!DeltaToEvent(acc, d) = [acc EXCEPT !.events = Append(@, d)]
    BY <1>8 DEF OpenAi!DeltaToEvent
  <2>5. Append(ev, d) = ev \o <<d>>
    BY <1>5, <1>7, <2>2
  <2>6. [acc EXCEPT !.events = Append(@, d)] = [ids |-> Known(ds, n), events |-> Append(ev, d)]
    <3>1. \A x, y, z : [[ids |-> x, events |-> y] EXCEPT !.events = z] = [ids |-> x, events |-> z]
      OBVIOUS
    <3>2. Append(acc.events, d) = Append(ev, d)
      BY <1>4, Zenon
    <3> QED  BY <3>1, <3>2, Zenon
  <2> HIDE DEF acc
  <2> QED  BY <2>1, <2>3, <2>4, <2>5, <2>6 DEF d, acc
<1>9. CASE d.kind = "fragment"
  <2> DEFINE i == d.index
             id == OpenAi!CallId(acc.ids, d)
  <2>1. i \in Indices
    BY <1>2, <1>9, DeltaKinds
  <2>2. Known(ds, n)[i] = IF Seen(ds, n, i) = {} THEN NoId ELSE CallAt(ds, n, i)
    BY <2>1 DEF Known
  <2>3. CallAt(ds, n, i) # NoId /\ (Seen(ds, n, i) = {} => CallAt(ds, n, i) = OpenAi!Synthetic(i))
    BY <1>3, <2>1, CallType DEF CallAt
  <2>4. id = CallAt(ds, n + 1, i)
    <3>1. CASE d.id # NoId
      BY <1>3, <1>9, <3>1 DEF OpenAi!CallId
    <3>2. CASE d.id = NoId /\ Known(ds, n)[i] # NoId
      BY <1>3, <1>4, <1>9, <2>2, <3>2 DEF OpenAi!CallId
    <3>3. CASE d.id = NoId /\ Known(ds, n)[i] = NoId
      <4>1. Seen(ds, n, i) = {}
        BY <2>2, <2>3, <3>3
      <4>2. CallAt(ds, n + 1, i) = OpenAi!Synthetic(i)
        BY <1>3, <2>3, <3>3, <4>1
      <4>3. id = OpenAi!Synthetic(i)
        BY <1>4, <3>3 DEF OpenAi!CallId
      <4> QED  BY <4>2, <4>3
    <3> QED  BY <3>1, <3>2, <3>3
  <2> HIDE DEF id
  <2>5. [Known(ds, n) EXCEPT ![i] = id] = Known(ds, n + 1)
    <3>1. \A j \in Indices : Known(ds, n + 1)[j] = IF j = i THEN id ELSE Known(ds, n)[j]
      BY <1>3, <1>9, <2>4 DEF Known
    <3>2. /\ Known(ds, n + 1) = [j \in Indices |-> Known(ds, n + 1)[j]]
          /\ Known(ds, n) = [j \in Indices |-> Known(ds, n)[j]]
      BY DEF Known
    <3> HIDE DEF i
    <3> QED  BY <3>1, <3>2
  <2>6. Surfaced(ds, n + 1)
          = IF d.filled THEN <<[kind |-> "tool", call |-> id]>> ELSE <<>>
    <3>1. OpenAi!EventAt(ds, n + 1) = [kind |-> "tool", call |-> id]
      BY <1>9, <2>4, EventIs DEF d
    <3>2. OpenAi!Surfaces(ds[n + 1]) <=> d.filled
      BY <1>9 DEF OpenAi!Surfaces, d
    <3> QED  BY <3>1, <3>2, Zenon DEF Surfaced
  <2>7. OpenAi!DeltaToEvent(acc, d)
          = [ids |-> Known(ds, n + 1),
             events |-> IF d.filled THEN Append(ev, [kind |-> "tool", call |-> id]) ELSE ev]
    <3>1. OpenAi!DeltaToEvent(acc, d) = OpenAi!FragmentToEvent(acc, d)
      BY <1>9 DEF OpenAi!DeltaToEvent
    <3> HIDE DEF acc, i
    <3> QED  BY <1>4, <2>5, <3>1 DEF OpenAi!FragmentToEvent, id, i
  <2>8. OpenAi!EventAt(ds, n + 1) = [kind |-> "tool", call |-> id]
    BY <1>9, <2>4, EventIs DEF d
  <2>9. Append(ev, [kind |-> "tool", call |-> id]) = ev \o <<[kind |-> "tool", call |-> id]>>
    BY <1>5, <1>7, <2>8
  <2> HIDE DEF acc, i
  <2> QED  BY <1>6, <2>6, <2>7, <2>9, Zenon DEF d, acc
<1> QED  BY <1>8, <1>9

(***************************************************************************)
(* One drain of the queue: the deltas ds, after those of base.             *)
(***************************************************************************)
LEMMA Appended ==
  ASSUME NEW T, NEW a \in Seq(T), NEW b \in Seq(T)
  PROVE  /\ a \o b \in Seq(T) /\ Len(a) \in Nat /\ Len(b) \in Nat /\ Len(a \o b) = Len(a) + Len(b)
         /\ \A k \in 1..Len(a) : (a \o b)[k] = a[k]
         /\ \A k \in 1..Len(b) : (a \o b)[Len(a) + k] = b[k]
<1>1. /\ a \o b \in Seq(T) /\ Len(a \o b) = Len(a) + Len(b)
      /\ \A i \in 1..Len(a) + Len(b) : (a \o b)[i] = IF i <= Len(a) THEN a[i] ELSE b[i - Len(a)]
  BY ConcatProperties
<1>2. Len(a) \in Nat /\ Len(b) \in Nat
  BY LenProperties
<1> DEFINE c == a \o b
<1> HIDE DEF c
<1>3. ASSUME NEW k \in 1..Len(a) PROVE c[k] = a[k]
  <2>1. k \in 1..Len(a) + Len(b) /\ k <= Len(a)
    BY <1>2
  <2> QED  BY <1>1, <2>1 DEF c
<1>4. ASSUME NEW k \in 1..Len(b) PROVE c[Len(a) + k] = b[k]
  <2>1. Len(a) + k \in 1..Len(a) + Len(b) /\ ~(Len(a) + k <= Len(a)) /\ (Len(a) + k) - Len(a) = k
    BY <1>2
  <2> QED  BY <1>1, <2>1 DEF c
<1> QED  BY <1>1, <1>2, <1>3, <1>4 DEF c

Since(ds, b, m) == FlattenSeq([k \in 1..m |-> Surfaced(ds, b + k)])

LEMMA ShownSplit ==
  ASSUME NEW ds \in Seq(Delta), NEW b \in Nat, NEW n \in Nat, b + n <= Len(ds)
  PROVE  /\ Since(ds, b, 0) = <<>>
         /\ \A m \in 0..n : /\ Since(ds, b, m) \in Seq(Happening)
                            /\ Shown(ds, b) \o Since(ds, b, m) = Shown(ds, b + m)
         /\ \A m \in 1..n : Since(ds, b, m) = Since(ds, b, m - 1) \o Surfaced(ds, b + m)
<1> DEFINE f(m) == [k \in 1..m |-> Surfaced(ds, b + k)]
           ev(m) == FlattenSeq(f(m))
           Good == {m \in 0..n : Shown(ds, b) \o ev(m) = Shown(ds, b + m)}
<1>1. Len(ds) \in Nat
  BY LenProperties
<1>2. ASSUME NEW m \in 0..n PROVE f(m) \in Seq(Seq(Happening)) /\ Len(f(m)) = m
  <2>1. \A k \in 1..m : b + k \in 1..Len(ds)
    BY <1>1
  <2>2. f(m) = [k \in 1..m |-> f(m)[k]] /\ \A k \in 1..m : f(m)[k] \in Seq(Happening)
    BY <2>1, SurfacedType
  <2> HIDE DEF f
  <2> QED  BY <2>2, ListOf
<1>3. \A m \in 0..n : ev(m) \in Seq(Happening)
  <2> HIDE DEF f
  <2> QED  BY <1>2, FlattenType
<1>4. ev(0) = <<>>
  <2>1. f(0) = <<>>
    OBVIOUS
  <2> HIDE DEF f
  <2> QED  BY <2>1, FlattenEmpty, Zenon
<1>5. ASSUME NEW m \in 1..n PROVE ev(m) = ev(m - 1) \o Surfaced(ds, b + m)
  <2>1. m - 1 \in 0..n /\ m \in 0..n /\ (m - 1) + 1 = m
    OBVIOUS
  <2>2. f(m)[m] = Surfaced(ds, b + m) /\ \A k \in 1..m - 1 : f(m)[k] = f(m - 1)[k]
    OBVIOUS
  <2>3. /\ f(m) \in Seq(Seq(Happening)) /\ Len(f(m)) = m
        /\ f(m - 1) \in Seq(Seq(Happening)) /\ Len(f(m - 1)) = m - 1
    BY <1>2, <2>1
  <2> HIDE DEF f
  <2>4. FlattenSeq(f(m)) = FlattenSeq(f(m - 1)) \o f(m)[m]
    <3>1. Len(f(m)) = Len(f(m - 1)) + 1 /\ Len(f(m - 1)) + 1 = m
      BY <2>1, <2>3
    <3>2. \A k \in 1..Len(f(m - 1)) : f(m)[k] = f(m - 1)[k]
      BY <2>2, <2>3
    <3>3. FlattenSeq(f(m)) = FlattenSeq(f(m - 1)) \o f(m)[Len(f(m - 1)) + 1]
      BY <2>3, <3>1, <3>2, FlattenExtend
    <3> QED  BY <3>1, <3>3, Zenon
  <2> QED  BY <2>2, <2>4, Zenon
<1> HIDE DEF ev, f
<1>6. 0 \in Good
  <2>1. Shown(ds, b) \in Seq(Happening)
    <3>1. b \in 0..Len(ds)
      BY <1>1
    <3> QED  BY <3>1, ShownType
  <2>2. Shown(ds, b) \o <<>> = Shown(ds, b) /\ b + 0 = b
    BY <2>1, ConcatEmptySeq
  <2>3. Shown(ds, b) \o ev(0) = Shown(ds, b + 0)
    BY <1>4, <2>2, Zenon
  <2>4. 0 \in 0..n
    OBVIOUS
  <2> QED  BY <2>3, <2>4, Zenon
<1>7. ASSUME NEW m \in 0..n, m < n, m \in Good PROVE m + 1 \in Good
  <2>1. m + 1 \in 1..n /\ m + 1 \in 0..n /\ (m + 1) - 1 = m /\ b + (m + 1) = (b + m) + 1
        /\ b + m \in 0..Len(ds) /\ b + m < Len(ds) /\ b \in 0..Len(ds)
        /\ b + (m + 1) \in 1..Len(ds)
    BY <1>1, <1>7
  <2>2. ev(m + 1) = ev(m) \o Surfaced(ds, b + (m + 1))
    BY <1>5, <2>1
  <2>3. Shown(ds, b + (m + 1)) = Shown(ds, b + m) \o Surfaced(ds, b + (m + 1))
    BY <2>1, ShownNext
  <2>4. /\ Shown(ds, b) \in Seq(Happening) /\ ev(m) \in Seq(Happening)
        /\ Surfaced(ds, b + (m + 1)) \in Seq(Happening)
    BY <1>3, <2>1, ShownType, SurfacedType
  <2>5. \A u, v, w \in Seq(Happening) : (u \o v) \o w = u \o (v \o w)
    BY ConcatAssociative
  <2>6. Shown(ds, b) \o ev(m) = Shown(ds, b + m)
    BY <1>7
  <2>7. (Shown(ds, b) \o ev(m)) \o Surfaced(ds, b + (m + 1))
          = Shown(ds, b) \o (ev(m) \o Surfaced(ds, b + (m + 1)))
    BY <2>4, <2>5, Zenon
  <2>8. Shown(ds, b) \o ev(m + 1) = Shown(ds, b + (m + 1))
    BY <2>2, <2>3, <2>6, <2>7, Zenon
  <2> QED  BY <2>1, <2>8
<1>8. \A m \in 0..n : m \in Good
  <2> HIDE DEF Good
  <2> QED  BY <1>6, <1>7, Climb
<1>9. \A m \in 0..n : Shown(ds, b) \o ev(m) = Shown(ds, b + m)
  BY <1>8
<1> QED  BY <1>3, <1>4, <1>5, <1>9, Zenon DEF ev, f, Since

Drained(known, ds) ==
  CHOOSE f : f = [n \in 0..Len(ds) |-> IF n = 0 THEN [ids |-> known, events |-> <<>>]
                                       ELSE OpenAi!DeltaToEvent(f[n - 1], ds[n])]

LEMMA DrainsTo ==
  ASSUME NEW base \in Seq(Delta), NEW ds \in Seq(Delta)
  PROVE  LET full == base \o ds
             acc == Drained(Known(base, Len(base)), ds)
         IN /\ full \in Seq(Delta) /\ acc[Len(ds)].ids = Known(full, Len(full))
            /\ acc[Len(ds)].events \in Seq(Happening)
            /\ Shown(base, Len(base)) \o acc[Len(ds)].events = Shown(full, Len(full))
<1> DEFINE full == base \o ds
           b == Len(base)
           L == Len(ds)
           next(s, n) == OpenAi!DeltaToEvent(s, ds[n])
           first == [ids |-> Known(base, b), events |-> <<>>]
           Is(f) == f = [n \in 0..L |-> IF n = 0 THEN first ELSE next(f[n - 1], n)]
           acc == CHOOSE f : Is(f)
           ev(n) == Since(full, b, n)
           at(n) == [ids |-> Known(full, b + n), events |-> ev(n)]
           run == [n \in 0..L |-> at(n)]
           Good == {n \in 0..L : acc[n] = at(n)}
<1>1. /\ full \in Seq(Delta) /\ b \in Nat /\ L \in Nat /\ Len(full) = b + L
      /\ \A k \in 1..b : full[k] = base[k]
      /\ \A k \in 1..L : full[b + k] = ds[k]
  BY Appended
<1> HIDE DEF full
<1>2. Known(full, b) = Known(base, b) /\ Shown(full, b) = Shown(base, b)
  <2>1. AgreeDeltas(base, full, b)
    BY <1>1 DEF AgreeDeltas
  <2> QED  BY <2>1, DeltasAgree
<1>a. b + L <= Len(full)
  BY <1>1
<1>3. /\ ev(0) = <<>>
      /\ \A m \in 0..L : ev(m) \in Seq(Happening) /\ Shown(full, b) \o ev(m) = Shown(full, b + m)
      /\ \A m \in 1..L : ev(m) = ev(m - 1) \o Surfaced(full, b + m)
  <2> HIDE DEF b, L
  <2> QED  BY <1>1, <1>a, ShownSplit
<1> HIDE DEF ev, b
<1>4. at(0) = first
  <2>1. b + 0 = b
    BY <1>1
  <2> QED  BY <1>2, <1>3, <2>1, Zenon
<1>5. ASSUME NEW n \in 1..L PROVE at(n) = next(at(n - 1), n)
  <2>1. /\ n - 1 \in 0..L /\ b + (n - 1) \in 0..Len(full) /\ b + (n - 1) < Len(full)
        /\ (b + (n - 1)) + 1 = b + n
    BY <1>1
  <2>2. ev(n - 1) \in Seq(Happening) /\ full[b + n] = ds[n]
    BY <1>1, <1>3, <2>1
  <2>3. OpenAi!DeltaToEvent(at(n - 1), full[(b + (n - 1)) + 1])
          = [ids |-> Known(full, (b + (n - 1)) + 1),
             events |-> ev(n - 1) \o Surfaced(full, (b + (n - 1)) + 1)]
    BY <1>1, <2>1, <2>2, DeltaStep
  <2>4. ev(n) = ev(n - 1) \o Surfaced(full, b + n)
    BY <1>3
  <2> QED  BY <2>1, <2>2, <2>3, <2>4, Zenon
<1> HIDE DEF at, next, first
<1>6. Is(run)
  <2>1. ASSUME NEW n \in 0..L PROVE run[n] = IF n = 0 THEN first ELSE next(run[n - 1], n)
    <3>1. CASE n = 0
      BY <1>4, <3>1
    <3>2. CASE n # 0
      <4>1. n \in 1..L /\ n - 1 \in 0..L
        BY <1>1, <3>2
      <4>2. run[n] = at(n) /\ run[n - 1] = at(n - 1)
        BY <4>1
      <4>3. at(n) = next(at(n - 1), n)
        BY <1>5, <4>1
      <4> HIDE DEF run
      <4> QED  BY <3>2, <4>2, <4>3, Zenon
    <3> QED  BY <3>1, <3>2
  <2> QED  BY <2>1
<1>7. Is(acc)
  <2> HIDE DEF Is, run
  <2> QED  BY <1>6, Zenon
<1> HIDE DEF acc
<1>8. acc[0] = first /\ \A n \in 1..L : acc[n] = next(acc[n - 1], n)
  <2>1. 0 \in 0..L /\ \A n \in 1..L : n \in 0..L /\ n # 0
    BY <1>1
  <2> QED  BY <1>7, <2>1
<1>9. 0 \in Good
  BY <1>1, <1>4, <1>8
<1>10. ASSUME NEW n \in 0..L, n < L, n \in Good PROVE n + 1 \in Good
  <2>1. n + 1 \in 1..L /\ n + 1 \in 0..L /\ (n + 1) - 1 = n
    BY <1>1, <1>10
  <2>2. acc[n + 1] = next(acc[n], n + 1) /\ at(n + 1) = next(at(n), n + 1)
    BY <1>5, <1>8, <2>1
  <2> QED  BY <1>10, <2>1, <2>2
<1>11. acc[L] = at(L)
  <2> HIDE DEF Good
  <2>1. L \in Good
    BY <1>1, <1>9, <1>10, Climb
  <2> QED  BY <2>1 DEF Good
<1>12. /\ acc[L].ids = Known(full, b + L) /\ acc[L].events = ev(L) /\ L \in 0..L
  BY <1>1, <1>11 DEF at
<1>13. /\ acc[L].events \in Seq(Happening)
       /\ Shown(base, b) \o acc[L].events = Shown(full, b + L)
  BY <1>2, <1>3, <1>12
<1>14. acc[L].ids = Known(full, Len(full)) /\ Shown(full, b + L) = Shown(full, Len(full))
  BY <1>1, <1>12
<1>15. Drained(Known(base, Len(base)), ds) = acc
  BY Zenon DEF Drained, acc, next, first, b
<1> QED  BY <1>1, <1>13, <1>14, <1>15, Zenon DEF full, b

-----------------------------------------------------------------------------
(***************************************************************************)
(* Payloads: of the complete frames, of the parser's events, and up to the *)
(* first that stops the stream.                                            *)
(***************************************************************************)
Paid == [f \in OpenAi!Frames |-> IF f.payload = OpenAi!Aside THEN <<>> ELSE <<f.payload>>]
Pays(F, m) == Collected(Paid, SubSeq(F, 1, m))

LEMMA PaidLists == Lists(Paid, OpenAi!Frames, Real)
<1>1. ASSUME NEW f \in OpenAi!Frames PROVE Paid[f] \in Seq(Real)
  <2>1. f.payload # OpenAi!Aside => f.payload \in Real
    BY DEF Real, Payload
  <2>2. \A x \in Real : <<x>> \in Seq(Real)
    OBVIOUS
  <2>3. Paid[f] = IF f.payload = OpenAi!Aside THEN <<>> ELSE <<f.payload>>
    BY DEF Paid
  <2> QED  BY <2>1, <2>2, <2>3, EmptySeq
<1> QED  BY <1>1 DEF Lists

LEMMA PaysType ==
  ASSUME NEW F \in Seq(OpenAi!Frames), NEW m \in 0..Len(F)
  PROVE  Pays(F, m) \in Seq(Real) /\ SubSeq(F, 1, m) \in Seq(OpenAi!Frames)
         /\ Len(SubSeq(F, 1, m)) = m /\ \A k \in 1..m : SubSeq(F, 1, m)[k] = F[k]
<1>1. /\ SubSeq(F, 1, m) \in Seq(OpenAi!Frames)
      /\ Len(SubSeq(F, 1, m)) = m /\ \A k \in 1..m : SubSeq(F, 1, m)[k] = F[k]
  BY SplitAt
<1>2. \A s \in Seq(OpenAi!Frames) : Collected(Paid, s) \in Seq(Real)
  BY PaidLists, CollectedType
<1> QED  BY <1>1, <1>2, Zenon DEF Pays

LEMMA PaysFirst ==
  ASSUME NEW F \in Seq(OpenAi!Frames)
  PROVE  Pays(F, 0) = <<>>
<1>1. SubSeq(F, 1, 0) = <<>>
  OBVIOUS
<1> QED  BY <1>1, CollectedEmpty, Zenon DEF Pays

LEMMA PaysNext ==
  ASSUME NEW F \in Seq(OpenAi!Frames), NEW m, m \in 0..Len(F), m + 1 \in 1..Len(F)
  PROVE  /\ Pays(F, m + 1) = Pays(F, m) \o Paid[F[m + 1]]
         /\ F[m + 1] \in OpenAi!Frames /\ Paid[F[m + 1]] \in Seq(Real)
<1>1. F[m + 1] \in OpenAi!Frames /\ (m + 1) - 1 = m
  BY ElementOfSeq
<1>2. \A n \in 1..Len(F) :
        Collected(Paid, SubSeq(F, 1, n)) = Collected(Paid, SubSeq(F, 1, n - 1)) \o Paid[F[n]]
  BY PaidLists, CollectedPrefix
<1>3. Pays(F, m + 1) = Pays(F, m) \o Paid[F[m + 1]]
  BY <1>1, <1>2 DEF Pays
<1> QED  BY <1>1, <1>3, PaidLists DEF Lists

LEMMA ArrivedIs ==
  ASSUME NEW n \in Nat, NEW p, NEW m, script.frames \in Seq(OpenAi!Frames),
         script.eol \in OpenAiEnds, Where(script.frames, script.eol, n, p, m)
  PROVE  OpenAi!ArrivedPayloads(n) = Pays(script.frames, m)
<1> DEFINE F == script.frames
           e == script.eol
           G == SubSeq(F, 1, m)
           whole == {k \in DOMAIN F : OpenAi!FrameEnd(k) <= n}
           of(k) == IF F[k].payload = OpenAi!Aside THEN <<>> ELSE <<F[k].payload>>
<1>1. m \in 0..Len(F) /\ {k \in 1..Len(F) : EndOf(Parts(F, e), k) - Len(e) + 1 <= n} = 1..m
  BY FramesDone
<1>2. G \in Seq(OpenAi!Frames) /\ Len(G) = m /\ DOMAIN G = 1..m /\ \A k \in 1..m : G[k] = F[k]
  <2>1. G \in Seq(OpenAi!Frames) /\ Len(G) = m /\ \A k \in 1..m : G[k] = F[k]
    BY <1>1, PaysType
  <2> HIDE DEF G
  <2> QED  BY <2>1, LenProperties
<1>3. Len(F) \in Nat /\ DOMAIN F = 1..Len(F) /\ \A k \in 1..Len(F) : k \in 0..Len(F)
  BY LenProperties
<1>4. \A k \in 1..Len(F) : OpenAi!FrameEnd(k) = EndOf(Parts(F, e), k) - Len(e) + 1
  BY <1>3, PartsPrefix DEF OpenAi!FrameEnd
<1>5. whole = 1..m
  BY <1>1, <1>3, <1>4
<1>6. OpenAi!ArrivedPayloads(n) = FlattenSeq([k \in whole |-> of(k)])
  BY OpenAiLibrary, Zenon DEF OpenAi!ArrivedPayloads
<1>7. \A k \in 1..m : of(k) = Paid[G[k]]
  <2>1. \A k \in 1..m : G[k] \in OpenAi!Frames
    BY <1>2, ElementOfSeq
  <2> HIDE DEF G
  <2> QED  BY <1>2, <2>1 DEF Paid
<1> HIDE DEF whole, of, G
<1>8. [k \in whole |-> of(k)] = [k \in DOMAIN G |-> Paid[G[k]]]
  BY <1>2, <1>5, <1>7
<1> QED  BY <1>6, <1>8, Zenon DEF Pays, Collected, Mapped, G

Decs(c) == [j \in DOMAIN c |-> OpenAi!Decoded(c[j])]

LEMMA DecsFirst == Decs(<<>>) = <<>>
BY DEF Decs

LEMMA DecodedReady ==
  ASSUME NEW f
  PROVE  OpenAi!Decoded(<<Fore(f), Back(f)>>) = f.payload
<1>1. /\ Len(<<Fore(f), Back(f)>>) = 2 /\ <<Fore(f), Back(f)>>[1] = Fore(f)
      /\ <<Fore(f), Back(f)>>[2] = Back(f)
  OBVIOUS
<1>2. Fore(f).of = f.payload /\ Back(f).of = f.payload
  BY DEF Fore, Back, OpenAi!Piece
<1> QED  BY <1>1, <1>2 DEF OpenAi!Decoded

LEMMA DecsNext ==
  ASSUME NEW c \in Seq(Seq(Bite)), NEW f \in OpenAi!Frames, Decs(c) \in Seq(Real)
  PROVE  Decs(c \o Ready(f)) = Decs(c) \o Paid[f]
<1>1. Paid[f] = IF f.payload = OpenAi!Aside THEN <<>> ELSE <<f.payload>>
  BY DEF Paid
<1>2. CASE f.payload = OpenAi!Aside
  <2>1. c \o <<>> = c /\ Decs(c) \o <<>> = Decs(c)
    BY ConcatEmptySeq
  <2> QED  BY <1>1, <1>2, <2>1 DEF Ready
<1>3. CASE f.payload # OpenAi!Aside
  <2> DEFINE x == <<Fore(f), Back(f)>>
             d == c \o <<x>>
             y == f.payload
             D == Decs(c) \o <<y>>
  <2>1. x \in Seq(Bite) /\ y \in Real
    <3>1. Fore(f) \in Bite /\ Back(f) \in Bite
      BY BitesAre DEF Fore, Back
    <3> QED  BY <1>3, <3>1 DEF Real, Payload
  <2> HIDE DEF x, y
  <2>2. <<x>> \in Seq(Seq(Bite)) /\ Len(<<x>>) = 1 /\ <<x>>[1] = x
        /\ <<y>> \in Seq(Real) /\ Len(<<y>>) = 1 /\ <<y>>[1] = y
    BY <2>1
  <2>3. Len(c) \in Nat /\ DOMAIN c = 1..Len(c) /\ Len(Decs(c)) = Len(c)
        /\ \A k \in 1..Len(c) : Decs(c)[k] = OpenAi!Decoded(c[k])
    <3>1. Len(c) \in Nat /\ DOMAIN c = 1..Len(c)
      BY LenProperties
    <3>2. DOMAIN Decs(c) = 1..Len(c) /\ \A k \in 1..Len(c) : Decs(c)[k] = OpenAi!Decoded(c[k])
      BY <3>1 DEF Decs
    <3>3. DOMAIN Decs(c) = 1..Len(Decs(c)) /\ Len(Decs(c)) \in Nat
      BY LenProperties
    <3>4. \A i, j \in Nat : 1..i = 1..j => i = j
      <4> SUFFICES ASSUME NEW i \in Nat, NEW j \in Nat, 1..i = 1..j, i # j PROVE FALSE
        OBVIOUS
      <4>1. i \in 1..i \/ i = 0
        OBVIOUS
      <4>2. j \in 1..j \/ j = 0
        OBVIOUS
      <4> QED  BY <4>1, <4>2
    <3> QED  BY <3>1, <3>2, <3>3, <3>4
  <2>4. /\ d \in Seq(Seq(Bite)) /\ Len(d) = Len(c) + 1
        /\ \A k \in 1..Len(c) : d[k] = c[k]
        /\ d[Len(c) + 1] = x
    <3>1. /\ d \in Seq(Seq(Bite)) /\ Len(d) = Len(c) + Len(<<x>>)
          /\ \A k \in 1..Len(c) : d[k] = c[k]
          /\ \A k \in 1..Len(<<x>>) : d[Len(c) + k] = <<x>>[k]
      BY <2>2, Appended
    <3> HIDE DEF d
    <3> QED  BY <2>2, <3>1
  <2>5. /\ D \in Seq(Real) /\ Len(D) = Len(c) + 1
        /\ \A k \in 1..Len(c) : D[k] = Decs(c)[k]
        /\ D[Len(c) + 1] = y
    <3>1. /\ D \in Seq(Real) /\ Len(D) = Len(Decs(c)) + Len(<<y>>)
          /\ \A k \in 1..Len(Decs(c)) : D[k] = Decs(c)[k]
          /\ \A k \in 1..Len(<<y>>) : D[Len(Decs(c)) + k] = <<y>>[k]
      BY <2>2, Appended
    <3> HIDE DEF D
    <3> QED  BY <2>2, <2>3, <3>1
  <2> HIDE DEF d, D
  <2>6. DOMAIN d = 1..Len(c) + 1 /\ DOMAIN D = 1..Len(c) + 1
    BY <2>4, <2>5, LenProperties
  <2>7. OpenAi!Decoded(x) = y
    BY DecodedReady DEF x, y
  <2>8. ASSUME NEW k \in 1..Len(c) + 1 PROVE OpenAi!Decoded(d[k]) = D[k]
    <3>1. k \in 1..Len(c) \/ k = Len(c) + 1
      BY <2>3
    <3> QED  BY <2>3, <2>4, <2>5, <2>7, <3>1
  <2>9. D = [k \in 1..Len(c) + 1 |-> D[k]]
    BY <2>5, <2>6, <2>3
  <2>10. Decs(d) = D
    BY <2>6, <2>8, <2>9 DEF Decs
  <2> QED  BY <1>1, <1>3, <2>10 DEF Ready, d, D, x, y
<1> QED  BY <1>2, <1>3

(***************************************************************************)
(* The first payload that stops the stream, and the deltas before it.      *)
(***************************************************************************)
Chunks == {p \in Real : p.kind = "chunk"}
Halts(ps) == {i \in 1..Len(ps) : OpenAi!Stops(ps[i])}
CutOf(ps) == OpenAi!SelectInSeq(ps, OpenAi!Stops)
Before(ps) == OpenAi!PayloadsBefore(ps, CutOf(ps))

LEMMA CutIs ==
  ASSUME NEW ps \in Seq(Real)
  PROVE  /\ Halts(ps) = {} => CutOf(ps) = 0
         /\ \A c \in Halts(ps) : (\A k \in 1..c - 1 : k \notin Halts(ps)) => CutOf(ps) = c
         /\ CutOf(ps) # 0 =>
              CutOf(ps) \in Halts(ps) /\ \A k \in 1..CutOf(ps) - 1 : k \notin Halts(ps)
         /\ CutOf(ps) = 0 => Halts(ps) = {}
<1> DEFINE I == Halts(ps)
<1>1. Len(ps) \in Nat /\ I \in SUBSET (0..Len(ps)) /\ \A c \in I : c \in 1..Len(ps)
  BY LenProperties DEF Halts
<1>2. CutOf(ps) = IF I # {} THEN OpenAi!Min(I) ELSE 0
  BY Zenon DEF CutOf, OpenAi!SelectInSeq, Halts
<1> HIDE DEF I
<1>3. I # {} => OpenAi!Min(I) \in I /\ \A y \in I : OpenAi!Min(I) <= y
  <2>1. OpenAi!Min(I) = Anthropic!Min(I)
    BY DEF OpenAi!Min, Anthropic!Min
  <2>2. \A S \in SUBSET (0..Len(ps)) :
          S # {} => Anthropic!Min(S) \in S /\ \A y \in S : Anthropic!Min(S) <= y
    BY <1>1, Extremes
  <2> DEFINE x == OpenAi!Min(I)
  <2>3. I # {} => Anthropic!Min(I) \in I /\ \A y \in I : Anthropic!Min(I) <= y
    BY <1>1, <2>2
  <2>4. x = Anthropic!Min(I)
    BY <2>1
  <2>5. I # {} => x \in I /\ \A y \in I : x <= y
    <3> HIDE DEF x
    <3> QED  BY <2>3, <2>4
  <2> QED  BY <2>5
<1>4. ASSUME NEW c \in I, \A k \in 1..c - 1 : k \notin I PROVE CutOf(ps) = c
  <2> DEFINE m == OpenAi!Min(I)
  <2>1. m \in I /\ m <= c /\ CutOf(ps) = m
    BY <1>2, <1>3
  <2> HIDE DEF m
  <2>2. m \in 1..Len(ps) /\ c \in 1..Len(ps) /\ m \notin 1..c - 1
    BY <1>1, <1>4, <2>1
  <2>3. m = c
    BY <1>1, <2>1, <2>2
  <2> QED  BY <2>1, <2>3
<1>5. CutOf(ps) # 0 => CutOf(ps) \in I /\ \A k \in 1..CutOf(ps) - 1 : k \notin I
  <2> DEFINE m == OpenAi!Min(I)
  <2> SUFFICES ASSUME CutOf(ps) # 0 PROVE m = CutOf(ps) /\ m \in I /\ \A k \in 1..m - 1 : k \notin I
    OBVIOUS
  <2>1. m \in I /\ (\A y \in I : m <= y) /\ CutOf(ps) = m
    BY <1>2, <1>3
  <2> HIDE DEF m
  <2>2. m \in Nat
    BY <1>1, <2>1
  <2> QED  BY <2>1, <2>2
<1>6. CutOf(ps) = 0 => I = {}
  <2>1. 0 \notin I
    BY <1>1
  <2> QED  BY <1>2, <1>3, <2>1
<1>7. I = {} => CutOf(ps) = 0
  BY <1>2
<1> QED  BY <1>4, <1>5, <1>6, <1>7 DEF I

LEMMA NoHalt ==
  ASSUME NEW ps \in Seq(Real), \A k \in 1..Len(ps) : k \notin Halts(ps)
  PROVE  CutOf(ps) = 0 /\ Before(ps) = ps /\ ps \in Seq(Chunks)
<1>1. Halts(ps) = {}
  BY DEF Halts
<1>2. CutOf(ps) = 0
  BY <1>1, CutIs
<1>3. ps \in Seq(Chunks)
  <2>1. \A k \in 1..Len(ps) : ps[k] \in Real /\ ~OpenAi!Stops(ps[k])
    BY ElementOfSeq DEF Halts
  <2>2. \A k \in 1..Len(ps) : ps[k] \in Chunks
    BY <2>1 DEF Chunks, OpenAi!Stops
  <2>3. Len(ps) \in Nat /\ ps = [k \in 1..Len(ps) |-> ps[k]]
    BY LenProperties
  <2> QED  BY <2>2, <2>3, ListOf
<1> QED  BY <1>2, <1>3 DEF Before, OpenAi!PayloadsBefore

LEMMA ChunksGo ==
  ASSUME NEW ps \in Seq(Chunks)
  PROVE  ps \in Seq(Real) /\ \A k \in 1..Len(ps) : ~OpenAi!Stops(ps[k])
<1>1. \A p \in Chunks : p \in Real /\ ~OpenAi!Stops(p)
  BY DEF Chunks, OpenAi!Stops
<1>2. \A k \in 1..Len(ps) : ps[k] \in Chunks
  BY ElementOfSeq
<1>3. Chunks \subseteq Real
  BY <1>1
<1> QED  BY <1>1, <1>2, <1>3, SeqMonotonic

LEMMA BeforeType ==
  ASSUME NEW ps \in Seq(Real)
  PROVE  Before(ps) \in Seq(Chunks)
<1>1. Len(ps) \in Nat
  BY LenProperties
<1>2. CASE CutOf(ps) = 0
  <2>1. Halts(ps) = {}
    BY <1>2, CutIs
  <2> QED  BY <2>1, NoHalt
<1>3. CASE CutOf(ps) # 0
  <2> DEFINE c == CutOf(ps)
             s == SubSeq(ps, 1, c - 1)
  <2>1. c \in 1..Len(ps) /\ \A k \in 1..c - 1 : k \notin Halts(ps)
    BY <1>3, CutIs DEF Halts
  <2>2. Before(ps) = s
    BY <1>3 DEF Before, OpenAi!PayloadsBefore
  <2> HIDE DEF c
  <2>3. s \in Seq(Real) /\ Len(s) = c - 1 /\ \A k \in 1..c - 1 : s[k] = ps[k]
    <3>1. c - 1 \in 0..Len(ps)
      BY <1>1, <2>1
    <3> QED  BY <3>1, SplitAt
  <2> HIDE DEF s
  <2>4. \A k \in 1..Len(s) : k \notin Halts(s)
    <3>1. \A k \in 1..c - 1 : k \in 1..Len(ps)
      BY <1>1, <2>1
    <3> QED  BY <2>1, <2>3, <3>1 DEF Halts
  <2>5. s \in Seq(Chunks)
    BY <2>3, <2>4, NoHalt
  <2> QED  BY <2>2, <2>5
<1> QED  BY <1>2, <1>3

LEMMA CutSplit ==
  ASSUME NEW done \in Seq(Chunks), NEW ps \in Seq(Real)
  PROVE  /\ done \o ps \in Seq(Real)
         /\ Before(done \o ps) = done \o Before(ps)
<1> DEFINE full == done \o ps
           L == Len(done)
<1>1. done \in Seq(Real) /\ \A k \in 1..L : ~OpenAi!Stops(done[k])
  BY ChunksGo
<1>2. /\ full \in Seq(Real) /\ L \in Nat /\ Len(ps) \in Nat /\ Len(full) = L + Len(ps)
      /\ \A k \in 1..L : full[k] = done[k]
      /\ \A k \in 1..Len(ps) : full[L + k] = ps[k]
  BY <1>1, Appended
<1> HIDE DEF full, L
<1>3. \A k \in 1..L : k \notin Halts(full)
  BY <1>1, <1>2 DEF Halts
<1>4. \A k \in 1..Len(ps) : L + k \in Halts(full) <=> k \in Halts(ps)
  BY <1>2 DEF Halts
<1>5. \A k \in 1..Len(full) : k \in 1..L \/ \E j \in 1..Len(ps) : k = L + j
  <2>1. \A k \in 1..Len(full) : k \in 1..L \/ (k - L \in 1..Len(ps) /\ k = L + (k - L))
    BY <1>2
  <2> QED  BY <2>1
<1>6. CASE Halts(ps) = {}
  <2>1. \A k \in 1..Len(full) : k \notin Halts(full)
    BY <1>3, <1>4, <1>5, <1>6
  <2>2. Before(full) = full
    BY <1>2, <2>1, NoHalt
  <2>3. Before(ps) = ps
    BY <1>6, NoHalt
  <2> QED  BY <1>2, <2>2, <2>3 DEF full
<1>7. CASE Halts(ps) # {}
  <2> DEFINE c == CutOf(ps)
             s == SubSeq(ps, 1, c - 1)
             t == SubSeq(full, 1, L + (c - 1))
  <2>1. c # 0 /\ c \in Halts(ps) /\ \A k \in 1..c - 1 : k \notin Halts(ps)
    BY <1>7, CutIs
  <2>2. c \in 1..Len(ps)
    BY <2>1 DEF Halts
  <2>3. Before(ps) = s
    BY <2>1 DEF Before, OpenAi!PayloadsBefore
  <2> HIDE DEF c
  <2>4. L + c \in Halts(full) /\ L + c # 0
    BY <1>2, <1>4, <2>1, <2>2
  <2>5. ASSUME NEW k \in 1..(L + c) - 1 PROVE k \notin Halts(full)
    <3>1. k \in 1..L \/ (k - L \in 1..c - 1 /\ k - L \in 1..Len(ps) /\ L + (k - L) = k)
      BY <1>2, <2>2
    <3> QED  BY <1>3, <1>4, <2>1, <3>1
  <2>6. CutOf(full) = L + c
    BY <1>2, <2>4, <2>5, CutIs
  <2>7. Before(full) = t
    <3>1. (L + c) - 1 = L + (c - 1)
      BY <1>2, <2>2
    <3> QED  BY <2>4, <2>6, <3>1 DEF Before, OpenAi!PayloadsBefore
  <2>8. s \in Seq(Real) /\ Len(s) = c - 1 /\ \A k \in 1..c - 1 : s[k] = ps[k]
    <3>1. c - 1 \in 0..Len(ps)
      BY <1>2, <2>2
    <3> QED  BY <3>1, SplitAt
  <2>9. /\ t \in Seq(Real) /\ Len(t) = L + (c - 1)
        /\ \A k \in 1..L + (c - 1) : t[k] = full[k]
    <3>1. L + (c - 1) \in 0..Len(full)
      BY <1>2, <2>2
    <3> QED  BY <1>2, <3>1, SplitAt
  <2> HIDE DEF s, t
  <2> DEFINE u == done \o s
  <2>10. /\ u \in Seq(Real) /\ Len(u) = L + (c - 1)
         /\ \A k \in 1..L : u[k] = done[k]
         /\ \A k \in 1..c - 1 : u[L + k] = s[k]
    <3>1. /\ u \in Seq(Real) /\ Len(u) = L + Len(s)
          /\ \A k \in 1..L : u[k] = done[k]
          /\ \A k \in 1..Len(s) : u[L + k] = s[k]
      <4>1. \A a, b \in Seq(Real) :
              /\ a \o b \in Seq(Real) /\ Len(a \o b) = Len(a) + Len(b)
              /\ \A k \in 1..Len(a) : (a \o b)[k] = a[k]
              /\ \A k \in 1..Len(b) : (a \o b)[Len(a) + k] = b[k]
        BY Appended
      <4> QED  BY <1>1, <2>8, <4>1, Zenon DEF L
    <3> HIDE DEF u
    <3> QED  BY <2>8, <3>1
  <2> HIDE DEF u
  <2>11. ASSUME NEW k \in 1..L + (c - 1) PROVE t[k] = u[k]
    <3>1. CASE k \in 1..L
      BY <1>2, <2>9, <2>10, <3>1
    <3>2. CASE k \notin 1..L
      <4>1. k - L \in 1..c - 1 /\ k - L \in 1..Len(ps) /\ L + (k - L) = k
        BY <1>2, <2>2, <3>2
      <4> QED  BY <1>2, <2>8, <2>9, <2>10, <4>1
    <3> QED  BY <3>1, <3>2
  <2>12. t = u
    BY <2>9, <2>10, <2>11, SeqEqual
  <2> QED  BY <1>2, <2>3, <2>7, <2>12 DEF full, u
<1> QED  BY <1>6, <1>7

Brings == [p \in Chunks |-> p.deltas]
Deltas(ps) == OpenAi!DeltasOf(ps)

LEMMA DeltasAre ==
  /\ \A ps \in Seq(Chunks) : Deltas(ps) \in Seq(Delta)
  /\ \A a, b \in Seq(Chunks) : Deltas(a \o b) = Deltas(a) \o Deltas(b)
  /\ Deltas(<<>>) = <<>>
<1>1. Lists(Brings, Chunks, Delta)
  <2>1. \A p \in Chunks : Brings[p] = p.deltas /\ p.deltas \in Seq(Delta)
    BY PayloadKinds DEF Brings, Chunks
  <2> QED  BY <2>1 DEF Lists
<1>2. ASSUME NEW ps \in Seq(Chunks) PROVE Deltas(ps) = Collected(Brings, ps)
  <2>1. \A k \in DOMAIN ps : Brings[ps[k]] = ps[k].deltas
    <3>1. \A k \in DOMAIN ps : ps[k] \in Chunks
      BY LenProperties, ElementOfSeq
    <3> QED  BY <3>1 DEF Brings
  <2>2. [k \in DOMAIN ps |-> ps[k].deltas] = Mapped(Brings, ps)
    BY <2>1 DEF Mapped
  <2> QED  BY <2>2, OpenAiLibrary, Zenon DEF Deltas, OpenAi!DeltasOf, Collected
<1>3. \A ps \in Seq(Chunks) : Collected(Brings, ps) \in Seq(Delta)
  BY <1>1, CollectedType
<1>4. \A a, b \in Seq(Chunks) : Collected(Brings, a \o b) = Collected(Brings, a) \o Collected(Brings, b)
  BY <1>1, CollectedConcat
<1>5. \A a, b \in Seq(Chunks) : a \o b \in Seq(Chunks)
  BY ConcatProperties
<1>6. <<>> \in Seq(Chunks)
  BY EmptySeq
<1>7. \A ps \in Seq(Chunks) : Deltas(ps) \in Seq(Delta)
  BY <1>2, <1>3, Zenon
<1>8. \A a, b \in Seq(Chunks) : Deltas(a \o b) = Deltas(a) \o Deltas(b)
  BY <1>2, <1>4, <1>5, Zenon
<1>9. Deltas(<<>>) = <<>>
  BY <1>2, <1>6, CollectedEmpty, Zenon
<1> QED  BY <1>7, <1>8, <1>9

Told(ps) == Shown(Deltas(ps), Len(Deltas(ps)))

LEMMA MeaningIs ==
  ASSUME NEW n \in Nat, NEW p, NEW m, script.frames \in Seq(OpenAi!Frames),
         script.eol \in OpenAiEnds, Where(script.frames, script.eol, n, p, m)
  PROVE  OpenAi!Meaning(n) = Told(Before(Pays(script.frames, m)))
<1> DEFINE ps == Pays(script.frames, m)
<1>1. OpenAi!ArrivedPayloads(n) = ps
  BY ArrivedIs
<1>2. ps \in Seq(Real)
  <2>1. m \in 0..Len(script.frames)
    BY FramesDone
  <2> QED  BY <2>1, PaysType
<1> HIDE DEF ps
<1>3. Before(ps) \in Seq(Chunks) /\ Deltas(Before(ps)) \in Seq(Delta)
  BY <1>2, BeforeType, DeltasAre
<1>4. OpenAi!Surfacing(Deltas(Before(ps))) = Told(Before(ps))
  BY <1>3, SurfacingIs DEF Told
<1>5. OpenAi!Meaning(n) = OpenAi!Surfacing(Deltas(Before(ps)))
  BY <1>1, Zenon DEF OpenAi!Meaning, Deltas, Before, CutOf
<1> QED  BY <1>4, <1>5 DEF ps

(***************************************************************************)
(* Draining a chunk: what its payloads say follows what was said before.   *)
(***************************************************************************)
LEMMA ToldType ==
  ASSUME NEW ps \in Seq(Chunks)
  PROVE  Told(ps) \in Seq(Happening)
<1>1. Deltas(ps) \in Seq(Delta)
  BY DeltasAre
<1>2. Len(Deltas(ps)) \in 0..Len(Deltas(ps))
  BY <1>1, LenProperties
<1> QED  BY <1>1, <1>2, ShownType DEF Told

LEMMA ToldFirst == Told(<<>>) = <<>> /\ Known(Deltas(<<>>), Len(Deltas(<<>>))) = [i \in Indices |-> NoId]
<1>1. Deltas(<<>>) = <<>> /\ Len(Deltas(<<>>)) = 0
  BY DeltasAre
<1>2. Shown(<<>>, 0) = <<>>
  <2>1. [k \in 1..0 |-> Surfaced(<<>>, k)] = <<>>
    OBVIOUS
  <2> QED  BY <2>1, FlattenEmpty, Zenon DEF Shown
<1>3. \A i \in Indices : Seen(<<>>, 0, i) = {}
  BY DEF Seen
<1>4. Known(<<>>, 0) = [i \in Indices |-> NoId]
  BY <1>3 DEF Known
<1>5. Told(<<>>) = <<>>
  BY <1>1, <1>2, Zenon DEF Told
<1>6. Known(Deltas(<<>>), Len(Deltas(<<>>))) = [i \in Indices |-> NoId]
  BY <1>1, <1>4, Zenon
<1> QED  BY <1>5, <1>6

LEMMA DrainIs ==
  ASSUME NEW c, Decs(c) \in Seq(Real), NEW done \in Seq(Chunks),
         tool_call_ids = Known(Deltas(done), Len(Deltas(done)))
  PROVE  LET d == OpenAi!DrainEvents(c)
             x == done \o Before(Decs(c))
         IN /\ x \in Seq(Chunks) /\ d.events \in Seq(Happening)
            /\ d.ids = Known(Deltas(x), Len(Deltas(x)))
            /\ Told(done) \o d.events = Told(x)
            /\ d.end = IF CutOf(Decs(c)) = 0 THEN "none" ELSE Decs(c)[CutOf(Decs(c))].kind
<1> DEFINE ps == Decs(c)
           cut == CutOf(ps)
           y == Before(ps)
           x == done \o y
           ds == Deltas(y)
           base == Deltas(done)
           acc == Drained(tool_call_ids, ds)
           full == base \o ds
<1>1. OpenAi!DrainEvents(c)
        = [ids |-> acc[Len(ds)].ids, events |-> acc[Len(ds)].events,
           end |-> IF cut = 0 THEN "none" ELSE ps[cut].kind]
  BY Zenon DEF OpenAi!DrainEvents, Drained, Decs, CutOf, Before, Deltas
<1>2. y \in Seq(Chunks)
  BY BeforeType
<1> HIDE DEF ps, cut, y
<1>3. x \in Seq(Chunks) /\ base \in Seq(Delta) /\ ds \in Seq(Delta) /\ Deltas(x) = full
  BY <1>2, DeltasAre, ConcatProperties
<1>4. tool_call_ids = Known(base, Len(base))
  OBVIOUS
<1> HIDE DEF base, ds
<1>5. /\ full \in Seq(Delta) /\ acc[Len(ds)].ids = Known(full, Len(full))
      /\ acc[Len(ds)].events \in Seq(Happening)
      /\ Shown(base, Len(base)) \o acc[Len(ds)].events = Shown(full, Len(full))
  <2> DEFINE known == Known(base, Len(base))
             run == Drained(known, ds)
  <2>1. /\ full \in Seq(Delta) /\ run[Len(ds)].ids = Known(full, Len(full))
        /\ run[Len(ds)].events \in Seq(Happening)
        /\ Shown(base, Len(base)) \o run[Len(ds)].events = Shown(full, Len(full))
    BY <1>3, DrainsTo
  <2>2. run = acc
    BY <1>4
  <2> HIDE DEF run, acc
  <2> QED  BY <2>1, <2>2
<1>6. Told(done) = Shown(base, Len(base)) /\ Told(x) = Shown(full, Len(full))
  BY <1>3, Zenon DEF Told, base
<1> HIDE DEF acc, full, x
<1> DEFINE d == OpenAi!DrainEvents(c)
<1>7. d.ids = acc[Len(ds)].ids /\ d.events = acc[Len(ds)].events
      /\ d.end = IF cut = 0 THEN "none" ELSE ps[cut].kind
  BY <1>1
<1> HIDE DEF d
<1>8. d.ids = Known(Deltas(x), Len(Deltas(x))) /\ Told(done) \o d.events = Told(x)
  BY <1>3, <1>5, <1>6, <1>7
<1> QED  BY <1>3, <1>5, <1>7, <1>8 DEF d, x, y, ps, cut

-----------------------------------------------------------------------------
(***************************************************************************)
(* The invariant: the payloads of the complete frames are those the stream *)
(* has dealt with and those its parser still holds, and what the consumer  *)
(* has got and is about to get is what the former say.                     *)
(***************************************************************************)
OpenAiTexts ==
  /\ script.frames \in Seq(OpenAi!Frames) /\ script.eol \in OpenAiEnds
  /\ script.bytes = FlattenSeq(Parts(script.frames, script.eol))
  /\ arrived \in Nat /\ finished \in BOOLEAN /\ done_emitted \in BOOLEAN
  /\ phase \in {"new", "open", "failed", "closed"}

OpenAiNew ==
  phase = "new" =>
    /\ out = <<>> /\ pending = <<>> /\ expected = <<>> /\ arrived = 0 /\ conn = "up"
    /\ parser = OpenAi!EmptyParser /\ tool_call_ids = [i \in Indices |-> NoId]
    /\ ~finished /\ ~done_emitted

OpenAiFailed ==
  phase = "failed" => out = <<ErrItem>> /\ expected = <<>> /\ ~done_emitted

Heard(m, done) ==
  /\ Where(script.frames, script.eol, arrived, parser, m)
  /\ expected = Told(Before(Pays(script.frames, m)))
  /\ Decs(parser.completed) \in Seq(Real)
  /\ Pays(script.frames, m) = done \o Decs(parser.completed)
  /\ out \o pending = Told(done)
  /\ tool_call_ids = Known(Deltas(done), Len(Deltas(done)))

OpenAiReading ==
  phase = "open" /\ ~finished =>
    /\ ~done_emitted /\ out \in Seq(Happening) /\ pending \in Seq(Happening)
    /\ conn # "up" => parser.completed = <<>>
    /\ \E done \in Seq(Chunks) : \E m : Heard(m, done)

OpenAiEnding ==
  phase = "open" /\ finished /\ ~done_emitted =>
    out \in Seq(Happening) /\ pending \in Seq(Happening) /\ out \o pending = expected

Around(o, x) ==
  \E a, b \in Seq(Happening), t \in {DoneItem, ErrItem} : o = Append(a, t) \o b /\ x = a \o b

OpenAiEnded ==
  phase = "open" /\ done_emitted =>
    /\ finished /\ pending \in Seq(Happening)
    /\ \E x \in Seq(Happening) : Around(out, x) /\ x \o pending = expected

OpenAiClosed ==
  phase = "closed" => Around(out, expected) /\ (done_emitted => finished)

OpenAiHolds ==
  /\ OpenAiTexts /\ OpenAiNew /\ OpenAiFailed
  /\ OpenAiReading /\ OpenAiEnding /\ OpenAiEnded /\ OpenAiClosed

-----------------------------------------------------------------------------
LEMMA OpenAiStarts ==
  ASSUME OpenAi!Init
  PROVE  OpenAiHolds
<1>1. phase = "new"
  BY DEF OpenAi!Init
<1>2. script.frames \in Seq(OpenAi!Frames) /\ script.eol \in OpenAiEnds
      /\ script.bytes = OpenAi!BytesOf(script.frames, script.eol)
  <2>1. PICK fs \in OpenAi!BoundedSeq(OpenAi!Frames, MaxFrames), e \in OpenAiEnds :
          script = [frames |-> fs, eol |-> e, bytes |-> OpenAi!BytesOf(fs, e)]
    <3>1. script \in OpenAi!Scripts
      BY DEF OpenAi!Init
    <3>2. \A x \in OpenAi!Scripts :
            \E fs \in OpenAi!BoundedSeq(OpenAi!Frames, MaxFrames), e \in OpenAiEnds :
              x = [frames |-> fs, eol |-> e, bytes |-> OpenAi!BytesOf(fs, e)]
      <4> DEFINE A == OpenAi!BoundedSeq(OpenAi!Frames, MaxFrames)
                 resp(a, b) == [frames |-> a, eol |-> b, bytes |-> OpenAi!BytesOf(a, b)]
      <4>1. OpenAi!Scripts = {resp(a, b) : a \in A, b \in OpenAiEnds}
        BY DEF OpenAi!Scripts, OpenAiEnds
      <4> HIDE DEF resp, A
      <4>2. \A x \in OpenAi!Scripts : \E a \in A, b \in OpenAiEnds : x = resp(a, b)
        BY <4>1
      <4> QED  BY <4>2 DEF resp, A
    <3> QED  BY <3>1, <3>2
  <2>2. fs \in Seq(OpenAi!Frames)
    BY DEF OpenAi!BoundedSeq, OpenAi!SeqOf
  <2> QED  BY <2>1, <2>2
<1>3. script.bytes = FlattenSeq(Parts(script.frames, script.eol))
  BY <1>2, PartsAre
<1>4. OpenAiTexts
  BY <1>1, <1>2, <1>3 DEF OpenAi!Init, OpenAiTexts
<1>5. OpenAiNew
  BY DEF OpenAi!Init, OpenAiNew
<1> QED  BY <1>1, <1>4, <1>5
         DEF OpenAiHolds, OpenAiFailed, OpenAiReading, OpenAiEnding, OpenAiEnded, OpenAiClosed

LEMMA OpenAiOpens ==
  ASSUME OpenAiHolds, OpenAi!Open
  PROVE  OpenAiHolds'
<1> USE DEF OpenAi!Open
<1>1. OpenAiTexts'
  BY DEF OpenAiHolds, OpenAiTexts
<1>2. /\ out = <<>> /\ pending = <<>> /\ expected = <<>> /\ arrived = 0 /\ conn = "up"
      /\ parser = OpenAi!EmptyParser /\ tool_call_ids = [i \in Indices |-> NoId]
      /\ ~finished /\ ~done_emitted
  BY DEF OpenAiHolds, OpenAiNew
<1>3. CASE phase' = "failed" /\ out' = <<OpenAi!ErrItem>>
  <2>1. OpenAi!ErrItem = ErrItem
    BY DEF OpenAi!ErrItem, ErrItem
  <2>2. OpenAiNew' /\ OpenAiReading' /\ OpenAiEnding' /\ OpenAiEnded' /\ OpenAiClosed'
    BY <1>3 DEF OpenAiNew, OpenAiReading, OpenAiEnding, OpenAiEnded, OpenAiClosed
  <2>3. OpenAiFailed'
    BY <1>2, <1>3, <2>1 DEF OpenAiFailed
  <2> QED  BY <1>1, <2>2, <2>3 DEF OpenAiHolds
<1>4. CASE phase' = "open" /\ out' = out
  <2>1. script.frames \in Seq(OpenAi!Frames) /\ script.eol \in OpenAiEnds
    BY DEF OpenAiHolds, OpenAiTexts
  <2>2. Heard(0, <<>>)
    <3>1. Where(script.frames, script.eol, arrived, parser, 0)
      BY <1>2, <2>1, NoBite
    <3>2. Pays(script.frames, 0) = <<>> /\ <<>> \o <<>> = <<>>
      BY <2>1, PaysFirst
    <3>3. <<>> \in Seq(Real) /\ <<>> \in Seq(Chunks) /\ parser.completed = <<>>
      BY <1>2, EmptySeq DEF OpenAi!EmptyParser
    <3>4. Before(<<>>) = <<>>
      <4>1. \A k \in 1..Len(<<>>) : k \notin Halts(<<>>)
        OBVIOUS
      <4> QED  BY <3>3, <4>1, NoHalt
    <3> QED  BY <1>2, <3>1, <3>2, <3>3, <3>4, ToldFirst, DecsFirst, Zenon DEF Heard
  <2>3. Heard(0, <<>>)'
    BY <1>4, <2>2 DEF Heard
  <2>4. OpenAiReading'
    <3>1. <<>> \in Seq(Chunks) /\ <<>> \in Seq(Happening)
      BY EmptySeq
    <3> QED  BY <1>2, <1>4, <2>3, <3>1 DEF OpenAiReading
  <2>5. OpenAiNew' /\ OpenAiFailed' /\ OpenAiEnding' /\ OpenAiEnded' /\ OpenAiClosed'
    BY <1>2, <1>4 DEF OpenAiNew, OpenAiFailed, OpenAiEnding, OpenAiEnded, OpenAiClosed
  <2> QED  BY <1>1, <2>4, <2>5 DEF OpenAiHolds
<1> QED  BY <1>3, <1>4

LEMMA OpenAiFeeds ==
  ASSUME OpenAiHolds, OpenAi!FeedByte
  PROVE  OpenAiHolds'
<1> USE DEF OpenAi!FeedByte
<1> DEFINE F == script.frames
           e == script.eol
<1>1. /\ F \in Seq(OpenAi!Frames) /\ e \in OpenAiEnds /\ arrived \in Nat
      /\ script.bytes = FlattenSeq(Parts(F, e))
  BY DEF OpenAiHolds, OpenAiTexts
<1>2. phase = "open" /\ ~finished /\ conn = "up"
  BY DEF OpenAi!Reads
<1>3. ~done_emitted /\ out \in Seq(Happening) /\ pending \in Seq(Happening)
  BY <1>2 DEF OpenAiHolds, OpenAiReading
<1>4. PICK done \in Seq(Chunks) : \E m : Heard(m, done)
  BY <1>2 DEF OpenAiHolds, OpenAiReading
<1>5. PICK m : Heard(m, done)
  BY <1>4
<1>6. /\ Where(F, e, arrived, parser, m)
      /\ Decs(parser.completed) \in Seq(Real)
      /\ Pays(F, m) = done \o Decs(parser.completed)
  BY <1>5 DEF Heard
<1>7. Took(F, e, arrived + 1, parser, parser', m)
  <2>1. parser' = OpenAi!Byte(parser, FlattenSeq(Parts(F, e))[arrived + 1])
        /\ arrived < Len(FlattenSeq(Parts(F, e)))
    BY <1>1
  <2> QED  BY <1>1, <1>6, <2>1, OneBite
<1>8. \E k : /\ Where(F, e, arrived', parser', k)
             /\ Decs(parser'.completed) \in Seq(Real)
             /\ Pays(F, k) = done \o Decs(parser'.completed)
  <2>1. CASE Where(F, e, arrived + 1, parser', m) /\ parser'.completed = parser.completed
    BY <1>6, <2>1
  <2>2. CASE /\ m + 1 \in 1..Len(F) /\ Where(F, e, arrived + 1, parser', m + 1)
             /\ parser'.completed = parser.completed \o Ready(F[m + 1])
    <3> DEFINE c == parser.completed
    <3>1. c \in Seq(Seq(Bite))
      BY <1>6 DEF Where
    <3>2. m \in 0..Len(F)
      BY <1>1, <1>6, FramesDone
    <3>3. /\ Pays(F, m + 1) = Pays(F, m) \o Paid[F[m + 1]]
          /\ F[m + 1] \in OpenAi!Frames /\ Paid[F[m + 1]] \in Seq(Real)
      BY <1>1, <2>2, <3>2, PaysNext
    <3>4. Decs(c \o Ready(F[m + 1])) = Decs(c) \o Paid[F[m + 1]]
      BY <1>6, <3>1, <3>3, DecsNext
    <3>5. \A u, v, w \in Seq(Real) : (u \o v) \o w = u \o (v \o w) /\ v \o w \in Seq(Real)
      BY ConcatAssociative, ConcatProperties
    <3>6. done \in Seq(Real)
      BY ChunksGo
    <3>7. Pays(F, m + 1) = done \o (Decs(c) \o Paid[F[m + 1]])
          /\ Decs(c) \o Paid[F[m + 1]] \in Seq(Real)
      <4> DEFINE D == Decs(c)
                 x == Paid[F[m + 1]]
      <4>1. D \in Seq(Real) /\ x \in Seq(Real) /\ Pays(F, m) = done \o D
            /\ Pays(F, m + 1) = Pays(F, m) \o x
        BY <1>6, <3>3
      <4> HIDE DEF D, x
      <4>2. (done \o D) \o x = done \o (D \o x) /\ D \o x \in Seq(Real)
        BY <3>5, <3>6, <4>1
      <4>3. Pays(F, m + 1) = done \o (D \o x)
        BY <4>1, <4>2
      <4> QED  BY <4>2, <4>3 DEF D, x
    <3> QED  BY <2>2, <3>4, <3>7
  <2> QED  BY <1>7, <2>1, <2>2 DEF Took
<1>9. PICK k : /\ Where(F, e, arrived', parser', k)
               /\ Decs(parser'.completed) \in Seq(Real)
               /\ Pays(F, k) = done \o Decs(parser'.completed)
  BY <1>8
<1>10. expected' = Told(Before(Pays(F, k)))
  <2>1. arrived' = arrived + 1 /\ arrived' \in Nat /\ expected' = OpenAi!Meaning(arrived + 1)
    BY <1>1
  <2> QED  BY <1>1, <1>9, <2>1, MeaningIs
<1>11. Heard(k, done)'
  BY <1>5, <1>9, <1>10 DEF Heard
<1>12. OpenAiReading'
  BY <1>2, <1>3, <1>11 DEF OpenAiReading
<1>13. OpenAiTexts'
  BY DEF OpenAiHolds, OpenAiTexts
<1>14. OpenAiNew' /\ OpenAiFailed' /\ OpenAiEnding' /\ OpenAiEnded' /\ OpenAiClosed'
  BY <1>2, <1>3 DEF OpenAiNew, OpenAiFailed, OpenAiEnding, OpenAiEnded, OpenAiClosed
<1> QED  BY <1>12, <1>13, <1>14 DEF OpenAiHolds

Thing == Happening \cup {DoneItem, ErrItem}

LEMMA ThingsDiffer ==
  /\ OpenAi!DoneItem = DoneItem /\ OpenAi!ErrItem = ErrItem
  /\ OpenAi!Terminals = {DoneItem, ErrItem} /\ Terminals = {DoneItem, ErrItem}
  /\ \A e \in Happening : e # DoneItem /\ e # ErrItem
<1>1. \A e \in Happening : e.kind \in {"text", "usage", "tool"}
  BY DEF Happening, OpenAi!Text, OpenAi!Usage
<1>2. DoneItem.kind = "Done" /\ ErrItem.kind = "Err"
  BY DEF DoneItem, ErrItem
<1> QED  BY <1>1, <1>2 DEF OpenAi!DoneItem, DoneItem, OpenAi!ErrItem, ErrItem,
                           OpenAi!Terminals, Terminals

LEMMA Popped ==
  ASSUME NEW T, NEW o \in Seq(T), NEW p \in Seq(T), p # <<>>
  PROVE  /\ p[1] \in T /\ Append(o, p[1]) \in Seq(T) /\ Tail(p) \in Seq(T)
         /\ Append(o, p[1]) \o Tail(p) = o \o p
<1> DEFINE x == p[1]
           t == Tail(p)
<1>1. x \in T /\ t \in Seq(T) /\ p = <<x>> \o t
  <2>1. x \in T /\ t \in Seq(T) /\ Len(p) \in Nat /\ Len(p) = Len(t) + 1
        /\ \A i \in 1..Len(t) : t[i] = p[i + 1]
    OBVIOUS
  <2> DEFINE u == <<x>> \o t
  <2>2. u \in Seq(T) /\ Len(u) = Len(t) + 1 /\ u[1] = x /\ \A i \in 1..Len(t) : u[i + 1] = t[i]
    <3> HIDE DEF x, t
    <3> QED  BY <2>1
  <2>3. \A i \in 1..Len(p) : p[i] = u[i]
    <3> HIDE DEF u, t
    <3>1. \A i \in 1..Len(p) : i = 1 \/ (i - 1 \in 1..Len(t) /\ (i - 1) + 1 = i)
      BY <2>1
    <3> QED  BY <2>1, <2>2, <3>1
  <2> HIDE DEF t, u
  <2>4. p = u
    <3> HIDE DEF x
    <3> QED  BY <2>1, <2>2, <2>3, SeqEqual
  <2> QED  BY <2>1, <2>4 DEF u
<1> HIDE DEF x, t
<1>2. <<x>> \in Seq(T) /\ Append(o, x) = o \o <<x>> /\ Append(o, x) \in Seq(T)
  BY <1>1, AppendIsConcat
<1>3. (o \o <<x>>) \o t = o \o (<<x>> \o t)
  <2>1. \A u, v, w \in Seq(T) : (u \o v) \o w = u \o (v \o w)
    BY ConcatAssociative
  <2> QED  BY <1>1, <1>2, <2>1
<1>4. Append(o, x) \o t = o \o p
  BY <1>1, <1>2, <1>3
<1> QED  BY <1>1, <1>2, <1>4 DEF x, t

Shifts(T) ==
  \A u, v \in Seq(T), y \in T : Append(v, y) \in Seq(T) /\ Append(u \o v, y) = u \o Append(v, y)

LEMMA AppendMoves == \A T : Shifts(T)
<1> SUFFICES ASSUME NEW T, NEW u \in Seq(T), NEW v \in Seq(T), NEW y \in T
             PROVE  Append(v, y) \in Seq(T) /\ Append(u \o v, y) = u \o Append(v, y)
  BY DEF Shifts
<1>1. <<y>> \in Seq(T) /\ u \o v \in Seq(T) /\ Append(v, y) \in Seq(T)
  OBVIOUS
<1>2. Append(v, y) = v \o <<y>> /\ Append(u \o v, y) = (u \o v) \o <<y>>
  BY <1>1, AppendIsConcat
<1>3. (u \o v) \o <<y>> = u \o (v \o <<y>>)
  BY <1>1, ConcatAssociative
<1> QED  BY <1>1, <1>2, <1>3

LEMMA AroundNext ==
  ASSUME NEW o, NEW x \in Seq(Happening), Around(o, x), NEW e \in Happening
  PROVE  Around(Append(o, e), Append(x, e)) /\ Append(x, e) \in Seq(Happening)
<1>1. PICK a \in Seq(Happening), b \in Seq(Happening), t \in {DoneItem, ErrItem} :
        o = Append(a, t) \o b /\ x = a \o b
  BY DEF Around
<1>3. b \in Seq(Thing) /\ Append(a, t) \in Seq(Thing) /\ e \in Thing
  <2>1. Happening \subseteq Thing /\ t \in Thing
    BY DEF Thing
  <2>2. a \in Seq(Thing) /\ b \in Seq(Thing)
    BY <2>1, SeqMonotonic
  <2> QED  BY <2>1, <2>2
<1>4. Append(o, e) = Append(a, t) \o Append(b, e)
  <2> DEFINE u == Append(a, t)
  <2>1. u \in Seq(Thing)
    BY <1>3
  <2> HIDE DEF u
  <2>2. Append(u \o b, e) = u \o Append(b, e)
    <3>1. \A v, w \in Seq(Thing), y \in Thing : Append(v \o w, y) = v \o Append(w, y)
      <4>1. Shifts(Thing) /\ Shifts(Happening)
        BY AppendMoves
      <4> QED  BY <4>1, Zenon DEF Shifts
    <3> QED  BY <1>3, <2>1, <3>1, Zenon
  <2> QED  BY <1>1, <2>2 DEF u
<1>5. Append(x, e) = a \o Append(b, e) /\ Append(b, e) \in Seq(Happening)
  <2>1. Append(a \o b, e) = a \o Append(b, e) /\ Append(b, e) \in Seq(Happening)
    <3>1. \A v, w \in Seq(Happening), y \in Happening :
            Append(w, y) \in Seq(Happening) /\ Append(v \o w, y) = v \o Append(w, y)
      <4>1. Shifts(Thing) /\ Shifts(Happening)
        BY AppendMoves
      <4> QED  BY <4>1, Zenon DEF Shifts
    <3> QED  BY <3>1, Zenon
  <2> QED  BY <1>1, <2>1, Zenon
<1>6. Append(x, e) \in Seq(Happening)
  OBVIOUS
<1> QED  BY <1>4, <1>5, <1>6 DEF Around

LEMMA AroundLast ==
  ASSUME NEW o \in Seq(Happening), NEW t \in {DoneItem, ErrItem}
  PROVE  Around(Append(o, t), o)
<1>1. <<>> \in Seq(Happening) /\ o \o <<>> = o
  BY EmptySeq, ConcatEmptySeq
<1>2. Append(o, t) \o <<>> = Append(o, t)
  <2>1. Happening \subseteq Thing /\ t \in Thing
    BY DEF Thing
  <2>2. o \in Seq(Thing)
    BY <2>1, SeqMonotonic
  <2>3. Append(o, t) \in Seq(Thing)
    BY <2>1, <2>2
  <2> QED  BY <2>3, ConcatEmptySeq
<1>3. o = o \o <<>> /\ Append(o, t) = Append(o, t) \o <<>>
  BY <1>1, <1>2
<1> QED  BY <1>1, <1>3, Zenon DEF Around

LEMMA OpenAiPops ==
  ASSUME OpenAiHolds, OpenAi!PopPending
  PROVE  OpenAiHolds'
<1> USE DEF OpenAi!PopPending
<1>1. OpenAiTexts' /\ OpenAiNew' /\ OpenAiFailed' /\ OpenAiClosed'
  BY DEF OpenAiHolds, OpenAiTexts, OpenAiNew, OpenAiFailed, OpenAiClosed
<1>2. ASSUME out \in Seq(Happening), pending \in Seq(Happening)
      PROVE  /\ out' \in Seq(Happening) /\ pending' \in Seq(Happening)
             /\ out' \o pending' = out \o pending
  BY <1>2, Popped
<1>3. OpenAiReading'
  <2> SUFFICES ASSUME ~finished PROVE OpenAiReading'
    BY DEF OpenAiReading
  <2>1. /\ ~done_emitted /\ out \in Seq(Happening) /\ pending \in Seq(Happening)
        /\ conn # "up" => parser.completed = <<>>
    BY DEF OpenAiHolds, OpenAiReading
  <2>2. PICK done \in Seq(Chunks) : \E m : Heard(m, done)
    BY DEF OpenAiHolds, OpenAiReading
  <2>3. PICK m : Heard(m, done)
    BY <2>2
  <2>4. Heard(m, done)'
    BY <1>2, <2>1, <2>3 DEF Heard
  <2> QED  BY <1>2, <2>1, <2>4 DEF OpenAiReading
<1>4. OpenAiEnding'
  BY <1>2 DEF OpenAiHolds, OpenAiEnding
<1>5. OpenAiEnded'
  <2> SUFFICES ASSUME done_emitted
               PROVE  /\ finished /\ pending' \in Seq(Happening)
                      /\ \E x \in Seq(Happening) : Around(out', x) /\ x \o pending' = expected
    BY DEF OpenAiEnded, Around
  <2>1. finished /\ pending \in Seq(Happening)
    BY DEF OpenAiHolds, OpenAiEnded
  <2>2. PICK x \in Seq(Happening) : Around(out, x) /\ x \o pending = expected
    BY DEF OpenAiHolds, OpenAiEnded
  <2> DEFINE e == pending[1]
  <2>3. /\ e \in Happening /\ pending' \in Seq(Happening)
        /\ Append(x, e) \o pending' = x \o pending
    BY <2>1, Popped
  <2> HIDE DEF e
  <2>4. Around(Append(out, e), Append(x, e)) /\ Append(x, e) \in Seq(Happening)
    BY <2>2, <2>3, AroundNext
  <2> QED  BY <2>1, <2>2, <2>3, <2>4 DEF e
<1> QED  BY <1>1, <1>3, <1>4, <1>5 DEF OpenAiHolds

LEMMA OpenAiEmits ==
  ASSUME OpenAiHolds, OpenAi!EmitDone
  PROVE  OpenAiHolds'
<1> USE DEF OpenAi!EmitDone
<1>1. OpenAiTexts' /\ OpenAiNew' /\ OpenAiFailed' /\ OpenAiClosed' /\ OpenAiReading'
      /\ OpenAiEnding'
  BY DEF OpenAiHolds, OpenAiTexts, OpenAiNew, OpenAiFailed, OpenAiClosed, OpenAiReading,
         OpenAiEnding
<1>2. out \in Seq(Happening) /\ pending \in Seq(Happening) /\ out \o pending = expected
  BY DEF OpenAiHolds, OpenAiEnding
<1>3. Around(out', out)
  BY <1>2, ThingsDiffer, AroundLast
<1>4. \E x \in Seq(Happening) : Around(out', x) /\ x \o pending' = expected'
  BY <1>2, <1>3
<1>5. OpenAiEnded'
  <2>1. finished' /\ pending' \in Seq(Happening)
    BY <1>2
  <2> QED  BY <1>4, <2>1 DEF OpenAiEnded, Around
<1> QED  BY <1>1, <1>5 DEF OpenAiHolds

LEMMA OpenAiCloses ==
  ASSUME OpenAiHolds, OpenAi!Close
  PROVE  OpenAiHolds'
<1> USE DEF OpenAi!Close
<1>1. OpenAiTexts' /\ OpenAiNew' /\ OpenAiFailed' /\ OpenAiReading' /\ OpenAiEnding' /\ OpenAiEnded'
  BY DEF OpenAiHolds, OpenAiTexts, OpenAiNew, OpenAiFailed, OpenAiReading, OpenAiEnding,
         OpenAiEnded
<1>2. Around(out, expected) /\ (done_emitted => finished)
  <2>1. CASE phase = "failed"
    <3>1. out = <<ErrItem>> /\ expected = <<>> /\ ~done_emitted
      BY <2>1 DEF OpenAiHolds, OpenAiFailed
    <3>2. Append(<<>>, ErrItem) = <<ErrItem>> /\ <<>> \in Seq(Happening)
      BY EmptySeq
    <3>3. Around(Append(<<>>, ErrItem), <<>>)
      BY <3>2, AroundLast
    <3> QED  BY <3>1, <3>2, <3>3
  <2>2. CASE phase = "open" /\ pending = <<>> /\ finished /\ done_emitted
    <3>1. PICK x \in Seq(Happening) : Around(out, x) /\ x \o pending = expected
      BY <2>2 DEF OpenAiHolds, OpenAiEnded
    <3>2. x \o pending = x
      BY <2>2, ConcatEmptySeq
    <3> QED  BY <2>2, <3>1, <3>2
  <2> QED  BY <2>1, <2>2
<1>3. OpenAiClosed'
  BY <1>2 DEF OpenAiClosed, Around
<1> QED  BY <1>1, <1>3 DEF OpenAiHolds

LEMMA OpenAiHears ==
  ASSUME OpenAiHolds, OpenAi!Reads
  PROVE  /\ phase = "open" /\ ~finished /\ pending = <<>> /\ ~done_emitted
         /\ out \in Seq(Happening) /\ (conn # "up" => parser.completed = <<>>)
         /\ \E done \in Seq(Chunks) : \E m : Heard(m, done) /\ out = Told(done)
<1>1. phase = "open" /\ ~finished /\ pending = <<>>
  BY DEF OpenAi!Reads
<1>2. /\ ~done_emitted /\ out \in Seq(Happening) /\ (conn # "up" => parser.completed = <<>>)
      /\ \E done \in Seq(Chunks) : \E m : Heard(m, done)
  BY <1>1 DEF OpenAiHolds, OpenAiReading
<1>3. out \o pending = out
  BY <1>1, <1>2, ConcatEmptySeq
<1>4. \A done, m : Heard(m, done) => out = Told(done)
  BY <1>3, Zenon DEF Heard
<1> QED  BY <1>1, <1>2, <1>4, Zenon

LEMMA OpenAiEndsReading ==
  ASSUME OpenAiHolds, OpenAi!ReadEnd
  PROVE  OpenAiHolds'
<1> USE DEF OpenAi!ReadEnd
<1>1. /\ phase = "open" /\ ~finished /\ pending = <<>> /\ ~done_emitted
      /\ out \in Seq(Happening) /\ (conn # "up" => parser.completed = <<>>)
      /\ \E done \in Seq(Chunks) : \E m : Heard(m, done) /\ out = Told(done)
  BY OpenAiHears
<1>2. PICK done \in Seq(Chunks) : \E m : Heard(m, done) /\ out = Told(done)
  BY <1>1
<1>3. PICK m : Heard(m, done) /\ out = Told(done)
  BY <1>2
<1>4. OpenAiTexts' /\ OpenAiNew' /\ OpenAiFailed' /\ OpenAiReading' /\ OpenAiClosed'
  BY <1>1 DEF OpenAiHolds, OpenAiTexts, OpenAiNew, OpenAiFailed, OpenAiReading, OpenAiClosed
<1>5. expected = out
  <2>1. Pays(script.frames, m) = done \o Decs(parser.completed)
        /\ expected = Told(Before(Pays(script.frames, m)))
    BY <1>3 DEF Heard
  <2>2. Decs(parser.completed) = <<>>
    BY <1>1, DecsFirst
  <2>3. done \o <<>> = done
    BY ConcatEmptySeq
  <2>4. Before(done) = done
    <3>1. done \in Seq(Real) /\ \A k \in 1..Len(done) : ~OpenAi!Stops(done[k])
      BY ChunksGo
    <3>2. \A k \in 1..Len(done) : k \notin Halts(done)
      BY <3>1 DEF Halts
    <3> QED  BY <3>1, <3>2, NoHalt
  <2> QED  BY <1>3, <2>1, <2>2, <2>3, <2>4, Zenon
<1>6. out \o pending = out
  BY <1>1, ConcatEmptySeq
<1>7. CASE conn = "reset"
  <2>1. Around(out', out)
    BY <1>1, <1>7, ThingsDiffer, AroundLast
  <2>2. OpenAiEnded'
    <3>1. \E x \in Seq(Happening) : Around(out', x) /\ x \o pending' = expected'
      BY <1>1, <1>5, <1>6, <2>1
    <3>2. finished' /\ pending' \in Seq(Happening)
      BY <1>1, EmptySeq
    <3> QED  BY <3>1, <3>2 DEF OpenAiEnded, Around
  <2>3. OpenAiEnding'
    BY <1>7 DEF OpenAiEnding
  <2> QED  BY <1>4, <2>2, <2>3 DEF OpenAiHolds
<1>8. CASE conn # "reset"
  <2>1. OpenAiEnding'
    BY <1>1, <1>5, <1>6, <1>8 DEF OpenAiEnding
  <2>2. OpenAiEnded'
    BY <1>8 DEF OpenAiEnded
  <2> QED  BY <1>4, <2>1, <2>2 DEF OpenAiHolds
<1> QED  BY <1>7, <1>8

LEMMA OpenAiDrains ==
  ASSUME OpenAiHolds, OpenAi!DrainChunk
  PROVE  OpenAiHolds'
<1> DEFINE c == parser.completed
           ps == Decs(c)
           cut == CutOf(ps)
           d == OpenAi!DrainEvents(c)
<1>1. /\ OpenAi!Reads
      /\ pending' = d.events /\ tool_call_ids' = d.ids
      /\ finished' = (d.end # "none") /\ done_emitted' = (d.end = "malformed")
      /\ out' = IF d.end = "malformed" THEN Append(out, OpenAi!ErrItem) ELSE out
      /\ parser' = [parser EXCEPT !.completed = <<>>]
      /\ UNCHANGED <<script, arrived, conn, phase, expected>>
  BY DEF OpenAi!DrainChunk
<1>2. /\ phase = "open" /\ ~finished /\ pending = <<>> /\ ~done_emitted
      /\ out \in Seq(Happening)
      /\ \E done \in Seq(Chunks) : \E m : Heard(m, done) /\ out = Told(done)
  BY <1>1, OpenAiHears
<1>3. PICK done \in Seq(Chunks) : \E m : Heard(m, done) /\ out = Told(done)
  BY <1>2
<1>4. PICK m : Heard(m, done) /\ out = Told(done)
  BY <1>3
<1> DEFINE x == done \o Before(ps)
<1>5. /\ Where(script.frames, script.eol, arrived, parser, m)
      /\ expected = Told(Before(Pays(script.frames, m)))
      /\ ps \in Seq(Real) /\ Pays(script.frames, m) = done \o ps
      /\ tool_call_ids = Known(Deltas(done), Len(Deltas(done)))
  BY <1>4 DEF Heard
<1>6. /\ x \in Seq(Chunks) /\ d.events \in Seq(Happening)
      /\ d.ids = Known(Deltas(x), Len(Deltas(x)))
      /\ Told(done) \o d.events = Told(x)
      /\ d.end = IF cut = 0 THEN "none" ELSE ps[cut].kind
  BY <1>5, DrainIs
<1>7. Before(done \o ps) = x
  BY <1>5, CutSplit
<1>8. expected = Told(x)
  BY <1>5, <1>7, Zenon
<1>9. cut # 0 => ps[cut].kind \in {"done", "malformed"}
  <2>1. cut # 0 => cut \in 1..Len(ps) /\ ps[cut].kind # "chunk"
    BY <1>5, CutIs DEF Halts, OpenAi!Stops
  <2> HIDE DEF cut, ps
  <2>2. cut # 0 => ps[cut] \in Real
    BY <1>5, <2>1, ElementOfSeq
  <2> QED  BY <2>1, <2>2, PayloadKinds
<1>10. ps = Before(ps) \/ cut # 0
  BY DEF Before, OpenAi!PayloadsBefore
<1> HIDE DEF cut, d, x
<1>11. OpenAiTexts' /\ OpenAiNew' /\ OpenAiFailed' /\ OpenAiClosed'
  BY <1>1, <1>2 DEF OpenAiHolds, OpenAiTexts, OpenAiNew, OpenAiFailed, OpenAiClosed
<1>12. out \o pending' = expected
  BY <1>1, <1>4, <1>6, <1>8, Zenon
<1>13. CASE d.end = "none"
  <2>1. cut = 0
    BY <1>6, <1>9, <1>13
  <2>0. PICK z \in Seq(Chunks) : z = x
    BY <1>6
  <2>2. Pays(script.frames, m) = z
    BY <1>5, <1>10, <2>0, <2>1 DEF x
  <2>3. parser'.completed = <<>> /\ Where(script.frames, script.eol, arrived, parser', m)
    <3>1. IsParser(parser)
      BY <1>5 DEF Where
    <3>2. /\ IsParser(parser') /\ parser'.completed = <<>> /\ parser'.saw_cr = parser.saw_cr
          /\ parser'.line_buffer = parser.line_buffer
          /\ parser'.pending_data = parser.pending_data
      BY <1>1, <3>1 DEF IsParser
    <3>3. parser'.completed \in Seq(Seq(Bite))
      BY <3>2, EmptySeq
    <3> HIDE DEF c, ps
    <3> QED  BY <1>5, <3>2, <3>3 DEF Where, Inside, Between
  <2>4. Decs(parser'.completed) = <<>> /\ <<>> \in Seq(Real) /\ z \o <<>> = z
    BY <2>3, DecsFirst, EmptySeq, ConcatEmptySeq
  <2>5. out' = out /\ pending' \in Seq(Happening) /\ ~finished' /\ ~done_emitted'
    BY <1>1, <1>6, <1>13
  <2>6. out' \o pending' = Told(z) /\ expected' = Told(Before(Pays(script.frames, m)))
    BY <1>1, <1>5, <1>8, <1>12, <2>0, <2>5
  <2>7. tool_call_ids' = Known(Deltas(z), Len(Deltas(z)))
    BY <1>1, <1>6, <2>0
  <2>8. Heard(m, z)'
    BY <1>1, <2>2, <2>3, <2>4, <2>6, <2>7 DEF Heard
  <2>9. OpenAiReading'
    BY <1>1, <1>2, <2>3, <2>5, <2>8 DEF OpenAiReading
  <2>10. OpenAiEnding' /\ OpenAiEnded'
    BY <2>5 DEF OpenAiEnding, OpenAiEnded
  <2> QED  BY <1>11, <2>9, <2>10 DEF OpenAiHolds
<1>14. CASE d.end = "done"
  <2>1. out' = out /\ pending' \in Seq(Happening) /\ finished' /\ ~done_emitted'
    BY <1>1, <1>6, <1>14
  <2>2. OpenAiEnding'
    BY <1>1, <1>2, <1>12, <2>1 DEF OpenAiEnding
  <2>3. OpenAiReading' /\ OpenAiEnded'
    BY <2>1 DEF OpenAiReading, OpenAiEnded
  <2> QED  BY <1>11, <2>2, <2>3 DEF OpenAiHolds
<1>15. CASE d.end = "malformed"
  <2>1. out' = Append(out, ErrItem) /\ pending' \in Seq(Happening) /\ finished' /\ done_emitted'
    BY <1>1, <1>6, <1>15, ThingsDiffer
  <2>2. Around(out', out)
    BY <1>2, <2>1, AroundLast
  <2>3. \E y \in Seq(Happening) : Around(out', y) /\ y \o pending' = expected'
    BY <1>1, <1>2, <1>12, <2>2
  <2>4. OpenAiEnded'
    BY <2>1, <2>3 DEF OpenAiEnded, Around
  <2>5. OpenAiReading' /\ OpenAiEnding'
    BY <2>1 DEF OpenAiReading, OpenAiEnding
  <2> QED  BY <1>11, <2>4, <2>5 DEF OpenAiHolds
<1> QED  BY <1>6, <1>9, <1>13, <1>14, <1>15

LEMMA OpenAiHangsUp ==
  ASSUME OpenAiHolds, OpenAi!HangUp
  PROVE  OpenAiHolds'
<1> USE DEF OpenAi!HangUp
<1>1. /\ OpenAiTexts' /\ OpenAiNew' /\ OpenAiFailed' /\ OpenAiEnding' /\ OpenAiEnded'
      /\ OpenAiClosed'
  BY DEF OpenAiHolds, OpenAiTexts, OpenAiNew, OpenAiFailed, OpenAiEnding, OpenAiEnded,
         OpenAiClosed
<1>2. OpenAiReading'
  <2>1. \A done, m : Heard(m, done)' <=> Heard(m, done)
    BY DEF Heard
  <2> QED  BY <2>1 DEF OpenAiHolds, OpenAiReading
<1> QED  BY <1>1, <1>2 DEF OpenAiHolds

LEMMA OpenAiStep ==
  ASSUME OpenAiHolds, OpenAi!Next \/ UNCHANGED <<streamVars, openAiVars>>
  PROVE  OpenAiHolds'
<1>1. CASE UNCHANGED <<streamVars, openAiVars>>
  <2>1. UNCHANGED <<conn, phase, out, expected, script, arrived, parser, pending,
                    tool_call_ids, finished, done_emitted>>
    BY <1>1 DEF streamVars, openAiVars
  <2>2. /\ OpenAiTexts' /\ OpenAiNew' /\ OpenAiFailed' /\ OpenAiEnding' /\ OpenAiEnded'
        /\ OpenAiClosed'
    BY <2>1 DEF OpenAiHolds, OpenAiTexts, OpenAiNew, OpenAiFailed, OpenAiEnding, OpenAiEnded,
                OpenAiClosed
  <2>3. \A done, m : Heard(m, done)' <=> Heard(m, done)
    BY <2>1 DEF Heard
  <2>4. OpenAiReading'
    BY <2>1, <2>3 DEF OpenAiHolds, OpenAiReading
  <2> QED  BY <2>2, <2>4 DEF OpenAiHolds
<1>2. CASE OpenAi!Next
  BY <1>2, OpenAiOpens, OpenAiPops, OpenAiEmits, OpenAiCloses, OpenAiEndsReading, OpenAiFeeds,
     OpenAiDrains, OpenAiHangsUp DEF OpenAi!Next, OpenAi!Pump
<1> QED  BY <1>1, <1>2

(***************************************************************************)
(* The properties.                                                         *)
(***************************************************************************)
Passed == [e \in Thing |-> IF e \in Terminals THEN <<>> ELSE <<e>>]

LEMMA PassedParts ==
  /\ Lists(Passed, Thing, Thing)
  /\ \A s \in Seq(Thing) : OpenAi!Events(s) = Collected(Passed, s)
  /\ \A s \in Seq(Happening) : s \in Seq(Thing) /\ Collected(Passed, s) = s
<1>1. Lists(Passed, Thing, Thing)
  <2>1. ASSUME NEW e \in Thing PROVE Passed[e] \in Seq(Thing)
    BY EmptySeq DEF Passed
  <2> QED  BY <2>1 DEF Lists
<1>2. ASSUME NEW s \in Seq(Thing) PROVE OpenAi!Events(s) = Collected(Passed, s)
  <2>1. \A k \in DOMAIN s : s[k] \in Thing
    BY LenProperties, ElementOfSeq
  <2>2. [k \in DOMAIN s |-> IF s[k] \in OpenAi!Terminals THEN <<>> ELSE <<s[k]>>]
          = [k \in DOMAIN s |-> Passed[s[k]]]
    BY <2>1, ThingsDiffer DEF Passed
  <2> QED  BY <2>2, OpenAiLibrary, Zenon DEF OpenAi!Events, Collected, Mapped
<1>3. ASSUME NEW s \in Seq(Happening) PROVE s \in Seq(Thing) /\ Collected(Passed, s) = s
  <2>1. s \in Seq(Thing)
    <3>1. Happening \subseteq Thing
      BY DEF Thing
    <3> QED  BY <3>1, SeqMonotonic
  <2>2. \A k \in 1..Len(s) : Passed[s[k]] = <<s[k]>>
    <3>1. \A k \in 1..Len(s) : s[k] \in Happening
      BY ElementOfSeq
    <3> QED  BY <3>1, ThingsDiffer DEF Passed, Thing
  <2> QED  BY <1>1, <2>1, <2>2, CollectedSame
<1> QED  BY <1>1, <1>2, <1>3

LEMMA AroundIs ==
  ASSUME NEW o, NEW x, Around(o, x)
  PROVE  /\ OpenAi!Events(o) = x /\ OpenAi!HasTerminal(o)
         /\ \A j, k \in DOMAIN o : {o[j], o[k]} \subseteq Terminals => j = k
<1>1. PICK a \in Seq(Happening), b \in Seq(Happening), t \in {DoneItem, ErrItem} :
        o = Append(a, t) \o b /\ x = a \o b
  BY DEF Around
<1> DEFINE u == Append(a, t)
<1>2. a \in Seq(Thing) /\ b \in Seq(Thing) /\ t \in Thing
  BY PassedParts DEF Thing
<1>3. u \in Seq(Thing) /\ Len(u) = Len(a) + 1 /\ u[Len(u)] = t /\ Len(a) \in Nat
      /\ \A k \in 1..Len(a) : u[k] = a[k]
  BY <1>2
<1>4. Collected(Passed, u) = a
  <2>1. \A s \in Seq(Thing), y \in Thing :
          Collected(Passed, Append(s, y)) = Collected(Passed, s) \o Passed[y]
    BY PassedParts, CollectedAppend
  <2>3. Collected(Passed, u) = Collected(Passed, a) \o Passed[t]
    BY <1>2, <2>1
  <2>2. Passed[t] = <<>> /\ a \o <<>> = a /\ Collected(Passed, a) = a
    <3>1. Passed[t] = <<>>
      BY <1>2, ThingsDiffer DEF Passed
    <3> QED  BY <3>1, ConcatEmptySeq, PassedParts
  <2> HIDE DEF u
  <2> QED  BY <2>2, <2>3
<1> HIDE DEF u
<1>5. /\ o \in Seq(Thing) /\ Len(b) \in Nat /\ Len(o) = Len(u) + Len(b)
      /\ \A k \in 1..Len(u) : o[k] = u[k]
      /\ \A k \in 1..Len(b) : o[Len(u) + k] = b[k]
  BY <1>1, <1>2, <1>3, Appended DEF u
<1>6. Collected(Passed, o) = Collected(Passed, u) \o Collected(Passed, b)
  <2>1. \A v, w \in Seq(Thing) :
          Collected(Passed, v \o w) = Collected(Passed, v) \o Collected(Passed, w)
    BY PassedParts, CollectedConcat
  <2>2. o = u \o b
    BY <1>1 DEF u
  <2> QED  BY <1>2, <1>3, <2>1, <2>2
<1>7. OpenAi!Events(o) = x
  BY <1>1, <1>4, <1>5, <1>6, PassedParts
<1>8. DOMAIN o = 1..Len(u) + Len(b)
  BY <1>5, LenProperties
<1>9. ASSUME NEW k \in DOMAIN o, o[k] \in Terminals PROVE k = Len(u)
  <2>1. (\A j \in 1..Len(a) : a[j] \notin Terminals) /\ \A j \in 1..Len(b) : b[j] \notin Terminals
    <3>1. (\A j \in 1..Len(a) : a[j] \in Happening) /\ \A j \in 1..Len(b) : b[j] \in Happening
      BY ElementOfSeq
    <3> QED  BY <3>1, ThingsDiffer
  <2>2. CASE k \in 1..Len(a)
    <3>1. k \in 1..Len(u)
      BY <1>3, <2>2
    <3>2. o[k] = a[k]
      BY <1>3, <1>5, <2>2, <3>1
    <3> QED  BY <1>9, <2>1, <2>2, <3>2
  <2>3. CASE k > Len(u)
    <3>1. k - Len(u) \in 1..Len(b) /\ Len(u) + (k - Len(u)) = k
      BY <1>3, <1>5, <1>8, <2>3
    <3> QED  BY <1>5, <1>9, <2>1, <3>1
  <2> QED  BY <1>3, <1>8, <2>2, <2>3
<1>10. Len(u) \in DOMAIN o /\ o[Len(u)] = t
  BY <1>3, <1>5, <1>8
<1> QED  BY <1>7, <1>9, <1>10, ThingsDiffer DEF OpenAi!HasTerminal

LEMMA OpenAiSurfaces ==
  ASSUME OpenAiHolds
  PROVE  OpenAi!EverythingSurfaces /\ OpenAi!OneTerminal
<1>1. ASSUME out \in Seq(Happening)
      PROVE  ~OpenAi!HasTerminal(out) /\ \A k \in DOMAIN out : out[k] \notin Terminals
  <2>1. \A k \in DOMAIN out : out[k] \in Happening
    BY <1>1, LenProperties, ElementOfSeq
  <2> QED  BY <2>1, ThingsDiffer DEF OpenAi!HasTerminal
<1>2. CASE phase = "new"
  <2>1. out = <<>> /\ ~done_emitted
    BY <1>2 DEF OpenAiHolds, OpenAiNew
  <2>2. \A k \in DOMAIN out : out[k] \notin Terminals
    BY <1>1, <2>1, EmptySeq
  <2> QED  BY <1>2, <2>1, <2>2, ThingsDiffer DEF OpenAi!EverythingSurfaces, OpenAi!OneTerminal
<1>3. CASE phase = "failed"
  <2>1. out = <<ErrItem>> /\ ~done_emitted
    BY <1>3 DEF OpenAiHolds, OpenAiFailed
  <2>2. DOMAIN out = {1}
    BY <2>1
  <2> QED  BY <1>3, <2>1, <2>2 DEF OpenAi!EverythingSurfaces, OpenAi!OneTerminal
<1>4. CASE phase = "closed"
  <2>1. Around(out, expected) /\ (done_emitted => finished)
    BY <1>4 DEF OpenAiHolds, OpenAiClosed
  <2> QED  BY <1>4, <2>1, AroundIs, ThingsDiffer DEF OpenAi!EverythingSurfaces, OpenAi!OneTerminal
<1>5. CASE phase = "open" /\ done_emitted
  <2>1. finished /\ \E x : Around(out, x)
    BY <1>5 DEF OpenAiHolds, OpenAiEnded
  <2> QED  BY <1>5, <2>1, AroundIs, ThingsDiffer DEF OpenAi!EverythingSurfaces, OpenAi!OneTerminal
<1>6. CASE phase = "open" /\ ~done_emitted
  <2>1. out \in Seq(Happening)
    BY <1>6 DEF OpenAiHolds, OpenAiReading, OpenAiEnding
  <2> QED  BY <1>1, <1>6, <2>1, ThingsDiffer DEF OpenAi!EverythingSurfaces, OpenAi!OneTerminal
<1> QED  BY <1>2, <1>3, <1>4, <1>5, <1>6 DEF OpenAiHolds, OpenAiTexts

-----------------------------------------------------------------------------
(***************************************************************************)
(* The two streams as parts of the provider layer, whose other parts leave *)
(* them alone.                                                             *)
(***************************************************************************)
StreamsInv ==
  /\ part = "openai" => OpenAiHolds
  /\ part = "anthropic" => AnthropicHolds

LEMMA StreamsStart == ProvidersInit => StreamsInv
<1> SUFFICES ASSUME ProvidersInit PROVE StreamsInv
  OBVIOUS
<1>1. part = "openai" => OpenAi!Init
  BY DEF ProvidersInit
<1>2. part = "anthropic" => Anthropic!Init
  BY DEF ProvidersInit
<1> QED  BY <1>1, <1>2, OpenAiStarts, AnthropicStarts DEF StreamsInv

LEMMA StreamsStep == StreamsInv /\ [ProvidersNext]_allVars => StreamsInv'
<1> SUFFICES ASSUME StreamsInv, [ProvidersNext]_allVars PROVE StreamsInv'
  OBVIOUS
<1>1. part' = part
  BY DEF ProvidersNext, allVars
<1>2. part = "openai" => OpenAi!Next \/ UNCHANGED <<streamVars, openAiVars>>
  BY DEF ProvidersNext, allVars
<1>3. part = "anthropic" => Anthropic!Next \/ UNCHANGED <<streamVars, anthropicVars>>
  BY DEF ProvidersNext, allVars
<1>4. part = "openai" => OpenAiHolds'
  BY <1>2, OpenAiStep DEF StreamsInv
<1>5. part = "anthropic" => AnthropicHolds'
  BY <1>3, AnthropicStep DEF StreamsInv
<1> QED  BY <1>1, <1>4, <1>5 DEF StreamsInv

LEMMA StreamsHold == ProvidersSpec => []StreamsInv
  BY StreamsStart, StreamsStep, PTL DEF ProvidersSpec

(***************************************************************************)
(* However a response is cut into chunks, whichever line end it uses and   *)
(* wherever it stops, a stream that has closed has yielded every event of  *)
(* what had arrived, in order and under the right call, and one terminal   *)
(* item: pump and its parser, and the generator and its parser.            *)
(***************************************************************************)
THEOREM EverythingSurfacesCorrect == ProvidersSpec => []EverythingSurfaces
<1>1. StreamsInv => EverythingSurfaces
  BY OpenAiSurfaces, AnthropicSurfaces DEF StreamsInv, EverythingSurfaces
<1> QED  BY <1>1, StreamsHold, PTL

-----------------------------------------------------------------------------
(***************************************************************************)
(* Both adapters' streams as ChatStream.  A list that begins another.      *)
(***************************************************************************)
Begins(T, u, v) == u \in Seq(T) /\ v \in Seq(T) /\ \E r \in Seq(T) : v = u \o r

LEMMA BeginsIs ==
  ASSUME NEW T
  PROVE  /\ \A u \in Seq(T) : Begins(T, u, u)
         /\ \A u, r \in Seq(T) : Begins(T, u, u \o r)
         /\ \A u, v, w : Begins(T, u, v) /\ Begins(T, v, w) => Begins(T, u, w)
<1>1. \A u \in Seq(T) : <<>> \in Seq(T) /\ u \o <<>> = u
  BY EmptySeq, ConcatEmptySeq
<1>2. \A u, r \in Seq(T) : u \o r \in Seq(T)
  BY ConcatProperties
<1>3. \A u, r, s \in Seq(T) : (u \o r) \o s = u \o (r \o s)
  BY ConcatAssociative
<1>4. \A u \in Seq(T) : Begins(T, u, u)
  BY <1>1, Zenon DEF Begins
<1>5. \A u, r \in Seq(T) : Begins(T, u, u \o r)
  BY <1>2, Zenon DEF Begins
<1>6. ASSUME NEW u, NEW v, NEW w, Begins(T, u, v), Begins(T, v, w) PROVE Begins(T, u, w)
  <2>1. PICK r \in Seq(T) : v = u \o r
    BY <1>6 DEF Begins
  <2>2. PICK s \in Seq(T) : w = v \o s
    BY <1>6 DEF Begins
  <2>3. u \in Seq(T) /\ w \in Seq(T)
    BY <1>6 DEF Begins
  <2>4. (u \o r) \o s = u \o (r \o s) /\ r \o s \in Seq(T)
    <3>1. u \in Seq(T) /\ r \in Seq(T) /\ s \in Seq(T)
      BY <2>3
    <3>2. (u \o r) \o s = u \o (r \o s)
      BY <3>1, ConcatAssociative
    <3>3. r \o s \in Seq(T)
      BY <3>1, ConcatProperties
    <3> QED  BY <3>2, <3>3
  <2>5. w = u \o (r \o s)
    BY <2>1, <2>2, <2>4
  <2> QED  BY <2>3, <2>4, <2>5, Zenon DEF Begins
<1> QED  BY <1>4, <1>5, <1>6, Zenon

LEMMA PrefixIs ==
  ASSUME NEW T, NEW u, NEW v, Begins(T, u, v)
  PROVE  OpenAi!Contract!IsPrefix(u, v)
<1>1. PICK r \in Seq(T) : v = u \o r
  BY DEF Begins
<1>2. u \in Seq(T) /\ v \in Seq(T)
  BY DEF Begins
<1>3. /\ Len(u) \in Nat /\ Len(r) \in Nat /\ Len(v) = Len(u) + Len(r)
      /\ \A k \in 1..Len(u) : v[k] = u[k]
  BY <1>1, <1>2, Appended
<1>4. Len(u) <= Len(v) /\ Len(v) \in Nat
  BY <1>3
<1>5. SubSeq(v, 1, Len(u)) = SubSeq(u, 1, Len(u))
  <2>1. Len(u) \in 0..Len(u) /\ Len(u) \in 0..Len(v)
    BY <1>3, <1>4
  <2>2. /\ SubSeq(u, 1, Len(u)) \in Seq(T) /\ Len(SubSeq(u, 1, Len(u))) = Len(u)
        /\ \A k \in 1..Len(u) : SubSeq(u, 1, Len(u))[k] = u[k]
    BY <1>2, <1>3
  <2>3. /\ SubSeq(v, 1, Len(u)) \in Seq(T) /\ Len(SubSeq(v, 1, Len(u))) = Len(u)
        /\ \A k \in 1..Len(u) : SubSeq(v, 1, Len(u))[k] = v[k]
    BY <1>2, <1>3, <1>4
  <2> DEFINE a == SubSeq(u, 1, Len(u))
             b == SubSeq(v, 1, Len(u))
  <2>4. a \in Seq(T) /\ b \in Seq(T) /\ Len(a) = Len(b) /\ \A k \in 1..Len(a) : a[k] = b[k]
    BY <1>3, <2>2, <2>3
  <2>5. a = b
    <3> HIDE DEF a, b
    <3> QED  BY <2>4, SeqEqual
  <2> QED  BY <2>5
<1> QED  BY <1>4, <1>5 DEF OpenAi!Contract!IsPrefix

(***************************************************************************)
(* What a consumer that stops at the first terminal item has.              *)
(***************************************************************************)
Ordinary(T) == DoneItem \notin T /\ ErrItem \notin T

LEMMA OrdinaryItems == Ordinary(Event) /\ Ordinary(Happening)
BY ItemsDiffer, ThingsDiffer DEF Ordinary

LEMMA FirstTerminal ==
  ASSUME NEW o, Len(o) \in Nat
  PROVE  LET I == {i \in 1..Len(o) : o[i] \in {DoneItem, ErrItem}}
         IN /\ I = {} => OpenAi!UpToTerminal(o) = o
            /\ \A c \in I : (\A k \in 1..c - 1 : k \notin I)
                 => OpenAi!UpToTerminal(o) = SubSeq(o, 1, c - 1)
<1> DEFINE I == {i \in 1..Len(o) : o[i] \in {DoneItem, ErrItem}}
           J == {i \in 1..Len(o) : o[i] \in OpenAi!Terminals}
           cut == IF I = {} THEN 0 ELSE OpenAi!Min(I)
<1>1. I = J
  BY ThingsDiffer, Zenon
<1>2. OpenAi!UpToTerminal(o) = IF cut = 0 THEN o ELSE SubSeq(o, 1, cut - 1)
  <2>1. OpenAi!UpToTerminal(o)
          = LET c == IF J # {} THEN OpenAi!Min(J) ELSE 0
            IN IF c = 0 THEN o ELSE SubSeq(o, 1, c - 1)
    BY Zenon DEF OpenAi!UpToTerminal, OpenAi!SelectInSeq
  <2> HIDE DEF I, J
  <2> QED  BY <1>1, <2>1, Zenon
<1>3. I \in SUBSET (0..Len(o)) /\ \A c \in I : c \in 1..Len(o)
  OBVIOUS
<1>4. ASSUME NEW c \in I, \A k \in 1..c - 1 : k \notin I PROVE cut = c /\ c # 0
  <2>1. OpenAi!Min(I) = Anthropic!Min(I)
    BY DEF OpenAi!Min, Anthropic!Min
  <2> HIDE DEF I
  <2>2. Anthropic!Min(I) \in I /\ \A y \in I : Anthropic!Min(I) <= y
    BY <1>3, Extremes
  <2> DEFINE m == OpenAi!Min(I)
  <2>3. m \in I /\ m <= c /\ cut = m
    BY <2>1, <2>2
  <2> HIDE DEF m, cut
  <2>4. m \in 1..Len(o) /\ c \in 1..Len(o) /\ m \notin 1..c - 1
    BY <1>3, <1>4, <2>3
  <2>5. m = c
    BY <2>3, <2>4
  <2> QED  BY <2>3, <2>4, <2>5
<1> HIDE DEF I
<1>5. I = {} => OpenAi!UpToTerminal(o) = o
  BY <1>2
<1>6. ASSUME NEW c \in I, \A k \in 1..c - 1 : k \notin I
      PROVE  OpenAi!UpToTerminal(o) = SubSeq(o, 1, c - 1)
  <2>1. cut = c /\ c # 0
    BY <1>4, <1>6
  <2> HIDE DEF cut
  <2> QED  BY <1>2, <2>1
<1> QED  BY <1>5, <1>6 DEF I

LEMMA Unended ==
  ASSUME NEW T, Ordinary(T), NEW o \in Seq(T)
  PROVE  OpenAi!UpToTerminal(o) = o /\ OpenAi!Ending(o) = "open"
<1>1. Len(o) \in Nat /\ DOMAIN o = 1..Len(o) /\ \A k \in 1..Len(o) : o[k] \in T
  BY LenProperties, ElementOfSeq
<1>2. \A k \in 1..Len(o) : o[k] # DoneItem /\ o[k] # ErrItem
  BY <1>1 DEF Ordinary
<1>3. {i \in 1..Len(o) : o[i] \in {DoneItem, ErrItem}} = {}
  BY <1>2
<1>4. OpenAi!UpToTerminal(o) = o
  BY <1>1, <1>3, FirstTerminal
<1>5. DoneItem \notin OpenAi!Range(o) /\ ErrItem \notin OpenAi!Range(o)
  BY <1>1, <1>2 DEF OpenAi!Range
<1> QED  BY <1>4, <1>5, ThingsDiffer DEF OpenAi!Ending

EndedBy(t) == IF t = DoneItem THEN "done" ELSE "failed"

LEMMA Ended ==
  ASSUME NEW T, Ordinary(T), NEW a \in Seq(T), NEW b \in Seq(T), NEW t \in {DoneItem, ErrItem},
         NEW o, o = Append(a, t) \o b
  PROVE  OpenAi!UpToTerminal(o) = a /\ OpenAi!Ending(o) = EndedBy(t)
<1> DEFINE U == T \cup {DoneItem, ErrItem}
           c == Append(a, t)
           n == Len(a)
<1>1. a \in Seq(U) /\ b \in Seq(U) /\ c \in Seq(U)
  <2>1. T \subseteq U /\ t \in U
    OBVIOUS
  <2> HIDE DEF U
  <2>2. a \in Seq(U) /\ b \in Seq(U)
    BY <2>1, SeqMonotonic
  <2> QED  BY <2>1, <2>2
<1>2. n \in Nat /\ Len(c) = n + 1 /\ c[n + 1] = t /\ \A k \in 1..n : c[k] = a[k] /\ a[k] \in T
  BY LenProperties, ElementOfSeq
<1>3. /\ o \in Seq(U) /\ Len(b) \in Nat /\ Len(o) = Len(c) + Len(b)
      /\ \A k \in 1..Len(c) : o[k] = c[k]
      /\ \A k \in 1..Len(b) : o[Len(c) + k] = b[k]
  <2>1. o = c \o b
    OBVIOUS
  <2> HIDE DEF U, c
  <2> QED  BY <1>1, <2>1, Appended
<1> HIDE DEF c
<1>4. Len(o) \in Nat /\ DOMAIN o = 1..Len(o) /\ Len(o) = (n + 1) + Len(b)
  BY <1>2, <1>3
<1>5. n + 1 \in 1..Len(o) /\ o[n + 1] = t /\ \A k \in 1..n : o[k] = a[k] /\ o[k] \in T
  BY <1>2, <1>3
<1>6. \A k \in 1..Len(o) : k = n + 1 \/ o[k] \in T
  <2> SUFFICES ASSUME NEW k \in 1..Len(o), k # n + 1, ~(k \in 1..n) PROVE o[k] \in T
    BY <1>5
  <2> DEFINE j == k - (n + 1)
  <2>1. j \in 1..Len(b) /\ Len(c) + j = k
    BY <1>2, <1>3, <1>4
  <2>2. \A i \in 1..Len(b) : b[i] \in T
    BY LenProperties, ElementOfSeq
  <2> QED  BY <1>3, <2>1, <2>2
<1> DEFINE I == {i \in 1..Len(o) : o[i] \in {DoneItem, ErrItem}}
<1>7. n + 1 \in I /\ \A k \in 1..(n + 1) - 1 : k \notin I
  <2>1. n + 1 \in I
    BY <1>5
  <2>2. ASSUME NEW k \in 1..(n + 1) - 1 PROVE k \notin I
    <3>1. k \in 1..n
      BY <1>2
    <3>2. o[k] \in T
      BY <1>5, <3>1
    <3> QED  BY <3>2 DEF Ordinary
  <2> QED  BY <2>1, <2>2
<1>8. OpenAi!UpToTerminal(o) = SubSeq(o, 1, (n + 1) - 1)
  BY <1>4, <1>7, FirstTerminal
<1>9. SubSeq(o, 1, (n + 1) - 1) = a
  <2> DEFINE s == SubSeq(o, 1, n)
  <2>1. (n + 1) - 1 = n
    BY <1>2
  <2>2. s \in Seq(U) /\ Len(s) = n /\ \A k \in 1..n : s[k] = o[k]
    <3>1. \A i \in 1..n : o[i] \in U
      BY <1>5
    <3> QED  BY <1>2, <1>3, <1>4, <3>1, SubSeqProperties
  <2>3. s = a
    <3>1. Len(s) = Len(a) /\ \A k \in 1..Len(s) : s[k] = a[k]
      BY <1>5, <2>2
    <3> HIDE DEF s, U
    <3> QED  BY <1>1, <2>2, <3>1, SeqEqual
  <2> QED  BY <2>1, <2>3
<1>10. \A x \in {DoneItem, ErrItem} : x \in OpenAi!Range(o) <=> x = t
  <2>1. t \in OpenAi!Range(o)
    BY <1>4, <1>5 DEF OpenAi!Range
  <2>2. \A k \in 1..Len(o) : o[k] = t \/ o[k] \in T
    BY <1>5, <1>6
  <2>3. \A x \in {DoneItem, ErrItem} : x \in OpenAi!Range(o) => x = t
    BY <1>4, <2>2 DEF OpenAi!Range, Ordinary
  <2> QED  BY <2>1, <2>3
<1>11. OpenAi!Ending(o) = EndedBy(t)
  <2>1. DoneItem # ErrItem
    BY DEF DoneItem, ErrItem
  <2> QED  BY <1>10, <2>1, ThingsDiffer DEF OpenAi!Ending, EndedBy
<1> QED  BY <1>8, <1>9, <1>11

LEMMA EndedNow ==
  ASSUME NEW T, Ordinary(T), NEW a \in Seq(T), NEW t \in {DoneItem, ErrItem}
  PROVE  OpenAi!UpToTerminal(Append(a, t)) = a /\ OpenAi!Ending(Append(a, t)) = EndedBy(t)
<1> DEFINE U == T \cup {t}
           o == Append(a, t)
<1>1. o = o \o <<>>
  <2>1. a \in Seq(U) /\ t \in U
    <3>1. T \subseteq U /\ t \in U
      OBVIOUS
    <3> HIDE DEF U
    <3> QED  BY <3>1, SeqMonotonic
  <2>2. o \in Seq(U)
    BY <2>1
  <2> HIDE DEF o, U
  <2> QED  BY <2>2, ConcatEmptySeq
<1>2. <<>> \in Seq(T) /\ o = Append(a, t) \o <<>>
  BY <1>1, EmptySeq
<1> HIDE DEF o
<1>3. OpenAi!UpToTerminal(o) = a /\ OpenAi!Ending(o) = EndedBy(t)
  BY <1>2, Ended
<1> QED  BY <1>3 DEF o

(***************************************************************************)
(* Steps of a stream as steps of ChatStream, T being the adapter's events. *)
(***************************************************************************)
LEMMA Stays ==
  ASSUME UNCHANGED <<out, expected>>
  PROVE  UNCHANGED OpenAi!Contract!vars
BY DEF OpenAi!Contract!vars

LEMMA EndedNext ==
  ASSUME NEW T, Ordinary(T), NEW a \in Seq(T), NEW d \in Seq(T), NEW t \in {DoneItem, ErrItem},
         out' = Append(a, t) \o d
  PROVE  OpenAi!UpToTerminal(out') = a /\ OpenAi!Ending(out') = EndedBy(t)
BY Ended

LEMMA Lingers ==
  ASSUME NEW T, Ordinary(T), NEW a \in Seq(T), NEW b \in Seq(T), NEW t \in {DoneItem, ErrItem},
         out = Append(a, t) \o b, NEW y \in T, out' = Append(out, y), expected' = expected
  PROVE  UNCHANGED OpenAi!Contract!vars
<1>1. Append(b, y) \in Seq(T)
  OBVIOUS
<1>2. out' = Append(a, t) \o Append(b, y)
  <2> DEFINE U == T \cup {DoneItem, ErrItem}
             c == Append(a, t)
  <2>1. T \subseteq U /\ t \in U /\ y \in U
    OBVIOUS
  <2>2. c \in Seq(U) /\ b \in Seq(U)
    <3> HIDE DEF U
    <3>1. a \in Seq(U) /\ b \in Seq(U)
      BY <2>1, SeqMonotonic
    <3> QED  BY <2>1, <3>1
  <2>3. out' = Append(c \o b, y)
    OBVIOUS
  <2>4. Shifts(U)
    BY AppendMoves, Zenon
  <2>5. Append(c \o b, y) = c \o Append(b, y)
    <3> HIDE DEF U, c
    <3> QED  BY <2>1, <2>2, <2>4, Zenon DEF Shifts
  <2> QED  BY <2>3, <2>5
<1>3. OpenAi!UpToTerminal(out) = a /\ OpenAi!Ending(out) = EndedBy(t)
  BY Ended
<1>4. PICK d \in Seq(T) : out' = Append(a, t) \o d
  BY <1>1, <1>2, Zenon
<1>5. OpenAi!UpToTerminal(out') = a /\ OpenAi!Ending(out') = EndedBy(t)
  BY <1>4, EndedNext, Zenon
<1> QED  BY <1>3, <1>5 DEF OpenAi!Contract!vars

LEMMA Arrives ==
  ASSUME NEW T, Ordinary(T), out \in Seq(T), UNCHANGED out, NEW E, Begins(E, expected, expected')
  PROVE  OpenAi!Contract!Next
<1>1. OpenAi!Ending(out) = "open"
  BY Unended
<1>2. OpenAi!Contract!IsPrefix(expected, expected')
  BY PrefixIs
<1> QED  BY <1>1, <1>2 DEF OpenAi!Contract!Next, OpenAi!Contract!Arrive

LEMMA Delivers ==
  ASSUME NEW T, Ordinary(T), out \in Seq(T), NEW y \in T, out' = Append(out, y),
         UNCHANGED expected, Begins(T, Append(out, y), expected)
  PROVE  OpenAi!Contract!Next
<1>1. \A o \in Seq(T) : OpenAi!UpToTerminal(o) = o /\ OpenAi!Ending(o) = "open"
  BY Unended
<1>2. out' \in Seq(T)
  OBVIOUS
<1>3. /\ OpenAi!UpToTerminal(out) = out /\ OpenAi!Ending(out) = "open"
      /\ OpenAi!UpToTerminal(out') = out' /\ OpenAi!Ending(out') = "open"
  BY <1>1, <1>2
<1>4. Len(out) < Len(expected) /\ expected[Len(out) + 1] = y
  <2> DEFINE o == Append(out, y)
  <2>1. o \in Seq(T) /\ Len(out) \in Nat /\ Len(o) = Len(out) + 1 /\ o[Len(out) + 1] = y
    BY LenProperties
  <2>2. PICK r \in Seq(T) : expected = o \o r
    BY DEF Begins
  <2> HIDE DEF o
  <2>3. /\ Len(r) \in Nat /\ Len(expected) = Len(o) + Len(r)
        /\ \A k \in 1..Len(o) : expected[k] = o[k]
    BY <2>1, <2>2, Appended
  <2> QED  BY <2>1, <2>3
<1> QED  BY <1>3, <1>4 DEF OpenAi!Contract!Next, OpenAi!Contract!Deliver

LEMMA Finishes ==
  ASSUME NEW T, Ordinary(T), out \in Seq(T), out' = Append(out, DoneItem),
         UNCHANGED expected, out = expected
  PROVE  OpenAi!Contract!Next
<1>1. OpenAi!UpToTerminal(out) = out /\ OpenAi!Ending(out) = "open"
  BY Unended
<1>2. \A a \in Seq(T) : OpenAi!UpToTerminal(Append(a, DoneItem)) = a
                         /\ OpenAi!Ending(Append(a, DoneItem)) = "done"
  BY EndedNow DEF EndedBy
<1>3. OpenAi!UpToTerminal(out') = out /\ OpenAi!Ending(out') = "done"
  BY <1>2
<1> QED  BY <1>1, <1>3 DEF OpenAi!Contract!Next, OpenAi!Contract!Finish

LEMMA Fails ==
  ASSUME NEW T, Ordinary(T), out \in Seq(T), out' = Append(out, ErrItem),
         UNCHANGED expected, NEW E, expected \in Seq(E)
  PROVE  OpenAi!Contract!Next
<1>1. OpenAi!UpToTerminal(out) = out /\ OpenAi!Ending(out) = "open"
  BY Unended
<1>2. \A a \in Seq(T) : OpenAi!UpToTerminal(Append(a, ErrItem)) = a
                         /\ OpenAi!Ending(Append(a, ErrItem)) = "failed"
  <2>1. ErrItem # DoneItem
    BY DEF ErrItem, DoneItem
  <2> QED  BY <2>1, EndedNow DEF EndedBy
<1>3. OpenAi!UpToTerminal(out') = out /\ OpenAi!Ending(out') = "failed"
  BY <1>2
<1>4. OpenAi!Contract!IsPrefix(expected, expected')
  <2>1. Begins(E, expected, expected)
    BY BeginsIs
  <2>2. OpenAi!Contract!IsPrefix(expected, expected)
    BY <2>1, PrefixIs
  <2> QED  BY <2>2
<1> QED  BY <1>1, <1>3, <1>4 DEF OpenAi!Contract!Next, OpenAi!Contract!Fail

LEMMA StartsOpen == OpenAi!UpToTerminal(<<>>) = <<>> /\ OpenAi!Ending(<<>>) = "open"
<1>1. <<>> \in Seq(Event)
  BY EmptySeq
<1> QED  BY <1>1, OrdinaryItems, Unended

(***************************************************************************)
(* The OpenAI-compatible adapter: what arrives extends what had arrived.   *)
(***************************************************************************)
LEMMA BeforeGrows ==
  ASSUME NEW ps \in Seq(Real), NEW more \in Seq(Real)
  PROVE  \E y \in Seq(Chunks) : Before(ps \o more) = Before(ps) \o y
<1>1. /\ ps \o more \in Seq(Real) /\ Len(ps) \in Nat /\ Len(more) \in Nat
      /\ Len(ps \o more) = Len(ps) + Len(more)
      /\ \A k \in 1..Len(ps) : (ps \o more)[k] = ps[k]
  BY Appended
<1>2. CASE CutOf(ps) = 0
  <2>1. \A k \in 1..Len(ps) : k \notin Halts(ps)
    BY <1>2, CutIs
  <2>2. Before(ps) = ps /\ ps \in Seq(Chunks)
    BY <2>1, NoHalt
  <2>3. Before(ps \o more) = ps \o Before(more)
    BY <2>2, CutSplit
  <2>4. Before(more) \in Seq(Chunks)
    BY BeforeType
  <2> QED  BY <2>2, <2>3, <2>4
<1>3. CASE CutOf(ps) # 0
  <2> DEFINE c == CutOf(ps)
             all == ps \o more
  <2>1. c \in Halts(ps) /\ \A k \in 1..c - 1 : k \notin Halts(ps)
    BY <1>3, CutIs
  <2>2. c \in 1..Len(ps)
    BY <2>1 DEF Halts
  <2> HIDE DEF c
  <2>3. \A k \in 1..Len(ps) : k \in Halts(ps) <=> k \in Halts(all)
    BY <1>1 DEF Halts
  <2>4. c \in Halts(all) /\ \A k \in 1..c - 1 : k \notin Halts(all)
    BY <1>1, <2>1, <2>2, <2>3
  <2>5. CutOf(all) = c
    <3>1. all \in Seq(Real)
      BY <1>1
    <3> HIDE DEF all
    <3> QED  BY <2>4, <3>1, CutIs
  <2>6. c # 0
    BY <2>2
  <2>7. Before(all) = SubSeq(all, 1, c - 1) /\ Before(ps) = SubSeq(ps, 1, c - 1)
    BY <2>5, <2>6 DEF Before, OpenAi!PayloadsBefore, c
  <2>8. SubSeq(all, 1, c - 1) = SubSeq(ps, 1, c - 1)
    <3> DEFINE u == SubSeq(all, 1, c - 1)
               v == SubSeq(ps, 1, c - 1)
    <3>1. c - 1 \in 0..Len(ps) /\ c - 1 \in 0..Len(all)
      BY <1>1, <2>2
    <3>2. \A i \in 1..c - 1 : ps[i] \in Real /\ all[i] \in Real /\ all[i] = ps[i]
      <4>1. \A i \in 1..Len(ps) : ps[i] \in Real
        BY LenProperties, ElementOfSeq
      <4> QED  BY <1>1, <2>2, <4>1
    <3>3. u \in Seq(Real) /\ Len(u) = c - 1 /\ \A i \in 1..c - 1 : u[i] = all[i]
      <4> HIDE DEF all
      <4> QED  BY <1>1, <3>1, <3>2, SubSeqProperties
    <3>4. v \in Seq(Real) /\ Len(v) = c - 1 /\ \A i \in 1..c - 1 : v[i] = ps[i]
      BY <3>1, <3>2, SubSeqProperties
    <3>5. Len(u) = Len(v) /\ \A i \in 1..Len(u) : u[i] = v[i]
      BY <3>2, <3>3, <3>4
    <3> HIDE DEF u, v
    <3>6. u = v
      BY <3>3, <3>4, <3>5, SeqEqual
    <3> QED  BY <3>6 DEF u, v
  <2>9. Before(ps) \in Seq(Chunks)
    BY BeforeType
  <2>10. <<>> \in Seq(Chunks) /\ Before(ps) \o <<>> = Before(ps)
    BY <2>9, EmptySeq, ConcatEmptySeq
  <2>11. Before(all) = Before(ps) \o <<>>
    BY <2>7, <2>8, <2>10
  <2> QED  BY <2>10, <2>11 DEF all
<1> QED  BY <1>2, <1>3

LEMMA ToldGrows ==
  ASSUME NEW a \in Seq(Chunks), NEW y \in Seq(Chunks)
  PROVE  Begins(Happening, Told(a), Told(a \o y))
<1> DEFINE D == Deltas(a)
           all == Deltas(a \o y)
           b == Len(D)
           n == Len(all) - b
<1>1. D \in Seq(Delta) /\ Deltas(y) \in Seq(Delta) /\ all = D \o Deltas(y)
  BY DeltasAre
<1>2. /\ all \in Seq(Delta) /\ b \in Nat /\ n \in Nat /\ b + n = Len(all)
      /\ \A k \in 1..b : all[k] = D[k]
  <2>1. /\ D \o Deltas(y) \in Seq(Delta) /\ Len(D) \in Nat /\ Len(Deltas(y)) \in Nat
        /\ Len(D \o Deltas(y)) = Len(D) + Len(Deltas(y))
        /\ \A k \in 1..Len(D) : (D \o Deltas(y))[k] = D[k]
    <3> HIDE DEF D
    <3> QED  BY <1>1, Appended
  <2> HIDE DEF D, all
  <2> QED  BY <1>1, <2>1
<1>3. AgreeDeltas(D, all, b)
  <2> HIDE DEF D, all
  <2> QED  BY <1>1, <1>2 DEF AgreeDeltas
<1>4. Shown(D, b) = Shown(all, b)
  BY <1>3, DeltasAgree
<1>5. Since(all, b, n) \in Seq(Happening) /\ Shown(all, b) \o Since(all, b, n) = Shown(all, b + n)
  <2> HIDE DEF D, all, b, n
  <2>1. n \in 0..n /\ b + n <= Len(all)
    BY <1>2
  <2> QED  BY <1>2, <2>1, ShownSplit
<1>6. Told(a) = Shown(D, b) /\ Told(a \o y) = Shown(all, Len(all))
  BY DEF Told
<1>7. Told(a \o y) = Told(a) \o Since(all, b, n)
  <2> HIDE DEF D, all, b, n
  <2> QED  BY <1>2, <1>4, <1>5, <1>6
<1>8. Told(a) \in Seq(Happening)
  BY ToldType
<1> HIDE DEF D, all, b, n
<1> QED  BY <1>5, <1>7, <1>8, BeginsIs

LEMMA OpenAiArrives ==
  ASSUME OpenAiHolds, OpenAi!FeedByte
  PROVE  /\ out \in Seq(Happening) /\ UNCHANGED out
         /\ Begins(Happening, expected, expected')
<1> DEFINE F == script.frames
           e == script.eol
<1>1. /\ F \in Seq(OpenAi!Frames) /\ e \in OpenAiEnds /\ arrived \in Nat
      /\ script.bytes = FlattenSeq(Parts(F, e))
  BY DEF OpenAiHolds, OpenAiTexts
<1>2. /\ OpenAi!Reads /\ arrived < Len(script.bytes)
      /\ parser' = OpenAi!Byte(parser, script.bytes[arrived + 1])
      /\ expected' = OpenAi!Meaning(arrived + 1) /\ UNCHANGED out
  BY DEF OpenAi!FeedByte
<1>3. out \in Seq(Happening) /\ \E done \in Seq(Chunks) : \E m : Heard(m, done)
  BY <1>2, OpenAiHears
<1>4. PICK m : Where(F, e, arrived, parser, m) /\ expected = Told(Before(Pays(F, m)))
  BY <1>3 DEF Heard
<1>5. Took(F, e, arrived + 1, parser, parser', m)
  <2>1. parser' = OpenAi!Byte(parser, FlattenSeq(Parts(F, e))[arrived + 1])
        /\ arrived < Len(FlattenSeq(Parts(F, e)))
    BY <1>1, <1>2
  <2> QED  BY <1>1, <1>4, <2>1, OneBite
<1>6. m \in 0..Len(F) /\ Pays(F, m) \in Seq(Real)
  BY <1>1, <1>4, FramesDone, PaysType
<1>7. \A k : Where(F, e, arrived + 1, parser', k) => expected' = Told(Before(Pays(F, k)))
  <2>1. arrived + 1 \in Nat
    BY <1>1
  <2> QED  BY <1>1, <1>2, <2>1, MeaningIs
<1>8. Before(Pays(F, m)) \in Seq(Chunks)
  BY <1>6, BeforeType
<1>9. CASE Where(F, e, arrived + 1, parser', m)
  <2>1. expected' = expected
    BY <1>4, <1>7, <1>9
  <2>2. expected \in Seq(Happening)
    BY <1>4, <1>8, ToldType
  <2> QED  BY <1>2, <1>3, <2>1, <2>2, BeginsIs
<1>10. CASE m + 1 \in 1..Len(F) /\ Where(F, e, arrived + 1, parser', m + 1)
  <2> DEFINE ps == Pays(F, m)
             x == Paid[F[m + 1]]
  <2>1. Pays(F, m + 1) = ps \o x /\ x \in Seq(Real)
    BY <1>1, <1>6, <1>10, PaysNext
  <2>2. expected' = Told(Before(ps \o x))
    BY <1>7, <1>10, <2>1
  <2>3. ps \in Seq(Real) /\ Before(ps) \in Seq(Chunks) /\ expected = Told(Before(ps))
    BY <1>4, <1>6, <1>8
  <2> HIDE DEF ps, x
  <2>4. PICK y \in Seq(Chunks) : Before(ps \o x) = Before(ps) \o y
    BY <2>1, <2>3, BeforeGrows
  <2>5. Begins(Happening, Told(Before(ps)), Told(Before(ps) \o y))
    BY <2>3, ToldGrows
  <2>6. Begins(Happening, expected, expected')
    BY <2>2, <2>3, <2>4, <2>5
  <2> QED  BY <1>2, <1>3, <2>6
<1> QED  BY <1>5, <1>9, <1>10 DEF Took

LEMMA OpenAiKnown ==
  ASSUME OpenAiHolds, phase = "open", ~finished
  PROVE  \E done \in Seq(Chunks) :
           out \o pending = Told(done) /\ Begins(Happening, Told(done), expected)
<1>1. PICK done \in Seq(Chunks) : \E m : Heard(m, done)
  BY DEF OpenAiHolds, OpenAiReading
<1>2. PICK m : Heard(m, done)
  BY <1>1
<1> DEFINE D == Decs(parser.completed)
<1>3. D \in Seq(Real) /\ expected = Told(Before(Pays(script.frames, m)))
      /\ Pays(script.frames, m) = done \o D /\ out \o pending = Told(done)
  BY <1>2 DEF Heard
<1> HIDE DEF D
<1>4. Before(done \o D) = done \o Before(D) /\ Before(D) \in Seq(Chunks)
  BY <1>3, CutSplit, BeforeType
<1>5. Begins(Happening, Told(done), Told(done \o Before(D)))
  BY <1>4, ToldGrows
<1> QED  BY <1>3, <1>4, <1>5

LEMMA OpenAiPopRefines ==
  ASSUME OpenAiHolds, OpenAi!PopPending
  PROVE  OpenAi!Contract!Next \/ UNCHANGED OpenAi!Contract!vars
<1> DEFINE y == pending[1]
<1>1. phase = "open" /\ pending # <<>> /\ out' = Append(out, y) /\ UNCHANGED expected
  BY DEF OpenAi!PopPending
<1>2. finished \in BOOLEAN /\ done_emitted \in BOOLEAN
  BY DEF OpenAiHolds, OpenAiTexts
<1>3. pending \in Seq(Happening)
  BY <1>1, <1>2 DEF OpenAiHolds, OpenAiReading, OpenAiEnding, OpenAiEnded
<1>4. y \in Happening
  BY <1>1, <1>3, Popped
<1> HIDE DEF y
<1>5. ASSUME out \in Seq(Happening), Begins(Happening, out \o pending, expected)
      PROVE  OpenAi!Contract!Next
  <2>1. /\ Append(out, y) \in Seq(Happening) /\ Tail(pending) \in Seq(Happening)
        /\ Append(out, y) \o Tail(pending) = out \o pending
    BY <1>1, <1>3, <1>5, Popped DEF y
  <2>2. Begins(Happening, Append(out, y), out \o pending)
    <3> DEFINE o == Append(out, y)
               r == Tail(pending)
    <3>1. o \in Seq(Happening) /\ r \in Seq(Happening) /\ o \o r = out \o pending
      BY <2>1
    <3> HIDE DEF o, r
    <3>2. Begins(Happening, o, o \o r)
      BY <3>1, BeginsIs
    <3>3. Begins(Happening, o, out \o pending)
      BY <3>1, <3>2
    <3> QED  BY <3>3 DEF o
  <2>3. Begins(Happening, Append(out, y), expected)
    BY <1>5, <2>2, BeginsIs, Zenon
  <2> QED  BY <1>1, <1>4, <1>5, <2>3, OrdinaryItems, Delivers
<1>6. CASE ~finished
  <2>1. out \in Seq(Happening) /\ \E done \in Seq(Chunks) :
          out \o pending = Told(done) /\ Begins(Happening, Told(done), expected)
    BY <1>1, <1>6, OpenAiKnown DEF OpenAiHolds, OpenAiReading
  <2>2. Begins(Happening, out \o pending, expected)
    BY <2>1
  <2> QED  BY <1>5, <2>1, <2>2
<1>7. CASE finished /\ ~done_emitted
  <2>1. out \in Seq(Happening) /\ out \o pending = expected
    BY <1>1, <1>7 DEF OpenAiHolds, OpenAiEnding
  <2>2. out \o pending \in Seq(Happening)
    BY <1>3, <2>1, ConcatProperties
  <2>3. Begins(Happening, out \o pending, expected)
    BY <2>1, <2>2, BeginsIs
  <2> QED  BY <1>5, <2>1, <2>3
<1>8. CASE done_emitted
  <2>1. PICK x \in Seq(Happening) : Around(out, x)
    BY <1>1, <1>8 DEF OpenAiHolds, OpenAiEnded
  <2>2. PICK a \in Seq(Happening), b \in Seq(Happening), t \in {DoneItem, ErrItem} :
          out = Append(a, t) \o b
    BY <2>1 DEF Around
  <2>3. UNCHANGED OpenAi!Contract!vars
    BY <1>1, <1>4, <2>2, OrdinaryItems, Lingers
  <2> QED  BY <2>3
<1> QED  BY <1>2, <1>6, <1>7, <1>8

LEMMA FailsFrom ==
  ASSUME out = <<>>, expected = <<>>, out' = <<ErrItem>>, UNCHANGED expected
  PROVE  OpenAi!Contract!Next
<1>1. <<>> \in Seq(Event) /\ Append(<<>>, ErrItem) = <<ErrItem>>
  BY EmptySeq
<1> QED  BY <1>1, OrdinaryItems, Fails

LEMMA OpenAiRefines ==
  ASSUME OpenAiHolds, OpenAi!Next
  PROVE  OpenAi!Contract!Next \/ UNCHANGED OpenAi!Contract!vars
<1>1. CASE OpenAi!Open
  <2>1. phase = "new" /\ UNCHANGED expected /\ (UNCHANGED out \/ out' = <<ErrItem>>)
    BY <1>1, ThingsDiffer DEF OpenAi!Open
  <2>2. out = <<>> /\ expected = <<>>
    BY <2>1 DEF OpenAiHolds, OpenAiNew
  <2> QED  BY <2>1, <2>2, FailsFrom, Stays
<1>2. CASE OpenAi!PopPending
  BY <1>2, OpenAiPopRefines
<1>3. CASE OpenAi!EmitDone
  <2>1. /\ phase = "open" /\ pending = <<>> /\ finished /\ ~done_emitted
        /\ out' = Append(out, DoneItem) /\ UNCHANGED expected
    BY <1>3, ThingsDiffer DEF OpenAi!EmitDone
  <2>2. out \in Seq(Happening) /\ out \o pending = expected
    BY <2>1 DEF OpenAiHolds, OpenAiEnding
  <2>3. out = expected
    BY <2>1, <2>2, ConcatEmptySeq
  <2> QED  BY <2>1, <2>2, <2>3, OrdinaryItems, Finishes
<1>4. CASE OpenAi!Close
  BY <1>4, Stays DEF OpenAi!Close
<1>5. ASSUME OpenAi!Reads, UNCHANGED expected, out' = out \/ out' = Append(out, ErrItem)
      PROVE  OpenAi!Contract!Next \/ UNCHANGED OpenAi!Contract!vars
  <2>1. out \in Seq(Happening) /\ phase = "open" /\ ~finished
    BY <1>5, OpenAiHears
  <2>2. expected \in Seq(Happening)
    BY <2>1, OpenAiKnown DEF Begins
  <2> QED  BY <1>5, <2>1, <2>2, OrdinaryItems, Fails, Stays
<1>6. CASE OpenAi!ReadEnd
  <2>1. OpenAi!Reads /\ UNCHANGED expected /\ (out' = out \/ out' = Append(out, ErrItem))
    BY <1>6, ThingsDiffer DEF OpenAi!ReadEnd
  <2> QED  BY <1>5, <2>1
<1>7. CASE OpenAi!FeedByte
  <2>1. /\ out \in Seq(Happening) /\ UNCHANGED out
        /\ Begins(Happening, expected, expected')
    BY <1>7, OpenAiArrives
  <2> QED  BY <2>1, OrdinaryItems, Arrives
<1>8. CASE OpenAi!DrainChunk
  <2>1. OpenAi!Reads /\ UNCHANGED expected /\ (out' = out \/ out' = Append(out, ErrItem))
    BY <1>8, ThingsDiffer DEF OpenAi!DrainChunk
  <2> QED  BY <1>5, <2>1
<1>9. CASE OpenAi!HangUp
  BY <1>9, Stays DEF OpenAi!HangUp
<1> QED  BY <1>1, <1>2, <1>3, <1>4, <1>6, <1>7, <1>8, <1>9 DEF OpenAi!Next, OpenAi!Pump

(***************************************************************************)
(* The Anthropic adapter: what arrives extends what had arrived.           *)
(***************************************************************************)
Extends(V, W) ==
  /\ W \in Seq(Line) /\ V \in Seq(Line)
  /\ Len(W) <= Len(V) /\ \A k \in 1..Len(W) : V[k] = W[k]

LEMMA YieldedGrows ==
  ASSUME NEW ls \in Seq(Line), NEW e \in 0..Len(ls), \A k \in 1..e : ~Stopping(ls, k), NEW d \in 0..e
  PROVE  Begins(Event, Anthropic!Yielded(ls, d), Anthropic!Yielded(ls, e))
<1> DEFINE Y(n) == Anthropic!Yielded(ls, n)
           N == e - d
           Good == {n \in 0..N : Begins(Event, Y(d), Y(d + n))}
<1>1. Len(ls) \in Nat /\ d \in Nat /\ e \in Nat /\ N \in Nat /\ d + N = e /\ e <= Len(ls)
  BY LenProperties
<1>2. \A n \in 0..e : Y(n) \in Seq(Event)
  <2> SUFFICES ASSUME NEW n \in 0..e PROVE Y(n) \in Seq(Event)
    OBVIOUS
  <2>1. n \in 0..Len(ls) /\ \A k \in 1..n : ~Stopping(ls, k)
    BY <1>1
  <2> QED  BY <2>1, YieldedNext
<1>3. 0 \in Good
  <2>1. d + 0 = d /\ 0 \in 0..N /\ Y(d) \in Seq(Event)
    BY <1>1, <1>2
  <2>2. Begins(Event, Y(d), Y(d))
    <3> HIDE DEF Y
    <3> QED  BY <2>1, BeginsIs
  <2> QED  BY <2>1, <2>2
<1>4. ASSUME NEW n \in 0..N, n < N, n \in Good PROVE n + 1 \in Good
  <2> DEFINE m == d + n
  <2>1. m \in 0..Len(ls) /\ m < Len(ls) /\ m + 1 \in 1..e /\ d + (n + 1) = m + 1
        /\ n + 1 \in 0..N /\ m \in 0..e /\ m + 1 \in 0..e
    BY <1>1, <1>4
  <2>2. \A k \in 1..m + 1 : ~Stopping(ls, k)
    BY <2>1
  <2>3. Y(m) \in Seq(Event) /\ Y(m + 1) = Y(m) \o Anthropic!Yields(ls, m + 1)
    <3>1. \A k \in 1..m : ~Stopping(ls, k)
      BY <2>1, <2>2
    <3>2. ~Stopping(ls, m + 1)
      BY <2>1, <2>2
    <3> HIDE DEF m
    <3> QED  BY <2>1, <3>1, <3>2, YieldedNext
  <2>4. Anthropic!Yields(ls, m + 1) \in Seq(Event)
    <3>1. m + 1 \in 1..Len(ls) /\ ~Stopping(ls, m + 1)
      BY <1>1, <2>1, <2>2
    <3> HIDE DEF m
    <3> QED  BY <3>1, YieldsType
  <2>5. Begins(Event, Y(m), Y(m + 1))
    <3> DEFINE r == Anthropic!Yields(ls, m + 1)
    <3>1. r \in Seq(Event) /\ Y(m) \in Seq(Event) /\ Y(m + 1) = Y(m) \o r
      BY <2>3, <2>4
    <3> HIDE DEF r, Y, m
    <3> QED  BY <3>1, BeginsIs
  <2>6. Begins(Event, Y(d), Y(m))
    BY <1>4
  <2>7. Begins(Event, Y(d), Y(m + 1))
    <3> HIDE DEF Y, m
    <3> QED  BY <2>5, <2>6, BeginsIs, Zenon
  <2> QED  BY <2>1, <2>7
<1>5. N \in Good
  <2> HIDE DEF Good, N
  <2> QED  BY <1>1, <1>3, <1>4, Climb
<1> QED  BY <1>1, <1>5

LEMMA StopsFirst ==
  ASSUME NEW ls \in Seq(Line)
  PROVE  \/ /\ \A k \in 1..Len(ls) : ~Stopping(ls, k)
            /\ Anthropic!Meaning(ls) = Anthropic!Yielded(ls, Len(ls))
         \/ \E d \in 0..Len(ls) :
              /\ d < Len(ls) /\ \A k \in 1..d : ~Stopping(ls, k)
              /\ Stopping(ls, d + 1)
<1> DEFINE S == {k \in 1..Len(ls) : Stopping(ls, k)}
<1>1. Len(ls) \in Nat /\ S \in SUBSET (0..Len(ls))
  BY LenProperties
<1>2. CASE S = {}
  <2>1. \A k \in 1..Len(ls) : ~Stopping(ls, k)
    BY <1>2
  <2> QED  BY <2>1, NoStop
<1>3. CASE S # {}
  <2> DEFINE m == Anthropic!Min(S)
  <2>1. m \in S /\ \A k \in S : m <= k
    <3> HIDE DEF S
    <3> QED  BY <1>1, <1>3, Extremes
  <2> HIDE DEF m
  <2>2. m \in 1..Len(ls) /\ Stopping(ls, m)
    BY <2>1
  <2>3. \A k \in 1..m - 1 : ~Stopping(ls, k)
    BY <1>1, <2>1, <2>2
  <2>4. m - 1 \in 0..Len(ls) /\ m - 1 < Len(ls) /\ (m - 1) + 1 = m
    BY <1>1, <2>2
  <2> DEFINE d == m - 1
  <2>5. d \in 0..Len(ls) /\ d < Len(ls) /\ (\A k \in 1..d : ~Stopping(ls, k)) /\ Stopping(ls, d + 1)
    BY <2>2, <2>3, <2>4
  <2> HIDE DEF d
  <2> QED  BY <2>5
<1> QED  BY <1>2, <1>3

(***************************************************************************)
(* What an undisturbed beginning of the lines yields begins the meaning.   *)
(***************************************************************************)
LEMMA YieldedMeans ==
  ASSUME NEW ls \in Seq(Line), NEW d \in 0..Len(ls), \A k \in 1..d : ~Stopping(ls, k)
  PROVE  Begins(Event, Anthropic!Yielded(ls, d), Anthropic!Meaning(ls))
<1>0. Len(ls) \in Nat
  BY LenProperties
<1>1. CASE /\ \A k \in 1..Len(ls) : ~Stopping(ls, k)
           /\ Anthropic!Meaning(ls) = Anthropic!Yielded(ls, Len(ls))
  <2>1. Len(ls) \in 0..Len(ls)
    BY <1>0
  <2> QED  BY <1>1, <2>1, YieldedGrows
<1>2. ASSUME NEW e \in 0..Len(ls), e < Len(ls), \A k \in 1..e : ~Stopping(ls, k), Stopping(ls, e + 1)
      PROVE  Begins(Event, Anthropic!Yielded(ls, d), Anthropic!Meaning(ls))
  <2>1. Anthropic!Meaning(ls) = Anthropic!Yielded(ls, e)
    BY <1>2, FirstStopIs
  <2>2. d <= e
    <3>1. CASE d > e
      <4>1. e + 1 \in 1..d
        BY <1>0, <1>2, <3>1
      <4> QED  BY <1>2, <4>1
    <3> QED  BY <1>0, <3>1
  <2>3. d \in 0..e
    BY <1>0, <2>2
  <2> QED  BY <1>2, <2>1, <2>3, YieldedGrows
<1> QED  BY <1>1, <1>2, StopsFirst

LEMMA MeaningGrows ==
  ASSUME NEW W, NEW V, Extends(V, W)
  PROVE  Begins(Event, Anthropic!Meaning(W), Anthropic!Meaning(V))
<1>1. W \in Seq(Line) /\ V \in Seq(Line) /\ Len(W) \in Nat /\ Len(V) \in Nat /\ Len(W) <= Len(V)
      /\ \A k \in 1..Len(W) : V[k] = W[k]
  BY LenProperties DEF Extends
<1>2. \A n \in 0..Len(W) : Agree(W, V, n)
  BY <1>1 DEF Agree
<1>3. \A n \in 0..Len(W) : /\ \A k \in 1..n : Stopping(W, k) <=> Stopping(V, k)
                           /\ Anthropic!Yielded(W, n) = Anthropic!Yielded(V, n)
  BY <1>2, AgreeLines
<1>4. CASE /\ \A k \in 1..Len(W) : ~Stopping(W, k)
           /\ Anthropic!Meaning(W) = Anthropic!Yielded(W, Len(W))
  <2>1. Len(W) \in 0..Len(W) /\ Len(W) \in 0..Len(V)
    BY <1>1
  <2>2. \A k \in 1..Len(W) : ~Stopping(V, k)
    BY <1>3, <1>4, <2>1
  <2>3. Anthropic!Meaning(W) = Anthropic!Yielded(V, Len(W))
    BY <1>3, <1>4, <2>1
  <2> QED  BY <1>1, <2>1, <2>2, <2>3, YieldedMeans
<1>5. ASSUME NEW d \in 0..Len(W), d < Len(W), \A k \in 1..d : ~Stopping(W, k), Stopping(W, d + 1)
      PROVE  Begins(Event, Anthropic!Meaning(W), Anthropic!Meaning(V))
  <2>1. d + 1 \in 0..Len(W) /\ d + 1 \in 1..d + 1 /\ d \in 0..Len(V) /\ d < Len(V)
    BY <1>1, <1>5
  <2>2. \A k \in 1..d : ~Stopping(V, k)
    BY <1>3, <1>5
  <2>3. Stopping(V, d + 1)
    BY <1>3, <1>5, <2>1
  <2>4. Anthropic!Meaning(W) = Anthropic!Yielded(W, d) /\ Anthropic!Meaning(V) = Anthropic!Yielded(V, d)
    BY <1>1, <1>5, <2>1, <2>2, <2>3, FirstStopIs
  <2>5. Anthropic!Meaning(W) = Anthropic!Meaning(V)
    BY <1>3, <2>4
  <2>6. Begins(Event, Anthropic!Yielded(V, d), Anthropic!Meaning(V))
    BY <1>1, <2>1, <2>2, YieldedMeans
  <2> QED  BY <2>4, <2>5, <2>6
<1> QED  BY <1>1, <1>4, <1>5, StopsFirst

LEMMA OutMeans ==
  ASSUME NEW W, NEW q, NEW o, NEW map, Progress(W, q, o, map), NEW V, Extends(V, W)
  PROVE  o \in Seq(Event) /\ Begins(Event, o, Anthropic!Meaning(V))
<1>1. W \in Seq(Line)
  BY DEF Progress
<1>2. PICK d \in 0..Len(W) : Standing(W, q, d, o, map)
  BY DEF Progress
<1>3. o = Anthropic!Yielded(W, d) /\ \A k \in 1..d : ~Stopping(W, k)
  BY <1>2 DEF Standing, Decoded
<1>4. Begins(Event, o, Anthropic!Meaning(W))
  BY <1>1, <1>3, YieldedMeans
<1>5. Begins(Event, Anthropic!Meaning(W), Anthropic!Meaning(V))
  BY MeaningGrows
<1>6. Begins(Event, o, Anthropic!Meaning(V))
  BY <1>4, <1>5, BeginsIs, Zenon
<1> QED  BY <1>6 DEF Begins

AnthropicMeans == expected = Anthropic!Meaning(Anthropic!Received)

LEMMA AnthropicMeansStep ==
  ASSUME AnthropicMeans, Anthropic!Next
  PROVE  AnthropicMeans'
<1>1. CASE UNCHANGED <<line, rest, conn, expected>>
  BY <1>1 DEF AnthropicMeans, Anthropic!Received
<1>2. CASE Anthropic!FeedByte
  BY <1>2 DEF Anthropic!FeedByte, AnthropicMeans, Anthropic!Received
<1>3. CASE Anthropic!HangUp
  <2>1. conn = "up" /\ conn' \in {"eof", "reset"} /\ UNCHANGED <<line, rest>>
        /\ expected' = IF conn' = "eof" THEN Anthropic!Meaning(Anthropic!WithTrailer(line, rest))
                       ELSE expected
    BY <1>3 DEF Anthropic!HangUp
  <2> QED  BY <2>1 DEF AnthropicMeans, Anthropic!Received
<1>4. Anthropic!Open \/ Anthropic!EndChunk \/ Anthropic!Generator
        => UNCHANGED <<line, rest, conn, expected>>
  BY DEF Anthropic!Open, Anthropic!EndChunk, Anthropic!Generator, Anthropic!Decode,
         Anthropic!ReadError, Anthropic!Flush, Anthropic!Finish
<1> QED  BY <1>1, <1>2, <1>3, <1>4 DEF Anthropic!Next

Dealt == IF phase = "flushing" THEN Anthropic!WithTrailer(line, rest) ELSE Anthropic!Whole(line, rest)

LEMMA ExtendsItself == \A W \in Seq(Line) : Extends(W, W)
BY LenProperties DEF Extends

LEMMA ReceivedExtends ==
  ASSUME AnthropicHolds, phase \in {"reading", "flushing"}
  PROVE  /\ Extends(Anthropic!Received, Dealt)
         /\ Progress(Dealt, lines \o fed, out, index_map)
<1>1. eol \in LineEnds /\ line \in Seq(Line) /\ lines \in Seq(Scrap)
  BY DEF AnthropicHolds, AnthropicTexts
<1>2. Progress(Dealt, lines \o fed, out, index_map)
  <2>1. CASE phase = "reading"
    BY <2>1 DEF AnthropicHolds, AnthropicReading, Dealt
  <2>2. CASE phase = "flushing"
    <3>1. fed = <<>> /\ Progress(Dealt, lines, out, index_map)
      BY <2>2 DEF AnthropicHolds, AnthropicFlushing, Dealt
    <3>2. lines \o <<>> = lines
      BY <1>1, ConcatEmptySeq
    <3> QED  BY <3>1, <3>2
  <2> QED  BY <2>1, <2>2
<1>3. Dealt \in Seq(Line)
  BY <1>2 DEF Progress
<1>4. CASE Anthropic!Received = Dealt
  BY <1>2, <1>3, <1>4, ExtendsItself
<1>5. CASE Anthropic!Received # Dealt
  <2>1. conn = "eof" /\ phase = "reading"
    BY <1>5 DEF AnthropicHolds, AnthropicFlushing, Anthropic!Received, Dealt
  <2>2. Cursor /\ Anthropic!Received = Anthropic!WithTrailer(line, rest)
        /\ Dealt = Anthropic!Whole(line, rest)
    BY <2>1 DEF AnthropicHolds, AnthropicReading, Anthropic!Received, Dealt
  <2>3. Extends(Anthropic!Received, Dealt)
    BY <1>1, <1>3, <2>2, TrailerExtends DEF Extends
  <2> QED  BY <1>2, <2>3
<1> QED  BY <1>2, <1>4, <1>5

LEMMA AnthropicKnown ==
  ASSUME AnthropicHolds, AnthropicMeans, phase \in {"reading", "flushing"}
  PROVE  out \in Seq(Event) /\ expected \in Seq(Event) /\ Begins(Event, out, expected)
<1>1. out \in Seq(Event) /\ Begins(Event, out, Anthropic!Meaning(Anthropic!Received))
  BY ReceivedExtends, OutMeans
<1> QED  BY <1>1 DEF AnthropicMeans, Begins

(***************************************************************************)
(* The lines that a byte, or the end of the response, adds.                *)
(***************************************************************************)
LEMMA LinesGrow ==
  ASSUME AnthropicHolds, Anthropic!FeedByte
  PROVE  Extends(Anthropic!Whole(line', rest'), Anthropic!Whole(line, rest))
<1>1. eol \in LineEnds /\ line \in Seq(Line) /\ Cursor
  BY DEF AnthropicHolds, AnthropicTexts, AnthropicReading, Anthropic!FeedByte
<1>2. \A r, ls : Anthropic!Whole(ls, r) = IF r = <<>> THEN ls ELSE Front(ls)
  BY AnthropicLibrary DEF Anthropic!Whole
<1>3. \A ls \in Seq(Line), l \in Line : Append(ls, l) \in Seq(Line) /\ Front(Append(ls, l)) = ls
                                         /\ Extends(Append(ls, l), ls)
  <2> SUFFICES ASSUME NEW ls \in Seq(Line), NEW l \in Line
               PROVE  Append(ls, l) \in Seq(Line) /\ Front(Append(ls, l)) = ls
                      /\ Extends(Append(ls, l), ls)
    OBVIOUS
  <2>1. /\ Append(ls, l) \in Seq(Line) /\ Len(ls) \in Nat /\ Len(Append(ls, l)) = Len(ls) + 1
        /\ \A k \in 1..Len(ls) : Append(ls, l)[k] = ls[k]
    BY LenProperties
  <2>2. Front(Append(ls, l)) = ls
    BY DEF Front
  <2>3. Extends(Append(ls, l), ls)
    BY <2>1 DEF Extends
  <2> QED  BY <2>1, <2>2, <2>3
<1>4. CASE rest # <<>> /\ line' = line
  <2>1. /\ Anthropic!Whole(line, rest) = Front(line) /\ Last(line) \in Line
        /\ line = Append(Front(line), Last(line))
    BY <1>1, <1>4, WholeIs
  <2>2. Front(line) \in Seq(Line)
    BY <1>1, <1>4, LastLine DEF Cursor
  <2>3. Extends(line, Front(line))
    BY <1>3, <2>1, <2>2, Zenon
  <2>4. Extends(Front(line), Front(line))
    BY <2>2, ExtendsItself
  <2> QED  BY <1>2, <1>4, <2>1, <2>3, <2>4
<1>5. ASSUME rest = <<>>, NEW l \in Line, line' = Append(line, l)
      PROVE  Extends(Anthropic!Whole(line', rest'), Anthropic!Whole(line, rest))
  <2>1. Anthropic!Whole(line, rest) = line
    BY <1>2, <1>5
  <2>2. Anthropic!Whole(line', rest') \in {line, Append(line, l)}
    BY <1>1, <1>2, <1>3, <1>5
  <2>3. Extends(line, line) /\ Extends(Append(line, l), line)
    BY <1>1, <1>3, ExtendsItself
  <2> QED  BY <2>1, <2>2, <2>3
<1>6. (rest # <<>> /\ line' = line) \/ (rest = <<>> /\ \E l \in Line : line' = Append(line, l))
  BY DEF Anthropic!FeedByte, Line
<1> QED  BY <1>4, <1>5, <1>6

LEMMA AnthropicDecodeRefines ==
  ASSUME AnthropicHolds, AnthropicMeans, Anthropic!Decode
  PROVE  OpenAi!Contract!Next \/ UNCHANGED OpenAi!Contract!vars
<1> DEFINE l == Anthropic!WireEvent(lines[1])
           i == Anthropic!Item(index_map, l)
           V == Anthropic!Received
<1>1. /\ phase \in {"reading", "flushing"} /\ lines # <<>>
      /\ out' = out \o i /\ UNCHANGED expected
  BY DEF Anthropic!Decode
<1>2. Extends(V, Dealt) /\ Progress(Dealt, lines, out, index_map)
  <2>1. Extends(V, Dealt) /\ Progress(Dealt, lines \o fed, out, index_map)
    BY <1>1, ReceivedExtends
  <2>2. fed = <<>> /\ lines \in Seq(Scrap)
    BY <1>1 DEF AnthropicHolds, AnthropicTexts, AnthropicReading, AnthropicFlushing
  <2>3. lines \o <<>> = lines
    BY <2>2, ConcatEmptySeq
  <2> QED  BY <2>1, <2>2, <2>3
<1>3. out \in Seq(Event) /\ expected \in Seq(Event) /\ expected = Anthropic!Meaning(V)
  BY <1>1, AnthropicKnown DEF AnthropicMeans
<1>4. \/ /\ i \in Seq(Event)
         /\ Progress(Dealt, Tail(lines), out \o i, Anthropic!IndexMap(index_map, l))
      \/ /\ out = Anthropic!Meaning(V)
         /\ i = <<IF V[Anthropic!FirstStop(V)] = Anthropic!MessageStop THEN DoneItem ELSE ErrItem>>
  <2> HIDE DEF V
  <2> QED  BY <1>1, <1>2, NextLine DEF Extends
<1>5. CASE /\ i \in Seq(Event)
           /\ Progress(Dealt, Tail(lines), out \o i, Anthropic!IndexMap(index_map, l))
  <2>1. Begins(Event, out \o i, expected)
    <3> DEFINE o == out \o i
               q == Tail(lines)
               map == Anthropic!IndexMap(index_map, l)
    <3>1. Progress(Dealt, q, o, map)
      BY <1>5
    <3> HIDE DEF V, o, q, map
    <3>2. Begins(Event, o, Anthropic!Meaning(V))
      BY <1>2, <3>1, OutMeans
    <3> QED  BY <1>3, <3>2 DEF o
  <2>2. i = <<>> \/ \E x : i = <<x>>
    <3> HIDE DEF l
    <3> QED  BY DEF Anthropic!Item
  <2> HIDE DEF i, V
  <2>3. CASE i = <<>>
    <3>1. out' = out
      BY <1>1, <1>3, <2>3, ConcatEmptySeq
    <3> QED  BY <1>1, <3>1, Stays
  <2>4. ASSUME NEW x, i = <<x>> PROVE OpenAi!Contract!Next
    <3>1. x \in Event
      <4>1. <<x>> \in Seq(Event)
        BY <1>5, <2>4
      <4>2. 1 \in 1..Len(<<x>>) /\ <<x>>[1] = x
        OBVIOUS
      <4> QED  BY <4>1, <4>2, ElementOfSeq
    <3>2. out \o i = Append(out, x)
      BY <1>3, <2>4, <3>1
    <3> QED  BY <1>1, <1>3, <2>1, <3>1, <3>2, OrdinaryItems, Delivers
  <2> QED  BY <2>2, <2>3, <2>4
<1>6. ASSUME out = Anthropic!Meaning(V), NEW t \in {DoneItem, ErrItem}, i = <<t>>
      PROVE  OpenAi!Contract!Next
  <2> HIDE DEF i, V
  <2>1. out' = Append(out, t)
    <3>1. out' = out \o <<t>>
      BY <1>1, <1>6
    <3> QED  BY <1>3, <3>1
  <2>2. out = expected
    BY <1>3, <1>6
  <2> QED  BY <1>1, <1>3, <1>6, <2>1, <2>2, OrdinaryItems, Finishes, Fails
<1>7. CASE /\ out = Anthropic!Meaning(V)
           /\ i = <<IF V[Anthropic!FirstStop(V)] = Anthropic!MessageStop THEN DoneItem ELSE ErrItem>>
  <2> DEFINE t == IF V[Anthropic!FirstStop(V)] = Anthropic!MessageStop THEN DoneItem ELSE ErrItem
  <2>1. t \in {DoneItem, ErrItem} /\ i = <<t>>
    BY <1>7
  <2> HIDE DEF t, i, V
  <2> QED  BY <1>6, <1>7, <2>1
<1> QED  BY <1>4, <1>5, <1>7

LEMMA AnthropicRefines ==
  ASSUME AnthropicHolds, AnthropicMeans, Anthropic!Next
  PROVE  OpenAi!Contract!Next \/ UNCHANGED OpenAi!Contract!vars
<1>1. CASE Anthropic!Open
  <2>1. phase = "new" /\ UNCHANGED expected /\ (UNCHANGED out \/ out' = <<ErrItem>>)
    BY <1>1, ItemsDiffer DEF Anthropic!Open
  <2>2. out = <<>> /\ line = <<>> /\ rest = <<>> /\ conn = "up" /\ index_map = [j \in Indices |-> NoId]
    BY <2>1 DEF AnthropicHolds, AnthropicNew
  <2>3. Anthropic!Received = <<>>
    BY <2>2 DEF Anthropic!Received, Anthropic!Whole
  <2>4. Anthropic!Meaning(<<>>) = <<>>
    BY <2>2, NothingYet, NothingLeft
  <2>5. expected = <<>>
    BY <2>3, <2>4 DEF AnthropicMeans
  <2> QED  BY <2>1, <2>2, <2>5, FailsFrom, Stays
<1>2. CASE Anthropic!FeedByte
  <2>1. phase = "reading" /\ conn = "up" /\ UNCHANGED out
        /\ expected' = Anthropic!Meaning(Anthropic!Whole(line', rest'))
    BY <1>2 DEF Anthropic!FeedByte
  <2>2. out \in Seq(Event)
    BY <2>1, AnthropicKnown
  <2>3. expected = Anthropic!Meaning(Anthropic!Whole(line, rest))
    BY <2>1 DEF AnthropicMeans, Anthropic!Received
  <2>4. Extends(Anthropic!Whole(line', rest'), Anthropic!Whole(line, rest))
    BY <1>2, LinesGrow
  <2>5. Begins(Event, expected, expected')
    BY <2>1, <2>3, <2>4, MeaningGrows
  <2> QED  BY <2>1, <2>2, <2>5, OrdinaryItems, Arrives
<1>3. CASE Anthropic!HangUp
  <2>1. phase = "reading" /\ conn = "up" /\ UNCHANGED out
        /\ (UNCHANGED expected \/ expected' = Anthropic!Meaning(Anthropic!WithTrailer(line, rest)))
    BY <1>3 DEF Anthropic!HangUp
  <2>2. out \in Seq(Event)
    BY <2>1, AnthropicKnown
  <2>3. expected = Anthropic!Meaning(Anthropic!Whole(line, rest))
    BY <2>1 DEF AnthropicMeans, Anthropic!Received
  <2>4. Extends(Anthropic!WithTrailer(line, rest), Anthropic!Whole(line, rest))
    <3>1. eol \in LineEnds /\ line \in Seq(Line) /\ Cursor
      BY <2>1 DEF AnthropicHolds, AnthropicTexts, AnthropicReading
    <3>2. Anthropic!Whole(line, rest) \in Seq(Line)
      BY <3>1, WholeIs
    <3> QED  BY <3>1, <3>2, TrailerExtends DEF Extends
  <2>5. CASE UNCHANGED expected
    BY <2>1, <2>5, Stays
  <2>6. CASE expected' = Anthropic!Meaning(Anthropic!WithTrailer(line, rest))
    <3>1. Begins(Event, expected, expected')
      BY <2>3, <2>4, <2>6, MeaningGrows
    <3> QED  BY <2>1, <2>2, <3>1, OrdinaryItems, Arrives
  <2> QED  BY <2>1, <2>5, <2>6
<1>4. CASE Anthropic!Decode
  BY <1>4, AnthropicDecodeRefines
<1>5. CASE Anthropic!ReadError
  <2>1. phase = "reading" /\ UNCHANGED expected /\ out' = Append(out, ErrItem)
    BY <1>5, ItemsDiffer DEF Anthropic!ReadError
  <2>2. out \in Seq(Event) /\ expected \in Seq(Event)
    BY <2>1, AnthropicKnown
  <2> QED  BY <2>1, <2>2, OrdinaryItems, Fails
<1>6. CASE Anthropic!Finish
  <2>1. phase = "flushing" /\ lines = <<>> /\ UNCHANGED expected /\ out' = Append(out, DoneItem)
    BY <1>6, ItemsDiffer DEF Anthropic!Finish
  <2>2. conn = "eof" /\ Progress(Anthropic!WithTrailer(line, rest), lines, out, index_map)
    BY <2>1 DEF AnthropicHolds, AnthropicFlushing
  <2>3. out \in Seq(Event) /\ out = Anthropic!Meaning(Anthropic!WithTrailer(line, rest))
    BY <2>1, <2>2, NothingLeft
  <2>4. out = expected
    BY <2>2, <2>3 DEF AnthropicMeans, Anthropic!Received
  <2> QED  BY <2>1, <2>3, <2>4, OrdinaryItems, Finishes
<1>7. CASE Anthropic!EndChunk \/ Anthropic!Flush
  BY <1>7, Stays DEF Anthropic!EndChunk, Anthropic!Flush
<1> QED  BY <1>1, <1>2, <1>3, <1>4, <1>5, <1>6, <1>7 DEF Anthropic!Next, Anthropic!Generator

(***************************************************************************)
(* Both as parts of the provider layer.                                    *)
(***************************************************************************)
ContractInv ==
  /\ StreamsInv
  /\ part = "anthropic" => AnthropicMeans

LEMMA ContractStart == ProvidersInit => ContractInv /\ OpenAi!Contract!Init
<1> SUFFICES ASSUME ProvidersInit PROVE ContractInv /\ OpenAi!Contract!Init
  OBVIOUS
<1>1. StreamsInv
  BY StreamsStart
<1>2. out = <<>> /\ expected = <<>>
  BY DEF ProvidersInit, StreamIdle, OpenAi!Init, Anthropic!Init
<1>3. ASSUME part = "anthropic" PROVE AnthropicMeans
  <2>1. Anthropic!Init
    BY <1>3 DEF ProvidersInit
  <2>2. Anthropic!Received = <<>>
    BY <2>1 DEF Anthropic!Init, Anthropic!Received, Anthropic!Whole
  <2>3. Anthropic!Meaning(<<>>) = <<>>
    BY NothingYet, NothingLeft
  <2> QED  BY <1>2, <2>2, <2>3 DEF AnthropicMeans
<1>4. OpenAi!Contract!Init
  BY <1>2, StartsOpen DEF OpenAi!Contract!Init
<1> QED  BY <1>1, <1>3, <1>4 DEF ContractInv

LEMMA ContractStep ==
  ContractInv /\ [ProvidersNext]_allVars
    => ContractInv' /\ [OpenAi!Contract!Next]_OpenAi!Contract!vars
<1> SUFFICES ASSUME ContractInv, [ProvidersNext]_allVars
             PROVE  ContractInv' /\ [OpenAi!Contract!Next]_OpenAi!Contract!vars
  OBVIOUS
<1>1. StreamsInv'
  BY StreamsStep DEF ContractInv
<1>2. UNCHANGED part
  BY DEF ProvidersNext, allVars
<1>3. \/ part = "openai" /\ OpenAi!Next
      \/ part = "anthropic" /\ Anthropic!Next
      \/ UNCHANGED <<streamVars, anthropicVars>>
  BY DEF ProvidersNext, allVars
<1>4. CASE part = "openai" /\ OpenAi!Next
  <2>1. OpenAi!Contract!Next \/ UNCHANGED OpenAi!Contract!vars
    BY <1>4, OpenAiRefines DEF ContractInv, StreamsInv
  <2> QED  BY <1>1, <1>2, <1>4, <2>1 DEF ContractInv
<1>5. CASE part = "anthropic" /\ Anthropic!Next
  <2>1. AnthropicHolds /\ AnthropicMeans
    BY <1>5 DEF ContractInv, StreamsInv
  <2>2. OpenAi!Contract!Next \/ UNCHANGED OpenAi!Contract!vars
    BY <1>5, <2>1, AnthropicRefines
  <2>3. AnthropicMeans'
    BY <1>5, <2>1, AnthropicMeansStep
  <2> QED  BY <1>1, <2>2, <2>3 DEF ContractInv
<1>6. CASE UNCHANGED <<streamVars, anthropicVars>>
  <2>1. UNCHANGED OpenAi!Contract!vars
    BY <1>6, Stays DEF streamVars
  <2>2. part = "anthropic" => AnthropicMeans'
    BY <1>6 DEF ContractInv, AnthropicMeans, Anthropic!Received, streamVars, anthropicVars
  <2> QED  BY <1>1, <1>2, <2>1, <2>2 DEF ContractInv
<1> QED  BY <1>3, <1>4, <1>5, <1>6

(***************************************************************************)
(* Each step of either adapter's stream is a step of ChatStream or none,   *)
(* to a consumer that stops at the first terminal item: what it has got is *)
(* always a beginning of what has arrived, what has arrived only grows,    *)
(* Done comes after all of it, and nothing follows Done or an error (the   *)
(* contract of AiProvider::chat_stream).                                   *)
(***************************************************************************)
THEOREM ChatStreamImplemented == ProvidersSpec => ImplementsChatStream
<1>1. ProvidersInit => ContractInv /\ OpenAi!Contract!Init
  BY ContractStart
<1>2. ContractInv /\ [ProvidersNext]_allVars
        => ContractInv' /\ [OpenAi!Contract!Next]_OpenAi!Contract!vars
  BY ContractStep
<1> QED  BY <1>1, <1>2, PTL DEF ProvidersSpec, ImplementsChatStream, OpenAi!ImplementsChatStream,
            OpenAi!Contract!Spec

-----------------------------------------------------------------------------
(***************************************************************************)
(* The type invariants of the two streams.                                 *)
(***************************************************************************)
LEMMA KnownType ==
  ASSUME NEW ds \in Seq(Delta)
  PROVE  Known(ds, Len(ds)) \in [Indices -> Ids \cup {NoId} \cup {OpenAi!Synthetic(i) : i \in Indices}]
<1>1. Len(ds) \in 0..Len(ds)
  BY LenProperties
<1>2. \A i \in Indices : CallAt(ds, Len(ds), i) \in Handle
  BY <1>1, CallType
<1> QED  BY <1>2 DEF Known, Handle

LEMMA OpenAiTypesStart ==
  ASSUME OpenAiHolds, OpenAi!Init
  PROVE  OpenAi!TypeOK
<1>1. script.bytes = FlattenSeq(Parts(script.frames, script.eol))
      /\ script.frames \in Seq(OpenAi!Frames) /\ script.eol \in OpenAiEnds
  BY DEF OpenAiHolds, OpenAiTexts
<1>2. script.bytes \in Seq(Bite)
  BY <1>1, PartsAre, FlattenType
<1>3. 0 \in 0..Len(script.bytes)
  BY <1>2, LenProperties
<1> QED  BY <1>3 DEF OpenAi!Init, OpenAi!TypeOK

LEMMA OpenAiTypesStep ==
  ASSUME OpenAiHolds, OpenAi!TypeOK, OpenAi!Next
  PROVE  OpenAi!TypeOK'
<1> USE DEF OpenAi!TypeOK
<1>1. CASE OpenAi!DrainChunk
  <2>1. OpenAi!Reads /\ tool_call_ids' = OpenAi!DrainEvents(parser.completed).ids
        /\ UNCHANGED <<script, arrived, conn, phase>>
    BY <1>1 DEF OpenAi!DrainChunk
  <2>2. PICK done \in Seq(Chunks) : \E m : Heard(m, done)
    BY <2>1, OpenAiHears
  <2>3. Decs(parser.completed) \in Seq(Real)
        /\ tool_call_ids = Known(Deltas(done), Len(Deltas(done)))
    BY <2>2 DEF Heard
  <2> DEFINE x == done \o Before(Decs(parser.completed))
  <2>4. x \in Seq(Chunks) /\ tool_call_ids' = Known(Deltas(x), Len(Deltas(x)))
    BY <2>1, <2>3, DrainIs
  <2> HIDE DEF x
  <2>5. Deltas(x) \in Seq(Delta)
    BY <2>4, DeltasAre
  <2>6. tool_call_ids' \in [Indices -> Ids \cup {NoId} \cup {OpenAi!Synthetic(i) : i \in Indices}]
    BY <2>4, <2>5, KnownType
  <2> QED  BY <2>1, <2>6
<1>2. CASE OpenAi!FeedByte
  <2>1. arrived < Len(script.bytes) /\ arrived' = arrived + 1
        /\ UNCHANGED <<script, conn, phase, tool_call_ids>>
    BY <1>2 DEF OpenAi!FeedByte
  <2> QED  BY <2>1
<1>3. CASE OpenAi!HangUp
  BY <1>3 DEF OpenAi!HangUp
<1>4. CASE OpenAi!Open
  BY <1>4 DEF OpenAi!Open
<1>5. CASE OpenAi!PopPending \/ OpenAi!EmitDone \/ OpenAi!ReadEnd
  BY <1>5 DEF OpenAi!PopPending, OpenAi!EmitDone, OpenAi!ReadEnd
<1>6. CASE OpenAi!Close
  BY <1>6 DEF OpenAi!Close
<1> QED  BY <1>1, <1>2, <1>3, <1>4, <1>5, <1>6 DEF OpenAi!Next, OpenAi!Pump

LEMMA AnthropicTypesStep ==
  ASSUME AnthropicHolds, AnthropicHolds', Anthropic!TypeOK, Anthropic!Next
  PROVE  Anthropic!TypeOK'
<1>1. line' \in Seq(Anthropic!Lines) /\ phase' \in {"new", "reading", "flushing", "closed"}
  BY DEF AnthropicHolds, AnthropicTexts, Line
<1>2. conn' \in {"up", "eof", "reset"}
  BY DEF Anthropic!TypeOK, Anthropic!Next, Anthropic!Open, Anthropic!FeedByte, Anthropic!EndChunk,
         Anthropic!Generator, Anthropic!Decode, Anthropic!ReadError, Anthropic!Flush,
         Anthropic!Finish, Anthropic!HangUp
<1>3. index_map' \in [Indices -> Ids \cup {NoId}]
  <2>1. CASE Anthropic!Decode
    <3> DEFINE l == Anthropic!WireEvent(lines[1])
    <3>1. lines \in Seq(Scrap) /\ lines # <<>> /\ index_map' = Anthropic!IndexMap(index_map, l)
      BY <2>1 DEF AnthropicHolds, AnthropicTexts, Anthropic!Decode
    <3>2. lines[1] \in Scrap
      BY <3>1
    <3>3. l \in Line
      BY <3>2, ScrapEvents
    <3> HIDE DEF l
    <3>4. l.kind = "start" => l.index \in Indices /\ l.id \in Ids
      BY <3>3, LineKinds
    <3> QED  BY <3>1, <3>4 DEF Anthropic!TypeOK, Anthropic!IndexMap
  <2>2. CASE ~Anthropic!Decode
    <3>1. index_map' = index_map
      BY <2>2 DEF Anthropic!Next, Anthropic!Open, Anthropic!FeedByte, Anthropic!EndChunk,
         Anthropic!Generator, Anthropic!ReadError, Anthropic!Flush, Anthropic!Finish, Anthropic!HangUp
    <3> QED  BY <3>1 DEF Anthropic!TypeOK
  <2> QED  BY <2>1, <2>2
<1> QED  BY <1>1, <1>2, <1>3 DEF Anthropic!TypeOK

(***************************************************************************)
(* Type invariants: no more bytes are read than the response has, and the  *)
(* maps from tool-call and block indices hold identifiers only (the pump's *)
(* tool_call_ids, the generator's index_map).                              *)
(***************************************************************************)
StreamTypes ==
  /\ part = "openai" => OpenAi!TypeOK
  /\ part = "anthropic" => Anthropic!TypeOK

THEOREM StreamTypesCorrect == ProvidersSpec => []StreamTypes
<1>1. ProvidersInit => StreamTypes
  <2>1. ASSUME ProvidersInit, part = "openai" PROVE OpenAi!TypeOK
    <3>1. OpenAi!Init /\ OpenAiHolds
      BY <2>1, StreamsStart DEF ProvidersInit, StreamsInv
    <3> QED  BY <3>1, OpenAiTypesStart
  <2>2. ASSUME ProvidersInit, part = "anthropic" PROVE Anthropic!TypeOK
    <3>1. Anthropic!Init
      BY <2>2 DEF ProvidersInit
    <3>2. <<>> \in Seq(Anthropic!Lines)
      BY EmptySeq
    <3> QED  BY <3>1, <3>2 DEF Anthropic!Init, Anthropic!TypeOK
  <2> QED  BY <2>1, <2>2 DEF StreamTypes
<1>2. StreamsInv /\ StreamsInv' /\ StreamTypes /\ [ProvidersNext]_allVars => StreamTypes'
  <2> SUFFICES ASSUME StreamsInv, StreamsInv', StreamTypes, [ProvidersNext]_allVars PROVE StreamTypes'
    OBVIOUS
  <2>1. UNCHANGED part
    BY DEF ProvidersNext, allVars
  <2>2. ASSUME part = "openai" PROVE OpenAi!TypeOK'
    <3>1. OpenAiHolds /\ OpenAi!TypeOK /\ (OpenAi!Next \/ UNCHANGED <<streamVars, openAiVars>>)
      BY <2>2 DEF StreamsInv, StreamTypes, ProvidersNext, allVars
    <3>2. CASE UNCHANGED <<streamVars, openAiVars>>
      BY <3>1, <3>2 DEF streamVars, openAiVars, OpenAi!TypeOK
    <3> QED  BY <3>1, <3>2, OpenAiTypesStep
  <2>3. ASSUME part = "anthropic" PROVE Anthropic!TypeOK'
    <3>1. /\ AnthropicHolds /\ AnthropicHolds' /\ Anthropic!TypeOK
          /\ Anthropic!Next \/ UNCHANGED <<streamVars, anthropicVars>>
      BY <2>1, <2>3 DEF StreamsInv, StreamTypes, ProvidersNext, allVars
    <3>2. CASE UNCHANGED <<streamVars, anthropicVars>>
      BY <3>1, <3>2 DEF streamVars, anthropicVars, Anthropic!TypeOK
    <3> QED  BY <3>1, <3>2, AnthropicTypesStep
  <2> QED  BY <2>1, <2>2, <2>3 DEF StreamTypes
<1> QED  BY <1>1, <1>2, StreamsHold, PTL DEF ProvidersSpec

=============================================================================
