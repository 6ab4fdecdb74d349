--------------------------- MODULE Desktop_proofs ---------------------------
(***************************************************************************)
(* Proofs about the parts behind the desktop shell, for every value of     *)
(* their constants: what the shared crate brings (the agent ledger, the    *)
(* texts that users write, the command registry), the log files and the    *)
(* notification spine.  The settings store has proofs of its own and       *)
(* brings its inductive invariant from there.                              *)
(***************************************************************************)
EXTENDS Desktop, SequencesExt, FiniteSetTheorems, SequenceTheorems, TLAPS

(***************************************************************************)
(* A set of numbers that is not empty has a least one: its initial segment *)
(* is minimal for inclusion.                                               *)
(***************************************************************************)
LEMMA LeastNumber ==
  ASSUME NEW S \in SUBSET Nat, S # {}
  PROVE  \E x \in S : \A y \in S : x <= y
<1> DEFINE Below == {1..n : n \in S}
<1> DEFINE Smaller == StrictSubsetOrdering(Nat)
<1>1. Below # {}
  OBVIOUS
<1>2. Below \subseteq FiniteSubsetsOf(Nat)
  BY FS_Interval DEF FiniteSubsetsOf
<1>3. IsWellFoundedOn(Smaller, FiniteSubsetsOf(Nat))
  BY FS_StrictSubsetOrderingWellFounded
<1>4. PICK least \in Below : \A b \in Below : <<b, least>> \notin Smaller
  <2> HIDE DEF Below, Smaller
  <2> QED  BY <1>1, <1>2, <1>3, WFMin
<1>5. PICK x \in S : least = 1..x
  OBVIOUS
<1>6. ASSUME NEW y \in S, y < x PROVE FALSE
  <2>1. 1..y \in SUBSET Nat /\ 1..x \in SUBSET Nat /\ 1..y \subseteq 1..x
    BY <1>6
  <2>2. x \in 1..x /\ x \notin 1..y
    BY <1>6
  <2>3. <<1..y, 1..x>> \in Smaller
    BY <2>1, <2>2 DEF StrictSubsetOrdering
  <2> QED  BY <1>4, <1>5, <2>3
<1> QED  BY <1>6

LEMMA LeastOf ==
  ASSUME NEW I \in SUBSET Nat, I # {}
  PROVE  ThemeFiles!Min(I) \in I /\ \A i \in I : ThemeFiles!Min(I) <= i
  BY LeastNumber DEF ThemeFiles!Min

(***************************************************************************)
(* A concatenation is what its prefixes say it is.                         *)
(***************************************************************************)
LEMMA Flattened ==
  ASSUME NEW seqs, NEW n \in Nat \ {0}, Len(seqs) = n, NEW prefixes,
         \A i \in 1..n : prefixes[i] = IF i = 1 THEN seqs[i] ELSE prefixes[i - 1] \o seqs[i]
  PROVE  ThemeFiles!FlattenSeq(seqs) = prefixes[n]
<1> DEFINE flatten == CHOOSE f : f = [i \in 1..n |->
                                        IF i = 1 THEN seqs[i] ELSE f[i - 1] \o seqs[i]]
           differ  == {i \in 1..n : flatten[i] # prefixes[i]}
<1>1. ThemeFiles!FlattenSeq(seqs) = flatten[n]
  BY DEF ThemeFiles!FlattenSeq
<1>2. flatten = [i \in 1..n |-> IF i = 1 THEN seqs[i] ELSE flatten[i - 1] \o seqs[i]]
  <2> DEFINE g == [i \in 1..n |-> prefixes[i]]
  <2>1. ASSUME NEW i \in 1..n
        PROVE  g[i] = IF i = 1 THEN seqs[i] ELSE g[i - 1] \o seqs[i]
    <3>1. i # 1 => i - 1 \in 1..n
      OBVIOUS
    <3> QED  BY <3>1
  <2>2. g = [i \in 1..n |-> g[i]]
    OBVIOUS
  <2> HIDE DEF g
  <2>3. g = [i \in 1..n |-> IF i = 1 THEN seqs[i] ELSE g[i - 1] \o seqs[i]]
    BY <2>1, <2>2
  <2> QED  BY <2>3, Zenon
<1> HIDE DEF flatten
<1>3. ASSUME differ # {} PROVE FALSE
  <2>1. differ \in SUBSET Nat
    OBVIOUS
  <2>2. PICK k \in differ : \A j \in differ : k <= j
    <3> HIDE DEF differ
    <3> QED  BY <1>3, <2>1, LeastNumber
  <2>3. k \in 1..n /\ flatten[k] # prefixes[k]
    BY <2>2
  <2>4. k - 1 \in 1..n => flatten[k - 1] = prefixes[k - 1]
    BY <2>2, <2>3
  <2>5. k # 1 => k - 1 \in 1..n
    BY <2>3
  <2>6. flatten[k] = IF k = 1 THEN seqs[k] ELSE flatten[k - 1] \o seqs[k]
    BY <1>2, <2>3, Zenon
  <2>7. prefixes[k] = IF k = 1 THEN seqs[k] ELSE prefixes[k - 1] \o seqs[k]
    BY <2>3
  <2> QED  BY ONLY <2>3, <2>4, <2>5, <2>6, <2>7
<1>4. n \notin differ
  BY <1>3
<1> QED  BY <1>1, <1>4

-----------------------------------------------------------------------------
(***************************************************************************)
(* The ledger of an agent loop, for counters of any width, every budget,   *)
(* retry policy, usage report and clock.                                   *)
(***************************************************************************)
ToolType == [at : {"none", "running", "surfaced", "cancelled", "done"}, attempts : Agents!Count,
             waits : Seq(Nat), failed : Agents!ToolErrorKind]
Usage == [input : Agents!Count, output : Agents!Count, cached : Agents!Count,
          turn_count : Agents!Count, tool_call_count : Agents!Count,
          started_at : 0..MaxClock, last_event_at : 0..MaxClock]

LEMMA PlusGrows ==
  ASSUME Agents!Typed, NEW a \in Agents!Count, NEW b \in Nat
  PROVE  Agents!Plus(a, b) \in Agents!Count /\ Agents!Plus(a, b) >= a
  BY DEF Agents!Typed, Agents!Count, Agents!Plus

LEMMA PlusMonotone ==
  ASSUME Agents!Typed, NEW a \in Agents!Count, NEW b \in Agents!Count,
         NEW c \in Agents!Count, NEW d \in Agents!Count, a <= c, b <= d
  PROVE  Agents!Plus(a, b) <= Agents!Plus(c, d)
  BY DEF Agents!Typed, Agents!Count, Agents!Plus

(***************************************************************************)
(* The inductive invariant: the types, with waits a sequence, and how a    *)
(* tool call's waits and attempts go together.                             *)
(***************************************************************************)
LedgerInv ==
  /\ Agents!TypeOK
  /\ tool \in ToolType
  /\ Agents!RetriesEnd

LEMMA InitLedger == Agents!Typed /\ Agents!Init => LedgerInv
<1> SUFFICES ASSUME Agents!Typed, Agents!Init PROVE LedgerInv
  OBVIOUS
<1>1. Agents!NoTool \in ToolType
  BY DEF ToolType, Agents!NoTool, Agents!Typed, Agents!Count, Agents!ToolErrorKind
<1>2. Agents!RetriesEnd
  BY DEF Agents!RetriesEnd, Agents!Init, Agents!NoTool
<1>3. 0 \in Agents!Count
  BY DEF Agents!Typed, Agents!Count
<1>4. Agents!TypeOK
  BY <1>1, <1>3 DEF Agents!TypeOK, Agents!Init, ToolType
<1> QED  BY <1>1, <1>2, <1>4 DEF LedgerInv, Agents!Init

LEMMA AddUsageInv ==
  ASSUME Agents!Typed, LedgerInv, NEW delta \in Deltas, NEW now \in 0..MaxClock,
         Agents!AddUsage(delta, now)
  PROVE  LedgerInv'
<1>1. delta.input \in Nat /\ delta.output \in Nat /\ delta.cached \in Nat
  BY DEF Agents!Typed
<1>2. usage \in Usage
  BY DEF LedgerInv, Agents!TypeOK, Usage
<1>3. /\ Agents!Plus(usage.input, delta.input) \in Agents!Count
      /\ Agents!Plus(usage.output, delta.output) \in Agents!Count
      /\ Agents!Plus(usage.cached, delta.cached) \in Agents!Count
  BY <1>1, <1>2, PlusGrows DEF Usage
<1>4. usage' \in Usage
  BY <1>2, <1>3 DEF Agents!AddUsage, Usage
<1> QED  BY <1>4 DEF LedgerInv, Agents!TypeOK, Agents!RetriesEnd, Agents!AddUsage, Usage

LEMMA RecordTurnInv ==
  ASSUME Agents!Typed, LedgerInv, NEW now \in 0..MaxClock, Agents!RecordTurn(now)
  PROVE  LedgerInv'
<1>1. usage \in Usage /\ Agents!Plus(usage.turn_count, 1) \in Agents!Count
  BY PlusGrows DEF LedgerInv, Agents!TypeOK, Usage
<1>2. usage' \in Usage
  BY <1>1 DEF Agents!RecordTurn, Usage
<1> QED  BY <1>2 DEF LedgerInv, Agents!TypeOK, Agents!RetriesEnd, Agents!RecordTurn, Usage

LEMMA RecordToolCallInv ==
  ASSUME Agents!Typed, LedgerInv, NEW now \in 0..MaxClock, Agents!RecordToolCall(now)
  PROVE  LedgerInv'
<1>1. usage \in Usage /\ Agents!Plus(usage.tool_call_count, 1) \in Agents!Count
  BY PlusGrows DEF LedgerInv, Agents!TypeOK, Usage
<1>2. usage' \in Usage
  BY <1>1 DEF Agents!RecordToolCall, Usage
<1>3. /\ tool' = [at |-> "running", attempts |-> 0, waits |-> <<>>, failed |-> "Io"]
      /\ 0 \in Agents!Count /\ "Io" \in Agents!ToolErrorKind /\ <<>> \in Seq(Nat)
  BY DEF Agents!RecordToolCall, Agents!NoTool, Agents!Typed, Agents!Count, Agents!ToolErrorKind
<1>4. tool' \in ToolType
  BY <1>3 DEF ToolType
<1> QED  BY <1>2, <1>3, <1>4
                DEF LedgerInv, Agents!TypeOK, Agents!RetriesEnd, Agents!RecordToolCall, Usage

LEMMA BackoffType ==
  ASSUME Agents!Typed, LedgerInv, NEW attempts \in Nat \ {0}
  PROVE  Agents!Backoff(attempts) \in Nat
<1>1. policy.transient_backoff \in Seq(Nat)
  BY DEF Agents!Typed, LedgerInv, Agents!TypeOK
<1> QED  BY <1>1 DEF Agents!Backoff, Agents!Last

(***************************************************************************)
(* A failed attempt: another one is due only below the policy's number of  *)
(* attempts, so the count of attempts stays within it.                     *)
(***************************************************************************)
LEMMA ToolFailsInv ==
  ASSUME Agents!Typed, LedgerInv, NEW kind \in Agents!ToolErrorKind, Agents!ToolFails(kind)
  PROVE  LedgerInv'
<1> DEFINE attempts == tool.attempts + 1
           class == Agents!Classify(kind)
           again == Agents!Retries(class, attempts)
           max == policy.max_transient_attempts
           wait == Agents!Backoff(attempts)
<1>1. /\ tool \in ToolType /\ tool.at = "running" /\ Len(tool.waits) = tool.attempts
      /\ tool.attempts < max \/ tool.waits = <<>>
      /\ max \in 0..MaxU32 /\ MaxU32 \in Nat \ {0}
  BY DEF LedgerInv, Agents!RetriesEnd, Agents!ToolFails, Agents!Typed, Agents!TypeOK
<1>2. attempts \in Agents!Count /\ attempts \in Nat \ {0}
  BY <1>1 DEF Agents!Count
<1>3. wait \in Nat
  BY <1>2, BackoffType
<1> HIDE DEF attempts, class, again, wait
<1>4. /\ class \in {"Cancelled", "PermissionDenied", "Transient", "Permanent"}
      /\ class # "Transient" => kind # "Io"
      /\ again <=> class = "Transient" /\ attempts < max
  BY DEF Agents!Classify, Agents!Retries, class, again
<1>5. CASE again
  <2>1. tool' = [tool EXCEPT !.attempts = attempts, !.failed = kind,
                             !.waits = Append(tool.waits, wait), !.at = tool.at]
    BY <1>5 DEF Agents!ToolFails, attempts, class, again, wait
  <2>2. Append(tool.waits, wait) \in Seq(Nat) /\ Len(Append(tool.waits, wait)) = attempts
    BY <1>1, <1>3 DEF ToolType, attempts
  <2>3. /\ tool' \in ToolType /\ tool'.at = "running" /\ tool'.attempts = attempts
        /\ Len(tool'.waits) = attempts
    BY <1>1, <1>2, <2>1, <2>2 DEF ToolType
  <2> QED  BY <1>4, <1>5, <2>3
                  DEF LedgerInv, Agents!TypeOK, Agents!RetriesEnd, Agents!ToolFails, ToolType
<1>6. CASE ~again
  <2> DEFINE at == IF class = "Cancelled" THEN "cancelled" ELSE "surfaced"
  <2>1. tool' = [tool EXCEPT !.attempts = attempts, !.failed = kind, !.waits = tool.waits,
                             !.at = at]
    BY <1>6 DEF Agents!ToolFails, attempts, class, again
  <2>2. at \in {"surfaced", "cancelled"} /\ (at = "surfaced" => class # "Cancelled")
    OBVIOUS
  <2> HIDE DEF at
  <2>3. /\ tool' \in ToolType /\ tool'.at = at /\ tool'.attempts = attempts
        /\ tool'.waits = tool.waits /\ tool'.failed = kind
    BY <1>1, <1>2, <2>1, <2>2 DEF ToolType
  <2>4. kind # "Io" \/ attempts >= max
    BY <1>1, <1>2, <1>4, <1>6 DEF Agents!Count
  <2>5. /\ Len(tool'.waits) = attempts - 1
        /\ Len(tool'.waits) < max \/ tool'.waits = <<>>
    BY <1>1, <2>3 DEF attempts, ToolType, Agents!Count
  <2>6. policy' = policy /\ budget' = budget /\ usage' = usage
    BY DEF Agents!ToolFails
  <2>7. Agents!RetriesEnd'
    BY <2>2, <2>3, <2>4, <2>5, <2>6 DEF Agents!RetriesEnd
  <2> QED  BY <2>3, <2>6, <2>7 DEF LedgerInv, Agents!TypeOK, ToolType
<1> QED  BY <1>5, <1>6

LEMMA ToolSucceedsInv == ASSUME Agents!Typed, LedgerInv, Agents!ToolSucceeds PROVE LedgerInv'
<1>1. /\ tool.at = "running" /\ Len(tool.waits) = tool.attempts /\ tool.attempts \in Agents!Count
      /\ tool.attempts < policy.max_transient_attempts \/ tool.waits = <<>>
      /\ policy.max_transient_attempts \in 0..MaxU32 /\ MaxU32 \in Nat \ {0}
  BY DEF LedgerInv, Agents!RetriesEnd, Agents!ToolSucceeds, Agents!Typed, Agents!TypeOK
<1>2. tool.attempts + 1 \in Agents!Count
  BY <1>1 DEF Agents!Count
<1>3. /\ tool' \in ToolType
      /\ tool'.at = "done" /\ tool'.waits = tool.waits
  BY <1>2 DEF LedgerInv, Agents!ToolSucceeds, ToolType
<1> QED  BY <1>3 DEF ToolType, LedgerInv, Agents!TypeOK, Agents!RetriesEnd, Agents!ToolSucceeds

LEMMA LedgerStep == ASSUME Agents!Typed, LedgerInv, [Agents!Next]_(Agents!vars) PROVE LedgerInv'
<1>1. ASSUME NEW delta \in Deltas, NEW now \in 0..MaxClock, Agents!AddUsage(delta, now)
      PROVE LedgerInv'
  BY <1>1, AddUsageInv
<1>2. ASSUME NEW now \in 0..MaxClock, Agents!RecordTurn(now) PROVE LedgerInv'
  BY <1>2, RecordTurnInv
<1>3. ASSUME NEW now \in 0..MaxClock, Agents!RecordToolCall(now) PROVE LedgerInv'
  BY <1>3, RecordToolCallInv
<1>4. ASSUME NEW kind \in Agents!ToolErrorKind, Agents!ToolFails(kind) PROVE LedgerInv'
  BY <1>4, ToolFailsInv
<1>5. CASE UNCHANGED Agents!vars
  BY <1>5 DEF LedgerInv, Agents!TypeOK, Agents!RetriesEnd, Agents!vars
<1> QED  BY <1>1, <1>2, <1>3, <1>4, <1>5, ToolSucceedsInv DEF Agents!Next

-----------------------------------------------------------------------------
(***************************************************************************)
(* A step lowers no counter, so a dimension that is used up (the wall      *)
(* clock apart) is so afterwards.                                          *)
(***************************************************************************)
LEMMA Grows ==
  ASSUME Agents!Typed, LedgerInv, Agents!Next
  PROVE  /\ usage'.turn_count >= usage.turn_count
         /\ usage'.tool_call_count >= usage.tool_call_count
         /\ usage'.input >= usage.input /\ usage'.output >= usage.output
         /\ usage'.cached >= usage.cached
<1>1. usage \in Usage
  BY DEF LedgerInv, Agents!TypeOK, Usage
<1>2. \A n \in Agents!Count : n >= n
  BY DEF Agents!Count, Agents!Typed
<1>3. ASSUME NEW delta \in Deltas, NEW now \in 0..MaxClock, Agents!AddUsage(delta, now)
      PROVE  /\ usage'.turn_count = usage.turn_count
             /\ usage'.tool_call_count = usage.tool_call_count
             /\ usage'.input >= usage.input /\ usage'.output >= usage.output
             /\ usage'.cached >= usage.cached
  <2>1. delta.input \in Nat /\ delta.output \in Nat /\ delta.cached \in Nat
    BY DEF Agents!Typed
  <2>2. /\ Agents!Plus(usage.input, delta.input) >= usage.input
        /\ Agents!Plus(usage.output, delta.output) >= usage.output
        /\ Agents!Plus(usage.cached, delta.cached) >= usage.cached
    BY <1>1, <2>1, PlusGrows DEF Usage
  <2> QED  BY <1>1, <1>3, <2>2 DEF Agents!AddUsage, Usage
<1>4. Agents!Plus(usage.turn_count, 1) >= usage.turn_count
      /\ Agents!Plus(usage.tool_call_count, 1) >= usage.tool_call_count
  BY <1>1, PlusGrows DEF Usage
<1>5. ASSUME NEW now \in 0..MaxClock, Agents!RecordTurn(now) \/ Agents!RecordToolCall(now)
      PROVE  /\ usage'.turn_count \in {usage.turn_count, Agents!Plus(usage.turn_count, 1)}
             /\ usage'.tool_call_count \in
                  {usage.tool_call_count, Agents!Plus(usage.tool_call_count, 1)}
             /\ usage'.input = usage.input /\ usage'.output = usage.output
             /\ usage'.cached = usage.cached
  BY <1>1, <1>5 DEF Agents!RecordTurn, Agents!RecordToolCall, Usage
<1>6. ASSUME (\E kind \in Agents!ToolErrorKind : Agents!ToolFails(kind)) \/ Agents!ToolSucceeds
      PROVE  usage' = usage
  BY <1>6 DEF Agents!ToolFails, Agents!ToolSucceeds
<1> QED  BY <1>1, <1>2, <1>3, <1>4, <1>5, <1>6 DEF Agents!Next, Usage

LEMMA TokensGrow ==
  ASSUME Agents!Typed, LedgerInv, Agents!Next, LedgerInv'
  PROVE  /\ Agents!TotalTokens(usage) \in Agents!Count
         /\ Agents!TotalTokens(usage') \in Agents!Count
         /\ Agents!TotalTokens(usage) <= Agents!TotalTokens(usage')
<1>1. usage \in Usage /\ usage' \in Usage
  BY DEF LedgerInv, Agents!TypeOK, Usage
<1>2. /\ usage.input <= usage'.input /\ usage.output <= usage'.output
      /\ usage.cached <= usage'.cached
  BY <1>1, Grows DEF Usage, Agents!Count, Agents!Typed
<1>3. /\ Agents!Plus(usage.input, usage.output) \in Agents!Count
      /\ Agents!Plus(usage'.input, usage'.output) \in Agents!Count
      /\ Agents!Plus(usage.input, usage.output) <= Agents!Plus(usage'.input, usage'.output)
  BY <1>1, <1>2, PlusGrows, PlusMonotone DEF Usage, Agents!Count
<1> QED  BY <1>1, <1>2, <1>3, PlusGrows, PlusMonotone, SMTT(30)
         DEF Agents!TotalTokens, Usage, Agents!Count

LEMMA StaysExhausted ==
  ASSUME Agents!Typed, LedgerInv, Agents!Next, LedgerInv', NEW i \in 1..3,
         i \in Agents!Exhausted(usage)
  PROVE  i \in Agents!Exhausted(usage')
<1> DEFINE d == Agents!Dimensions[i]
<1>1. usage \in Usage /\ usage' \in Usage /\ budget' = budget
      /\ \A c \in {"Turns", "Tokens", "ToolCalls", "WallClock"} : budget[c] \subseteq Nat
  BY DEF LedgerInv, Agents!TypeOK, Usage, Agents!Typed, Agents!Next, Agents!AddUsage,
         Agents!RecordTurn, Agents!RecordToolCall, Agents!ToolFails,
         Agents!ToolSucceeds
<1>2. d \in {"Turns", "Tokens", "ToolCalls"}
  BY DEF Agents!Dimensions
<1>3. /\ Agents!Used(usage)[d] \in Nat /\ Agents!Used(usage')[d] \in Nat
      /\ Agents!Used(usage)[d] <= Agents!Used(usage')[d]
  <2>1. MaxU32 \in Nat
    BY DEF Agents!Typed
  <2>2. CASE d = "Turns"
    <3>1. Agents!Used(usage)[d] = usage.turn_count /\ Agents!Used(usage')[d] = usage'.turn_count
      BY <2>2 DEF Agents!Used
    <3> QED  BY <1>1, <2>1, <3>1, Grows DEF Usage, Agents!Count
  <2>3. CASE d = "ToolCalls"
    <3>1. Agents!Used(usage)[d] = usage.tool_call_count
          /\ Agents!Used(usage')[d] = usage'.tool_call_count
      BY <2>3 DEF Agents!Used
    <3> QED  BY <1>1, <2>1, <3>1, Grows DEF Usage, Agents!Count
  <2>4. CASE d = "Tokens"
    <3>1. Agents!Used(usage)[d] = Agents!TotalTokens(usage)
          /\ Agents!Used(usage')[d] = Agents!TotalTokens(usage')
      BY <2>4 DEF Agents!Used
    <3> QED  BY <2>1, <3>1, TokensGrow DEF Agents!Count
  <2> QED  BY <1>2, <2>2, <2>3, <2>4
<1> HIDE DEF d
<1>4. PICK cap \in budget[d] : Agents!Used(usage)[d] >= cap
  BY DEF Agents!Exhausted, d
<1>5. cap \in Nat /\ Agents!Used(usage')[d] >= cap
  BY <1>1, <1>2, <1>3, <1>4
<1> QED  BY <1>1, <1>5 DEF Agents!Exhausted, d

LEMMA RankLeast ==
  ASSUME NEW S \in SUBSET (1..4)
  PROVE  LET r == CHOOSE i \in S \cup {5} : \A j \in S : i <= j
         IN r \in S \cup {5} /\ \A j \in S : r <= j
<1>1. \E i \in S \cup {5} : \A j \in S : i <= j
  <2>1. CASE 1 \in S
    BY <2>1
  <2>2. CASE 1 \notin S /\ 2 \in S
    BY <2>2
  <2>3. CASE 1 \notin S /\ 2 \notin S /\ 3 \in S
    BY <2>3
  <2>4. CASE 1 \notin S /\ 2 \notin S /\ 3 \notin S
    <3>1. \A j \in S : j = 4
      BY <2>4
    <3> QED  BY <3>1
  <2> QED  BY <2>1, <2>2, <2>3, <2>4
<1> QED  BY <1>1

LEMMA RankKept ==
  ASSUME Agents!Typed, LedgerInv, Agents!Next, LedgerInv', Agents!Rank(usage) < 4
  PROVE  Agents!Rank(usage') <= Agents!Rank(usage)
<1>1. Agents!Exhausted(usage) \in SUBSET (1..4) /\ Agents!Exhausted(usage') \in SUBSET (1..4)
  BY DEF Agents!Exhausted
<1>2. Agents!Rank(usage) \in Agents!Exhausted(usage) \cup {5}
  BY <1>1, RankLeast DEF Agents!Rank
<1>3. Agents!Rank(usage) \in 1..3 /\ Agents!Rank(usage) \in Agents!Exhausted(usage)
  BY <1>1, <1>2
<1>4. Agents!Rank(usage) \in Agents!Exhausted(usage')
  BY <1>3, StaysExhausted
<1> QED  BY <1>1, <1>4, RankLeast DEF Agents!Rank

-----------------------------------------------------------------------------
(***************************************************************************)
(* Every reachable ledger is one of the type: no counter leaves its width. *)
(***************************************************************************)
THEOREM LedgerTypeCorrect == Agents!Typed => (Agents!Spec => []Agents!TypeOK)
<1> SUFFICES ASSUME Agents!Typed PROVE Agents!Spec => []Agents!TypeOK
  OBVIOUS
<1>1. Agents!Init => LedgerInv
  BY InitLedger
<1>2. LedgerInv /\ [Agents!Next]_(Agents!vars) => LedgerInv'
  BY LedgerStep
<1>3. LedgerInv => Agents!TypeOK
  BY DEF LedgerInv
<1> QED  BY <1>1, <1>2, <1>3, PTL DEF Agents!Spec

(***************************************************************************)
(* No retry policy has a tool call attempted more often than it says, and  *)
(* every call that ended in failure ended by its last one.                 *)
(***************************************************************************)
THEOREM RetriesCorrect == Agents!Typed => (Agents!Spec => []Agents!RetriesEnd)
<1> SUFFICES ASSUME Agents!Typed PROVE Agents!Spec => []Agents!RetriesEnd
  OBVIOUS
<1>1. Agents!Init => LedgerInv
  BY InitLedger
<1>2. LedgerInv /\ [Agents!Next]_(Agents!vars) => LedgerInv'
  BY LedgerStep
<1>3. LedgerInv => Agents!RetriesEnd
  BY DEF LedgerInv
<1> QED  BY <1>1, <1>2, <1>3, PTL DEF Agents!Spec

-----------------------------------------------------------------------------
(***************************************************************************)
(* Key bindings.  Every spelling sets one flag at most, and every key name *)
(* is of one key.                                                          *)
(***************************************************************************)
LEMMA OneFlag ==
  ASSUME NEW segment
  PROVE  /\ \A f, g \in Keys!FlagsOf(segment) : f = g
         /\ Keys!FlagsOf(segment) \subseteq Keys!Flags
         /\ segment \in Keys!Flags => Keys!FlagsOf(segment) = {segment}
  BY DEF Keys!FlagsOf, Keys!ModifierNames, Keys!Flags

Aliases == {"esc", "return", "del", "page_up", "pgup", "page_down", "pgdn", "arrow_up", "up",
            "arrow_down", "down", "arrow_left", "left", "arrow_right", "right"}

LEMMA AliasesAreNoNames ==
  /\ \A name \in DOMAIN Keys!KeyNames : Keys!KeyNames[name] \subseteq Aliases /\ name # Keys!Blank
  /\ \A alias \in Aliases : alias \notin DOMAIN Keys!KeyNames /\ alias # Keys!Blank
<1>1. /\ Keys!KeyNames["escape"] = {"esc"} /\ Keys!KeyNames["tab"] = {}
      /\ Keys!KeyNames["enter"] = {"return"} /\ Keys!KeyNames["backspace"] = {}
      /\ Keys!KeyNames["delete"] = {"del"} /\ Keys!KeyNames["home"] = {}
      /\ Keys!KeyNames["end"] = {} /\ Keys!KeyNames["pageup"] = {"page_up", "pgup"}
      /\ Keys!KeyNames["pagedown"] = {"page_down", "pgdn"}
      /\ Keys!KeyNames["arrowup"] = {"arrow_up", "up"}
      /\ Keys!KeyNames["arrowdown"] = {"arrow_down", "down"}
      /\ Keys!KeyNames["arrowleft"] = {"arrow_left", "left"}
      /\ Keys!KeyNames["arrowright"] = {"arrow_right", "right"} /\ Keys!KeyNames["space"] = {}
  BY DEF Keys!KeyNames
<1>2. DOMAIN Keys!KeyNames = {"escape", "tab", "enter", "backspace", "delete", "home", "end",
                              "pageup", "pagedown", "arrowup", "arrowdown", "arrowleft",
                              "arrowright", "space"}
  BY DEF Keys!KeyNames
<1> USE DEF Keys!Blank
<1>3. ASSUME NEW name \in DOMAIN Keys!KeyNames
      PROVE  Keys!KeyNames[name] \subseteq Aliases /\ name # Keys!Blank
  BY <1>1, <1>2 DEF Aliases
<1>4. ASSUME NEW alias \in Aliases PROVE alias \notin DOMAIN Keys!KeyNames /\ alias # Keys!Blank
  BY <1>2 DEF Aliases
<1> QED  BY <1>3, <1>4

LEMMA OneName ==
  ASSUME NEW segment
  PROVE  /\ segment \in DOMAIN Keys!KeyNames => Keys!NamesOf(segment) = {segment}
         /\ Keys!NamesOf(segment) # {} => segment \in Keys!Spelled(Keys!KeyNames)
         /\ Keys!NamesOf(segment) # {} => segment # Keys!Blank
<1>1. segment \in DOMAIN Keys!KeyNames => Keys!NamesOf(segment) = {segment}
  BY AliasesAreNoNames DEF Keys!NamesOf
<1>2. Keys!NamesOf(segment) # {} => segment \in Keys!Spelled(Keys!KeyNames) /\ segment # Keys!Blank
  BY AliasesAreNoNames DEF Keys!NamesOf, Keys!Spelled
<1> QED  BY <1>1, <1>2

LEMMA ModifiersAreNoKeys ==
  ASSUME NEW segment, Keys!FlagsOf(segment) # {}
  PROVE  /\ segment \in Keys!Spelled(Keys!ModifierNames)
         /\ Keys!NamesOf(segment) = {} /\ segment # Keys!Blank
<1>1. segment \in {"ctrl", "control", "shift", "alt", "option", "cmd", "meta", "super"}
  BY DEF Keys!FlagsOf, Keys!ModifierNames, Keys!Flags
<1>2. segment \in Keys!Spelled(Keys!ModifierNames)
  BY DEF Keys!FlagsOf, Keys!ModifierNames, Keys!Flags, Keys!Spelled
<1>3. Keys!NamesOf(segment) = {}
  BY <1>1 DEF Keys!NamesOf, Keys!KeyNames
<1> QED  BY <1>1, <1>2, <1>3 DEF Keys!Blank

(***************************************************************************)
(* A segment is a key or a modifier, and not both; a key is read back from *)
(* its canonical name, which is no modifier.                               *)
(***************************************************************************)
LEMMA KeysParse ==
  ASSUME Keys!Lexical, NEW segment
  PROVE  /\ Keys!ParseKey(segment) # Keys!NoKey <=> Keys!IsKey(segment)
         /\ Keys!IsKey(segment) => Keys!FlagsOf(segment) = {} /\ segment # Keys!Blank
<1>1. CASE segment \in DOMAIN Numbered
  <2>1. /\ segment \notin Char /\ Keys!NamesOf(segment) = {}
        /\ Keys!FlagsOf(segment) = {} /\ segment # Keys!Blank
    BY <1>1, OneName, ModifiersAreNoKeys DEF Keys!Lexical
  <2> QED  BY <1>1, <2>1 DEF Keys!ParseKey, Keys!IsKey, Keys!NoKey, Keys!Key
<1>2. CASE segment \notin DOMAIN Numbered /\ Keys!NamesOf(segment) # {}
  <2>1. Keys!FlagsOf(segment) = {} /\ segment # Keys!Blank
    BY <1>2, OneName, ModifiersAreNoKeys
  <2> QED  BY <1>2, <2>1 DEF Keys!ParseKey, Keys!IsKey, Keys!NoKey, Keys!Key
<1>3. CASE segment \notin DOMAIN Numbered /\ Keys!NamesOf(segment) = {}
  <2>1. segment \in Char => Keys!FlagsOf(segment) = {} /\ segment # Keys!Blank
    BY ModifiersAreNoKeys DEF Keys!Lexical
  <2> QED  BY <1>3, <2>1 DEF Keys!ParseKey, Keys!IsKey, Keys!NoKey, Keys!Key
<1> QED  BY <1>1, <1>2, <1>3

LEMMA TokenReadsBack ==
  ASSUME Keys!Lexical, NEW segment, Keys!IsKey(segment)
  PROVE  LET key == Keys!ParseKey(segment)
         IN  /\ Keys!IsKey(Keys!CanonicalToken(key))
             /\ Keys!ParseKey(Keys!CanonicalToken(key)) = key
<1>1. CASE segment \in DOMAIN Numbered
  <2>1. /\ Numbered[segment] \in 1..24 /\ segment \notin Char /\ Keys!NamesOf(segment) = {}
    BY <1>1, OneName DEF Keys!Lexical, Keys!IsKey
  <2>2. Keys!ParseKey(segment) = Keys!Key("F", Numbered[segment])
    BY <1>1, <2>1 DEF Keys!ParseKey
  <2>3. PICK token : token = Keys!CanonicalToken(Keys!Key("F", Numbered[segment]))
    OBVIOUS
  <2>4. token \in DOMAIN Numbered /\ Numbered[token] = Numbered[segment]
    BY <1>1, <2>1, <2>3 DEF Keys!Lexical, Keys!CanonicalToken, Keys!Key
  <2>5. Keys!ParseKey(token) = Keys!Key("F", Numbered[segment]) /\ Keys!IsKey(token)
    BY <2>1, <2>4 DEF Keys!ParseKey, Keys!IsKey
  <2> QED  BY <2>2, <2>3, <2>5
<1>2. CASE segment \notin DOMAIN Numbered /\ Keys!NamesOf(segment) # {}
  <2> DEFINE name == CHOOSE n \in Keys!NamesOf(segment) : TRUE
  <2>1. name \in Keys!NamesOf(segment) /\ Keys!ParseKey(segment) = Keys!Key("Named", name)
    BY <1>2 DEF Keys!ParseKey
  <2> HIDE DEF name
  <2>2. name \in DOMAIN Keys!KeyNames /\ Keys!NamesOf(name) = {name}
    <3>1. name \in DOMAIN Keys!KeyNames
      BY <2>1 DEF Keys!NamesOf
    <3> QED  BY <3>1, OneName
  <2>3. name \notin DOMAIN Numbered
    BY <2>2, OneName DEF Keys!Lexical
  <2>4. Keys!ParseKey(name) = Keys!Key("Named", name)
    BY <2>2, <2>3 DEF Keys!ParseKey
  <2>5. Keys!CanonicalToken(Keys!Key("Named", name)) = name
    BY DEF Keys!CanonicalToken, Keys!Key
  <2> QED  BY <2>1, <2>2, <2>4, <2>5 DEF Keys!IsKey
<1>3. CASE segment \notin DOMAIN Numbered /\ Keys!NamesOf(segment) = {}
  <2>1. segment \in Char
    BY <1>3 DEF Keys!IsKey
  <2> QED  BY <1>3, <2>1 DEF Keys!ParseKey, Keys!IsKey, Keys!CanonicalToken, Keys!Key
<1> QED  BY <1>1, <1>2, <1>3

(***************************************************************************)
(* Which texts are bindings, and of what.                                  *)
(***************************************************************************)
Before(text) == 1..(Len(text) - 1)

WellFormed(text) ==
  /\ \A i \in Before(text) : Keys!FlagsOf(text[i]) # {}
  /\ \A i, j \in Before(text) : i # j => Keys!FlagsOf(text[i]) \cap Keys!FlagsOf(text[j]) = {}
  /\ Keys!IsKey(text[Len(text)])

LEMMA WellFormedParses ==
  ASSUME Keys!Lexical, NEW Segment, NEW text \in Seq(Segment), Len(text) > 0, WellFormed(text)
  PROVE  Keys!Parse(text) = Keys!Binding(UNION {Keys!FlagsOf(text[i]) : i \in Before(text)},
                                         Keys!ParseKey(text[Len(text)]))
<1> DEFINE rear  == text[Len(text)]
           wrong == {i \in Before(text) : Keys!FlagsOf(text[i]) = {} \/ Keys!Repeats(text, i)}
<1> HIDE DEF rear, wrong
<1>1. \A i \in DOMAIN text : i \in Before(text) \/ i = Len(text)
  BY DEF Before
<1>2. Keys!ParseKey(rear) # Keys!NoKey /\ Keys!FlagsOf(rear) = {} /\ rear # Keys!Blank
  BY KeysParse DEF WellFormed, rear
<1>3. Keys!Blank \notin Keys!ToSet(text) /\ text # <<Keys!Blank>>
  BY <1>1, <1>2, ModifiersAreNoKeys DEF WellFormed, Keys!ToSet, rear
<1>4. wrong = {}
  <2>1. \A i \in Before(text) : Keys!FlagsOf(text[i]) # {} /\ ~Keys!Repeats(text, i)
    <3> SUFFICES ASSUME NEW i \in Before(text), Keys!Repeats(text, i) PROVE FALSE
      BY DEF WellFormed
    <3>1. PICK j \in 1..(i - 1) : Keys!FlagsOf(text[j]) \cap Keys!FlagsOf(text[i]) # {}
      BY DEF Keys!Repeats
    <3>2. j \in Before(text) /\ j # i
      BY DEF Before
    <3> QED  BY <3>1, <3>2 DEF WellFormed
  <2> QED  BY <2>1 DEF wrong
<1> DEFINE modifiers == UNION {Keys!FlagsOf(text[i]) : i \in Before(text)}
           foremost  == CHOOSE i \in wrong : \A j \in wrong : i <= j
           duplicate == Keys!Error(IF Keys!FlagsOf(text[foremost]) = {}
                                   THEN "UnknownModifier" ELSE "DuplicateModifier")
<1>5. Keys!Parse(text) = IF text = <<Keys!Blank>> THEN Keys!Error("Empty")
                         ELSE IF Keys!Blank \in Keys!ToSet(text) THEN Keys!Error("EmptyToken")
                         ELSE IF Keys!FlagsOf(rear) # {} THEN Keys!Error("MissingKey")
                         ELSE IF Keys!ParseKey(rear) = Keys!NoKey THEN Keys!Error("UnknownKey")
                         ELSE IF wrong # {} THEN duplicate
                         ELSE Keys!Binding(modifiers, Keys!ParseKey(rear))
  BY DEF Keys!Parse, Before, rear, wrong
<1> HIDE DEF modifiers, duplicate
<1>6. Keys!Parse(text) = Keys!Binding(modifiers, Keys!ParseKey(rear))
  BY <1>2, <1>3, <1>4, <1>5
<1> QED  BY <1>6 DEF modifiers, rear

LEMMA ParsedIsWellFormed ==
  ASSUME Keys!Lexical, NEW Segment, NEW text \in Seq(Segment), Len(text) > 0,
         Keys!Parse(text).error = "none"
  PROVE  WellFormed(text)
<1> DEFINE rear  == text[Len(text)]
           wrong == {i \in Before(text) : Keys!FlagsOf(text[i]) = {} \/ Keys!Repeats(text, i)}
<1>1. Keys!FlagsOf(rear) = {} /\ Keys!ParseKey(rear) # Keys!NoKey /\ wrong = {}
  BY DEF Keys!Parse, Keys!Error, Before
<1> HIDE DEF wrong
<1>2. \A i, j \in Before(text) : j < i => Keys!FlagsOf(text[j]) \cap Keys!FlagsOf(text[i]) = {}
  <2> SUFFICES ASSUME NEW i \in Before(text), NEW j \in Before(text), j < i
               PROVE  Keys!FlagsOf(text[j]) \cap Keys!FlagsOf(text[i]) = {}
    OBVIOUS
  <2>1. j \in 1..(i - 1)
    BY DEF Before
  <2> QED  BY <1>1, <2>1 DEF Keys!Repeats, wrong
<1>3. \A i, j \in Before(text) : i # j => Keys!FlagsOf(text[i]) \cap Keys!FlagsOf(text[j]) = {}
  <2> SUFFICES ASSUME NEW i \in Before(text), NEW j \in Before(text), i # j
               PROVE  Keys!FlagsOf(text[i]) \cap Keys!FlagsOf(text[j]) = {}
    OBVIOUS
  <2>1. i < j \/ j < i
    BY DEF Before
  <2> QED  BY <1>2, <2>1
<1>4. \A i \in Before(text) : Keys!FlagsOf(text[i]) # {}
  BY <1>1 DEF wrong
<1> QED  BY <1>1, <1>3, <1>4, KeysParse DEF WellFormed

(***************************************************************************)
(* The canonical form: every flag of the binding once, then the key.       *)
(***************************************************************************)
Spells(flags, modifiers) ==
  /\ flags \in Seq(Keys!Flags)
  /\ \A i, j \in DOMAIN flags : i # j => flags[i] # flags[j]
  /\ modifiers = {flags[i] : i \in DOMAIN flags}

LEMMA ShownSpells ==
  ASSUME NEW flags, NEW modifiers, Spells(flags, modifiers), NEW binding,
         NEW flag \in Keys!Flags \ modifiers
  PROVE  Spells(flags \o Keys!Shown(flag, binding), modifiers \cup ({flag} \cap binding.modifiers))
<1>1. CASE flag \in binding.modifiers
  <2> DEFINE more == Append(flags, flag)
  <2>1. /\ more \in Seq(Keys!Flags) /\ DOMAIN more = DOMAIN flags \cup {Len(flags) + 1}
        /\ \A i \in DOMAIN flags : more[i] = flags[i] /\ flags[i] # flag
        /\ more[Len(flags) + 1] = flag
    BY DEF Spells
  <2>2. flags \o Keys!Shown(flag, binding) = more
    BY <1>1 DEF Keys!Shown, Spells
  <2>3. modifiers \cup ({flag} \cap binding.modifiers) = modifiers \cup {flag}
    BY <1>1
  <2> HIDE DEF more
  <2>4. Spells(more, modifiers \cup {flag})
    BY <2>1 DEF Spells
  <2> QED  BY <2>2, <2>3, <2>4
<1>2. CASE flag \notin binding.modifiers
  <2>1. flags \o Keys!Shown(flag, binding) = flags
    BY <1>2 DEF Keys!Shown, Spells
  <2>2. modifiers \cup ({flag} \cap binding.modifiers) = modifiers
    BY <1>2
  <2> QED  BY <2>1, <2>2
<1> QED  BY <1>1, <1>2

LEMMA DisplayIsWellFormed ==
  ASSUME Keys!Lexical, NEW modifiers \in SUBSET Keys!Flags, NEW segment, Keys!IsKey(segment)
  PROVE  LET text == Keys!Display(Keys!Binding(modifiers, Keys!ParseKey(segment)))
         IN  /\ text \in Seq(Keys!Flags \cup {text[Len(text)]}) /\ Len(text) > 0 /\ WellFormed(text)
             /\ UNION {Keys!FlagsOf(text[i]) : i \in Before(text)} = modifiers
             /\ Keys!ParseKey(text[Len(text)]) = Keys!ParseKey(segment)
<1> DEFINE binding == Keys!Binding(modifiers, Keys!ParseKey(segment))
           ctrl  == Keys!Shown("ctrl", binding)
           shift == Keys!Shown("shift", binding)
           alt   == Keys!Shown("alt", binding)
           cmd   == Keys!Shown("cmd", binding)
           flags == ctrl \o shift \o alt \o cmd
           token == Keys!CanonicalToken(Keys!ParseKey(segment))
           text  == flags \o <<token>>
<1>1. binding.modifiers = modifiers /\ binding.key = Keys!ParseKey(segment)
  BY DEF Keys!Binding
<1>2. Keys!Display(binding) = text
  BY <1>1 DEF Keys!Display
<1>3. Keys!IsKey(token) /\ Keys!ParseKey(token) = Keys!ParseKey(segment)
  BY TokenReadsBack
<1>4. Spells(flags, modifiers)
  <2> HIDE DEF binding
  <2> USE DEF Keys!Flags
  <2>1. Spells(<<>>, {})
    BY DEF Spells
  <2>2. Spells(<<>> \o ctrl, {} \cup ({"ctrl"} \cap modifiers))
    BY <1>1, <2>1, ShownSpells
  <2>3. <<>> \o ctrl = ctrl
    BY DEF Keys!Shown
  <2>4. Spells(ctrl, {"ctrl"} \cap modifiers)
    BY <2>2, <2>3
  <2>5. Spells(ctrl \o shift, ({"ctrl"} \cap modifiers) \cup ({"shift"} \cap modifiers))
    BY <1>1, <2>4, ShownSpells
  <2>6. Spells(ctrl \o shift \o alt,
               ({"ctrl"} \cap modifiers) \cup ({"shift"} \cap modifiers)
                 \cup ({"alt"} \cap modifiers))
    BY <1>1, <2>5, ShownSpells
  <2>7. Spells(flags,
               ({"ctrl"} \cap modifiers) \cup ({"shift"} \cap modifiers)
                 \cup ({"alt"} \cap modifiers) \cup ({"cmd"} \cap modifiers))
    BY <1>1, <2>6, ShownSpells
  <2>8. ({"ctrl"} \cap modifiers) \cup ({"shift"} \cap modifiers) \cup ({"alt"} \cap modifiers)
          \cup ({"cmd"} \cap modifiers) = modifiers
    OBVIOUS
  <2> QED  BY <2>7, <2>8
<1> HIDE DEF flags, token
<1>5. /\ flags \in Seq(Keys!Flags) /\ text \in Seq(Keys!Flags \cup {token})
      /\ Len(text) = Len(flags) + 1 /\ Len(flags) \in Nat
      /\ \A i \in 1..Len(flags) :
           text[i] = flags[i] /\ i \in DOMAIN flags /\ flags[i] \in Keys!Flags
      /\ text[Len(flags) + 1] = token
  BY <1>4 DEF Spells
<1> HIDE DEF text
<1>6. /\ Before(text) = DOMAIN flags
      /\ \A i \in DOMAIN flags : Keys!FlagsOf(text[i]) = {flags[i]}
  BY <1>5, OneFlag DEF Before
<1>7. WellFormed(text)
  <2>1. \A i, j \in DOMAIN flags : i # j => flags[i] # flags[j]
    BY <1>4 DEF Spells
  <2>2. \A i, j \in Before(text) : i # j => Keys!FlagsOf(text[i]) \cap Keys!FlagsOf(text[j]) = {}
    BY <1>6, <2>1
  <2> QED  BY <1>3, <1>5, <1>6, <2>2 DEF WellFormed
<1>8. UNION {Keys!FlagsOf(text[i]) : i \in Before(text)} = modifiers
  <2>1. modifiers = {flags[i] : i \in DOMAIN flags}
    BY <1>4 DEF Spells
  <2>2. ASSUME NEW f
        PROVE  (\E i \in Before(text) : f \in Keys!FlagsOf(text[i])) <=> f \in modifiers
    BY <1>6, <2>1
  <2> QED  BY <2>2
<1>9. text[Len(text)] = token
  BY <1>5
<1> QED  BY <1>2, <1>3, <1>5, <1>7, <1>8, <1>9

LEMMA DisplayReadsBack ==
  ASSUME Keys!Lexical, NEW Segment, NEW text \in Seq(Segment), Len(text) > 0,
         Keys!Parse(text).error = "none"
  PROVE  Keys!Parse(Keys!Display(Keys!Parse(text))) = Keys!Parse(text)
<1> DEFINE modifiers == UNION {Keys!FlagsOf(text[i]) : i \in Before(text)}
           rear      == text[Len(text)]
           binding   == Keys!Binding(modifiers, Keys!ParseKey(rear))
           shown     == Keys!Display(binding)
<1>1. WellFormed(text)
  BY ParsedIsWellFormed
<1>2. Keys!Parse(text) = binding
  BY <1>1, WellFormedParses
<1>3. modifiers \in SUBSET Keys!Flags
  BY OneFlag
<1>4. Keys!IsKey(rear)
  BY <1>1 DEF WellFormed
<1> HIDE DEF modifiers, rear
<1>5. /\ shown \in Seq(Keys!Flags \cup {shown[Len(shown)]}) /\ Len(shown) > 0 /\ WellFormed(shown)
      /\ UNION {Keys!FlagsOf(shown[i]) : i \in Before(shown)} = modifiers
      /\ Keys!ParseKey(shown[Len(shown)]) = Keys!ParseKey(rear)
  BY <1>3, <1>4, DisplayIsWellFormed
<1> HIDE DEF shown
<1>6. Keys!Parse(shown) = binding
  BY <1>5, WellFormedParses
<1> QED  BY <1>2, <1>6 DEF shown

(***************************************************************************)
(* One flag a segment and none twice: as many flags as segments.           *)
(***************************************************************************)
LEMMA FlagsAreCounted ==
  ASSUME NEW Segment, NEW text \in Seq(Segment), Len(text) > 0,
         \A i \in Before(text) : Keys!FlagsOf(text[i]) # {}
  PROVE  LET flags == UNION {Keys!FlagsOf(text[i]) : i \in Before(text)}
         IN  Cardinality(flags) = Len(text) - 1 <=>
               \A i, j \in Before(text) :
                 i # j => Keys!FlagsOf(text[i]) \cap Keys!FlagsOf(text[j]) = {}
<1> DEFINE flags == UNION {Keys!FlagsOf(text[i]) : i \in Before(text)}
           flag  == [i \in Before(text) |-> CHOOSE f \in Keys!FlagsOf(text[i]) : TRUE]
<1>1. \A i \in Before(text) : Keys!FlagsOf(text[i]) = {flag[i]}
  BY OneFlag
<1> HIDE DEF flag
<1>2. flag \in Surjection(Before(text), flags)
  <2>1. \A i \in Before(text) : flag[i] \in flags
    BY <1>1
  <2>2. flag = [i \in Before(text) |-> flag[i]]
    BY DEF flag
  <2>3. \A f \in flags : \E i \in Before(text) : flag[i] = f
    BY <1>1
  <2> HIDE DEF flags
  <2> QED  BY <2>1, <2>2, <2>3 DEF Surjection
<1>3. IsFiniteSet(Before(text)) /\ Cardinality(Before(text)) = Len(text) - 1
  BY FS_Interval, SMTT(30) DEF Before
<1>4. Cardinality(flags) = Cardinality(Before(text)) <=> flag \in Injection(Before(text), flags)
  BY <1>2, <1>3, FS_Surjection
<1>5. flag \in Injection(Before(text), flags) <=>
        \A i, j \in Before(text) : i # j => flag[i] # flag[j]
  BY <1>2 DEF Injection, Surjection, IsInjective
<1>6. \A i, j \in Before(text) :
        flag[i] # flag[j] <=> Keys!FlagsOf(text[i]) \cap Keys!FlagsOf(text[j]) = {}
  BY <1>1
<1> HIDE DEF flags
<1>7. Cardinality(flags) = Len(text) - 1 <=>
        \A i, j \in Before(text) : i # j => Keys!FlagsOf(text[i]) \cap Keys!FlagsOf(text[j]) = {}
  BY <1>3, <1>4, <1>5, <1>6
<1> QED  BY <1>7 DEF flags

(***************************************************************************)
(* A text is a binding exactly if it is one flag per segment, none twice,  *)
(* and then a key; and its canonical form is read back as the same binding *)
(* (KeyBinding::parse, Display), for any keyboard.                         *)
(***************************************************************************)
THEOREM BindingsReadBack ==
  ASSUME Keys!Lexical, NEW Segment, NEW text \in Seq(Segment), Len(text) > 0
  PROVE  Keys!ReadsBack(text)
<1> DEFINE binding == Keys!Parse(text)
           rear    == text[Len(text)]
           flags   == UNION {Keys!FlagsOf(text[i]) : i \in DOMAIN text}
           before  == UNION {Keys!FlagsOf(text[i]) : i \in Before(text)}
<1>1. Keys!IsKey(rear) => flags = before
  <2> SUFFICES ASSUME Keys!IsKey(rear), NEW f
               PROVE  (\E i \in DOMAIN text : f \in Keys!FlagsOf(text[i])) <=>
                      (\E i \in Before(text) : f \in Keys!FlagsOf(text[i]))
    OBVIOUS
  <2>1. Keys!FlagsOf(rear) = {}
    BY KeysParse
  <2>2. \A i \in DOMAIN text : i \in Before(text) \/ i = Len(text)
    BY DEF Before
  <2>3. \A i \in Before(text) : i \in DOMAIN text
    BY DEF Before
  <2> QED  BY <2>1, <2>2, <2>3
<1>2. WellFormed(text) <=> /\ \A i \in Before(text) : Keys!FlagsOf(text[i]) # {}
                           /\ Cardinality(before) = Len(text) - 1
                           /\ Keys!IsKey(rear)
  BY FlagsAreCounted DEF WellFormed
<1>3. binding.error = "none" <=> WellFormed(text)
  <2>1. WellFormed(text) => binding.error = "none"
    BY WellFormedParses DEF Keys!Binding
  <2> QED  BY <2>1, ParsedIsWellFormed
<1>4. binding.error = "none" => Keys!Parse(Keys!Display(binding)) = binding
  BY DisplayReadsBack
<1>5. binding.error = "none" => binding.modifiers = flags
  <2> SUFFICES ASSUME WellFormed(text) PROVE binding.modifiers = before
    BY <1>1, <1>3 DEF WellFormed
  <2> QED  BY WellFormedParses DEF Keys!Binding
<1> HIDE DEF flags, before
<1>6. binding.error = "none" <=> /\ Cardinality(flags) = Len(text) - 1 /\ Keys!IsKey(rear)
                                 /\ \A i \in 1..(Len(text) - 1) : Keys!FlagsOf(text[i]) # {}
  BY <1>1, <1>2, <1>3 DEF Before
<1>7. Keys!Cardinality(flags) = Cardinality(flags)
  BY DEF Keys!Cardinality, Cardinality, Keys!IsFiniteSet, IsFiniteSet
<1> QED  BY <1>4, <1>5, <1>6, <1>7 DEF Keys!ReadsBack, flags

-----------------------------------------------------------------------------
(***************************************************************************)
(* Colours.  The sixteen digits are told apart, and a digit's value is its *)
(* place.                                                                  *)
(***************************************************************************)
LEMMA DigitsDiffer ==
  /\ DOMAIN ThemeFiles!Digits = 1..16 /\ Len(ThemeFiles!Digits) = 16
  /\ \A i, j \in 1..16 : ThemeFiles!Digits[i] = ThemeFiles!Digits[j] => i = j
  /\ \A i \in 1..16 : ThemeFiles!Digits[i] \notin {"lead", "trail", "+"}
<1> DEFINE D == ThemeFiles!Digits
<1>1. /\ D[1] = "0" /\ D[2] = "1" /\ D[3] = "2" /\ D[4] = "3" /\ D[5] = "4" /\ D[6] = "5"
      /\ D[7] = "6" /\ D[8] = "7" /\ D[9] = "8" /\ D[10] = "9" /\ D[11] = "a" /\ D[12] = "b"
      /\ D[13] = "c" /\ D[14] = "d" /\ D[15] = "e" /\ D[16] = "f"
  BY DEF ThemeFiles!Digits
<1>2. DOMAIN D = 1..16 /\ Len(D) = 16
  BY DEF ThemeFiles!Digits
<1> HIDE DEF D
<1>3. ASSUME NEW i \in 1..16, NEW j \in 1..16, D[i] = D[j] PROVE i = j
  <2>1. \/ i = 1 \/ i = 2 \/ i = 3 \/ i = 4 \/ i = 5 \/ i = 6 \/ i = 7 \/ i = 8
        \/ i = 9 \/ i = 10 \/ i = 11 \/ i = 12 \/ i = 13 \/ i = 14 \/ i = 15 \/ i = 16
    OBVIOUS
  <2>2. \/ j = 1 \/ j = 2 \/ j = 3 \/ j = 4 \/ j = 5 \/ j = 6 \/ j = 7 \/ j = 8
        \/ j = 9 \/ j = 10 \/ j = 11 \/ j = 12 \/ j = 13 \/ j = 14 \/ j = 15 \/ j = 16
    OBVIOUS
  <2> QED  BY <1>1, <1>3, <2>1, <2>2
<1>4. ASSUME NEW i \in 1..16 PROVE D[i] \notin {"lead", "trail", "+"}
  <2>1. \/ i = 1 \/ i = 2 \/ i = 3 \/ i = 4 \/ i = 5 \/ i = 6 \/ i = 7 \/ i = 8
        \/ i = 9 \/ i = 10 \/ i = 11 \/ i = 12 \/ i = 13 \/ i = 14 \/ i = 15 \/ i = 16
    OBVIOUS
  <2> QED  BY <1>1, <2>1
<1> QED  BY <1>2, <1>3, <1>4 DEF D

LEMMA DigitRead ==
  ASSUME NEW k \in 0..15
  PROVE  /\ ThemeFiles!Digits[k + 1] \in ThemeFiles!ToSet(ThemeFiles!Digits)
         /\ ThemeFiles!DigitOf(ThemeFiles!Digits[k + 1]) = k
<1> DEFINE I == {i \in 1..16 : ThemeFiles!Digits[i] = ThemeFiles!Digits[k + 1]}
<1>1. k + 1 \in 1..16 /\ DOMAIN ThemeFiles!Digits = 1..16
  BY DigitsDiffer
<1>2. I = {k + 1}
  BY <1>1, DigitsDiffer
<1>3. ThemeFiles!Min({k + 1}) = k + 1
  BY LeastOf
<1>4. ThemeFiles!DigitOf(ThemeFiles!Digits[k + 1]) = (IF I # {} THEN ThemeFiles!Min(I) ELSE 0) - 1
  BY DigitsDiffer DEF ThemeFiles!DigitOf, ThemeFiles!SelectInSeq
<1> HIDE DEF I
<1>5. ThemeFiles!DigitOf(ThemeFiles!Digits[k + 1]) = k
  BY <1>2, <1>3, <1>4
<1> QED  BY <1>1, <1>5 DEF ThemeFiles!ToSet

LEMMA DigitType ==
  ASSUME NEW char \in ThemeFiles!ToSet(ThemeFiles!Digits)
  PROVE  ThemeFiles!DigitOf(char) \in 0..15
<1>1. PICK i \in DOMAIN ThemeFiles!Digits : char = ThemeFiles!Digits[i]
  BY DEF ThemeFiles!ToSet
<1>2. i \in 1..16
  BY DigitsDiffer
<1>3. i - 1 \in 0..15 /\ (i - 1) + 1 = i
  BY <1>2
<1> QED  BY <1>1, <1>3, DigitRead

LEMMA HexByteType ==
  ASSUME NEW high, NEW low
  PROVE  ThemeFiles!HexByte(high, low) \in 0..255 \cup {ThemeFiles!NoByte}
<1> DEFINE digits == ThemeFiles!ToSet(ThemeFiles!Digits)
<1>1. CASE high \in digits /\ low \in digits
  BY <1>1, DigitType DEF ThemeFiles!HexByte
<1>2. CASE high \notin digits /\ high = "+" /\ low \in digits
  BY <1>2, DigitType DEF ThemeFiles!HexByte
<1> QED  BY <1>1, <1>2 DEF ThemeFiles!HexByte

(***************************************************************************)
(* Without a character of two bytes, a text's bytes are its characters.    *)
(***************************************************************************)
LEMMA BytesOfNarrow ==
  ASSUME NEW S, NEW chars \in Seq(S), \A i \in DOMAIN chars : chars[i] # Wide
  PROVE  ThemeFiles!Bytes(chars) = chars
<1> DEFINE n    == Len(chars)
           each == [i \in DOMAIN chars |->
                      IF chars[i] = Wide THEN <<"lead", "trail">> ELSE <<chars[i]>>]
           prefixes == [i \in 1..n |-> SubSeq(chars, 1, i)]
<1>1. n \in Nat /\ DOMAIN chars = 1..n /\ Len(each) = n
  OBVIOUS
<1>2. ThemeFiles!Bytes(chars) = ThemeFiles!FlattenSeq(each)
  BY DEF ThemeFiles!Bytes
<1>3. \A i \in 1..n : each[i] = <<chars[i]>>
  OBVIOUS
<1>4. CASE n = 0
  <2>1. ThemeFiles!FlattenSeq(each) = each
    BY <1>1, <1>4 DEF ThemeFiles!FlattenSeq
  <2>2. each = <<>> /\ chars = <<>>
    BY <1>1, <1>4
  <2> QED  BY <1>2, <2>1, <2>2
<1>5. CASE n # 0
  <2> HIDE DEF each
  <2>1. ASSUME NEW i \in 1..n
        PROVE  SubSeq(chars, 1, i) = IF i = 1 THEN each[i] ELSE prefixes[i - 1] \o each[i]
    <3>1. CASE i = 1
      BY <1>3, <3>1
    <3>2. CASE i # 1
      <4>1. i - 1 \in 1..n /\ prefixes[i - 1] = SubSeq(chars, 1, i - 1)
        BY <3>2
      <4>2. SubSeq(chars, 1, i) = SubSeq(chars, 1, i - 1) \o <<chars[i]>>
        BY <3>2
      <4> QED  BY <1>3, <3>2, <4>1, <4>2
    <3> QED  BY <3>1, <3>2
  <2>2. \A i \in 1..n : prefixes[i] = IF i = 1 THEN each[i] ELSE prefixes[i - 1] \o each[i]
    BY <2>1
  <2>3. prefixes[n] = chars
    BY <1>1, <1>5
  <2> HIDE DEF prefixes, n
  <2>4. ThemeFiles!FlattenSeq(each) = prefixes[n]
    <3>1. n \in Nat \ {0} /\ Len(each) = n
      BY <1>1, <1>5
    <3> QED  BY <2>2, <3>1, Flattened
  <2> QED  BY <1>2, <2>3, <2>4
<1> QED  BY <1>4, <1>5

(***************************************************************************)
(* What parse_hex says of the bytes: a color of bytes, or a channel that   *)
(* is wrong, or one that cuts a character.                                 *)
(***************************************************************************)
Channels(bytes) == [i \in 1..(Len(bytes) \div 2) |-> ThemeFiles!Channel(bytes, i)]

LEMMA HexCases ==
  ASSUME NEW chars
  PROVE  LET bytes == ThemeFiles!Bytes(chars)
             at    == Channels(bytes)
             byte(i) == ThemeFiles!HexByte(bytes[2 * i - 1], bytes[2 * i])
         IN  \/ /\ ThemeFiles!ParseHex(chars).is = "invalid"
                /\ Len(bytes) \in {6, 8} => \E i \in DOMAIN at : at[i] # "byte"
             \/ /\ ThemeFiles!ParseHex(chars).is = "panic" /\ Len(bytes) \in {6, 8}
                /\ \E i \in DOMAIN at : at[i] = "panic"
             \/ /\ Len(bytes) \in {6, 8} /\ \A i \in DOMAIN at : at[i] = "byte"
                /\ ThemeFiles!ParseHex(chars) =
                     ThemeFiles!Color(byte(1), byte(2), byte(3),
                                      IF Len(bytes) = 8 THEN byte(4) ELSE 255)
<1> DEFINE bytes == ThemeFiles!Bytes(chars)
           at    == Channels(bytes)
           I     == {i \in 1..Len(at) : at[i] # "byte"}
           byte  == [i \in DOMAIN at |-> ThemeFiles!HexByte(bytes[2 * i - 1], bytes[2 * i])]
           wrong == IF I # {} THEN ThemeFiles!Min(I) ELSE 0
<1>1. ThemeFiles!ParseHex(chars) =
        IF Len(bytes) \notin {6, 8} THEN ThemeFiles!Invalid
        ELSE IF wrong # 0 THEN [ThemeFiles!Invalid EXCEPT !.is = at[wrong]]
        ELSE ThemeFiles!Color(byte[1], byte[2], byte[3], IF Len(bytes) = 8 THEN byte[4] ELSE 255)
  BY DEF ThemeFiles!ParseHex, ThemeFiles!SelectInSeq, Channels
<1>2. CASE Len(bytes) \notin {6, 8}
  BY <1>1, <1>2 DEF ThemeFiles!Invalid
<1>3. CASE Len(bytes) \in {6, 8}
  <2>1. Len(bytes) \div 2 \in {3, 4} /\ (Len(bytes) = 8 => Len(bytes) \div 2 = 4)
    <3>1. 6 \div 2 = 3 /\ 8 \div 2 = 4
      OBVIOUS
    <3> HIDE DEF bytes
    <3> QED  BY ONLY <1>3, <3>1
  <2>2. DOMAIN at = 1..(Len(bytes) \div 2) /\ Len(at) = Len(bytes) \div 2
    BY <2>1 DEF Channels
  <2>3. \A i \in DOMAIN at : at[i] \in {"panic", "invalid", "byte"}
    BY DEF Channels, ThemeFiles!Channel
  <2>4. CASE I # {}
    <3>1. I \in SUBSET Nat
      BY <2>1, <2>2
    <3>2. wrong \in I
      <4> HIDE DEF I
      <4> QED  BY <2>4, <3>1, LeastOf
    <3>3. wrong # 0 /\ wrong \in DOMAIN at /\ at[wrong] \in {"panic", "invalid"}
      BY <2>1, <2>2, <2>3, <3>2
    <3> HIDE DEF wrong, at, bytes
    <3> QED  BY <1>1, <1>3, <3>3 DEF ThemeFiles!Invalid, bytes, at
  <2>5. CASE I = {}
    <3>1. \A i \in DOMAIN at : at[i] = "byte"
      BY <2>2, <2>5
    <3>2. \A i \in DOMAIN at : byte[i] = ThemeFiles!HexByte(bytes[2 * i - 1], bytes[2 * i])
      OBVIOUS
    <3>3. wrong = 0
      BY <2>5
    <3> HIDE DEF byte, wrong, I
    <3>4. ThemeFiles!ParseHex(chars) =
            ThemeFiles!Color(byte[1], byte[2], byte[3], IF Len(bytes) = 8 THEN byte[4] ELSE 255)
      BY <1>1, <1>3, <3>3
    <3> QED  BY <1>3, <2>1, <2>2, <3>1, <3>2, <3>4
  <2> QED  BY <2>4, <2>5
<1> QED  BY <1>2, <1>3

Byte == 0..255
IsColor(c) == \E r, g, b, a \in Byte : c = ThemeFiles!Color(r, g, b, a)

LEMMA HexColors ==
  ASSUME NEW chars \in Seq(STRING \ {"lead", "trail"}), NEW c, c = ThemeFiles!ParseHex(chars)
  PROVE  /\ c.is \in {"color", "invalid", "panic"}
         /\ c.is = "color" => IsColor(c)
         /\ c.is = "panic" => Wide \in ThemeFiles!ToSet(chars)
<1> DEFINE bytes == ThemeFiles!Bytes(chars)
           at    == Channels(bytes)
           byte(i) == ThemeFiles!HexByte(bytes[2 * i - 1], bytes[2 * i])
<1>1. \/ c.is = "invalid"
      \/ /\ c.is = "panic" /\ Len(bytes) \in {6, 8}
         /\ \E i \in DOMAIN at : at[i] = "panic"
      \/ /\ Len(bytes) \in {6, 8} /\ \A i \in DOMAIN at : at[i] = "byte"
         /\ c = ThemeFiles!Color(byte(1), byte(2), byte(3), IF Len(bytes) = 8 THEN byte(4) ELSE 255)
  BY HexCases
<1>2. Len(bytes) \in {6, 8} =>
        \/ DOMAIN at = 1..3 /\ Len(bytes) = 6
        \/ DOMAIN at = 1..4 /\ Len(bytes) = 8
  <2>1. 6 \div 2 = 3 /\ 8 \div 2 = 4
    OBVIOUS
  <2>2. DOMAIN at = 1..(Len(bytes) \div 2)
    BY DEF Channels
  <2> HIDE DEF bytes, at
  <2> QED  BY <2>1, <2>2
<1>3. \A i \in DOMAIN at : at[i] = ThemeFiles!Channel(bytes, i)
  BY DEF Channels
<1> HIDE DEF bytes, at
<1>4. ASSUME NEW i \in DOMAIN at, at[i] = "byte" PROVE byte(i) \in Byte
  <2>1. byte(i) # ThemeFiles!NoByte
    BY <1>3, <1>4 DEF ThemeFiles!Channel
  <2> QED  BY <2>1, HexByteType DEF Byte
<1>5. CASE c.is = "invalid"
  BY <1>5
<1>6. CASE c.is = "panic" /\ Len(bytes) \in {6, 8} /\ \E i \in DOMAIN at : at[i] = "panic"
  <2> SUFFICES ASSUME Wide \notin ThemeFiles!ToSet(chars) PROVE FALSE
    BY <1>6
  <2>1. bytes = chars
    BY BytesOfNarrow DEF ThemeFiles!ToSet, bytes
  <2>2. PICK i \in DOMAIN at : at[i] = "panic"
    BY <1>6
  <2>3. bytes[2 * i - 1] = "trail" \/ bytes[2 * i] = "lead"
    BY <1>3, <2>2 DEF ThemeFiles!Channel
  <2>4. 2 * i - 1 \in DOMAIN chars /\ 2 * i \in DOMAIN chars
    BY <1>2, <1>6, <2>1
  <2> QED  BY <2>1, <2>3, <2>4
<1>7. CASE /\ Len(bytes) \in {6, 8} /\ \A i \in DOMAIN at : at[i] = "byte"
           /\ c = ThemeFiles!Color(byte(1), byte(2), byte(3),
                                   IF Len(bytes) = 8 THEN byte(4) ELSE 255)
  <2>1. \A i \in DOMAIN at : byte(i) \in Byte
    BY <1>4, <1>7
  <2>2. byte(1) \in Byte /\ byte(2) \in Byte /\ byte(3) \in Byte
        /\ (Len(bytes) = 8 => byte(4) \in Byte)
    <3> HIDE DEF byte
    <3> QED  BY <1>2, <1>7, <2>1
  <2>3. (IF Len(bytes) = 8 THEN byte(4) ELSE 255) \in Byte
    BY <2>2 DEF Byte
  <2>4. c.is = "color"
    BY <1>7 DEF ThemeFiles!Color
  <2> HIDE DEF byte
  <2> QED  BY <1>7, <2>2, <2>3, <2>4 DEF IsColor
<1> QED  BY <1>1, <1>5, <1>6, <1>7

LEMMA FieldColors ==
  ASSUME NEW form \in {"rgb", "rgba"}, NEW fields \in Seq([kind : STRING, n : Nat]),
         NEW c, c = ThemeFiles!ParseFields(form, fields)
  PROVE  c.is = "invalid" \/ (c.is = "color" /\ IsColor(c))
<1> DEFINE channels == [i \in DOMAIN fields |-> IF i = 4 THEN ThemeFiles!ParseAlpha(fields[i])
                                                ELSE ThemeFiles!ParseU8(fields[i])]
           count == [rgb |-> 3, rgba |-> 4][form]
           none  == ThemeFiles!NoByte \in ThemeFiles!ToSet(channels)
<1>1. c = IF Len(fields) # count \/ none
          THEN ThemeFiles!Invalid
          ELSE ThemeFiles!Color(channels[1], channels[2], channels[3],
                                IF form = "rgba" THEN channels[4] ELSE 255)
  BY DEF ThemeFiles!ParseFields
<1>2. ASSUME NEW i \in DOMAIN fields, channels[i] # ThemeFiles!NoByte PROVE channels[i] \in Byte
  <2>1. ThemeFiles!ParseU8(fields[i]) # ThemeFiles!NoByte => ThemeFiles!ParseU8(fields[i]) \in Byte
    BY DEF ThemeFiles!ParseU8, Byte
  <2>2. \A n \in 0..10 : (n * 51 + 1) \div 2 \in Byte
    BY DEF Byte
  <2>3. ThemeFiles!ParseAlpha(fields[i]) # ThemeFiles!NoByte
        => ThemeFiles!ParseAlpha(fields[i]) \in Byte
    BY <2>1, <2>2 DEF ThemeFiles!ParseAlpha
  <2> QED  BY <1>2, <2>1, <2>3
<1>3. CASE Len(fields) # count \/ none
  BY <1>1, <1>3 DEF ThemeFiles!Invalid
<1>4. CASE Len(fields) = count /\ ~none
  <2>1. \A i \in DOMAIN fields : channels[i] \in Byte
    BY <1>2, <1>4 DEF ThemeFiles!ToSet
  <2>2. {1, 2, 3} \subseteq DOMAIN fields /\ (form = "rgba" => 4 \in DOMAIN fields)
    BY <1>4
  <2>3. 255 \in Byte
    BY DEF Byte
  <2> DEFINE alpha == IF form = "rgba" THEN channels[4] ELSE 255
  <2>4. c = ThemeFiles!Color(channels[1], channels[2], channels[3], alpha)
    BY <1>1, <1>4
  <2> HIDE DEF channels
  <2>5. alpha \in Byte /\ channels[1] \in Byte /\ channels[2] \in Byte /\ channels[3] \in Byte
    BY <2>1, <2>2, <2>3
  <2> HIDE DEF alpha
  <2>6. IsColor(c)
    BY <2>4, <2>5 DEF IsColor
  <2>7. c.is = "color"
    BY <2>4 DEF ThemeFiles!Color
  <2> QED  BY <2>6, <2>7
<1> QED  BY <1>3, <1>4

LEMMA Colors ==
  ASSUME NEW text \in ThemeFiles!ColorText, NEW c, c = ThemeFiles!ParseColor(text)
  PROVE  /\ c.is \in {"color", "invalid", "panic"}
         /\ c.is = "color" => IsColor(c)
         /\ c.is = "panic" => Wide \in ThemeFiles!ToSet(text.chars)
<1>1. /\ text.chars \in Seq(STRING \ {"lead", "trail"})
      /\ text.fields \in Seq([kind : STRING, n : Nat])
  BY DEF ThemeFiles!ColorText
<1>2. CASE text.form = "hex"
  BY <1>1, <1>2, HexColors DEF ThemeFiles!ParseColor
<1>3. CASE text.form \in {"rgb", "rgba"}
  BY <1>1, <1>3, FieldColors DEF ThemeFiles!ParseColor
<1>4. CASE text.form \notin {"hex", "rgb", "rgba"}
  BY <1>4 DEF ThemeFiles!ParseColor, ThemeFiles!Invalid
<1> QED  BY <1>2, <1>3, <1>4

(***************************************************************************)
(* The stored form: two digits a channel.                                  *)
(***************************************************************************)
LEMMA PairRead ==
  ASSUME ThemeFiles!Lexical, NEW n \in Byte
  PROVE  /\ ThemeFiles!High(n) \notin {"lead", "trail", Wide}
         /\ ThemeFiles!Low(n) \notin {"lead", "trail", Wide}
         /\ ThemeFiles!HexByte(ThemeFiles!High(n), ThemeFiles!Low(n)) = n
<1>1. n \div 16 \in 0..15 /\ n % 16 \in 0..15 /\ 16 * (n \div 16) + (n % 16) = n
  BY DEF Byte
<1> DEFINE high == ThemeFiles!Digits[(n \div 16) + 1]
           low  == ThemeFiles!Digits[(n % 16) + 1]
<1>2. /\ high \in ThemeFiles!ToSet(ThemeFiles!Digits) /\ ThemeFiles!DigitOf(high) = n \div 16
      /\ low \in ThemeFiles!ToSet(ThemeFiles!Digits) /\ ThemeFiles!DigitOf(low) = n % 16
  BY <1>1, DigitRead
<1>3. (n \div 16) + 1 \in 1..16 /\ (n % 16) + 1 \in 1..16
  BY <1>1
<1>4. high \notin {"lead", "trail"} /\ low \notin {"lead", "trail"}
  BY <1>3, DigitsDiffer
<1> HIDE DEF high, low
<1>5. ThemeFiles!HexByte(high, low) = n
  BY <1>1, <1>2 DEF ThemeFiles!HexByte
<1>6. high # Wide /\ low # Wide
  BY <1>2 DEF ThemeFiles!Lexical
<1> QED  BY <1>4, <1>5, <1>6 DEF ThemeFiles!High, ThemeFiles!Low, high, low

LEMMA StoredReadsBack ==
  ASSUME ThemeFiles!Lexical, NEW c, IsColor(c)
  PROVE  ThemeFiles!ParseColor(ThemeFiles!Display(c)) = c
<1>1. PICK r, g, b, a \in Byte : c = ThemeFiles!Color(r, g, b, a)
  BY DEF IsColor
<1> DEFINE chars == <<ThemeFiles!High(r), ThemeFiles!Low(r), ThemeFiles!High(g), ThemeFiles!Low(g),
                      ThemeFiles!High(b), ThemeFiles!Low(b), ThemeFiles!High(a), ThemeFiles!Low(a)>>
           at    == Channels(chars)
           byte(i) == ThemeFiles!HexByte(chars[2 * i - 1], chars[2 * i])
<1>2. ThemeFiles!ParseColor(ThemeFiles!Display(c)) = ThemeFiles!ParseHex(chars)
  <2>1. /\ ThemeFiles!Display(c).form = "hex" /\ ThemeFiles!Display(c).chars = chars
    BY <1>1 DEF ThemeFiles!Display, ThemeFiles!Color
  <2> HIDE DEF chars
  <2> QED  BY <2>1 DEF ThemeFiles!ParseColor
<1>3. /\ Len(chars) = 8 /\ DOMAIN chars = 1..8
      /\ chars[1] = ThemeFiles!High(r) /\ chars[2] = ThemeFiles!Low(r)
      /\ chars[3] = ThemeFiles!High(g) /\ chars[4] = ThemeFiles!Low(g)
      /\ chars[5] = ThemeFiles!High(b) /\ chars[6] = ThemeFiles!Low(b)
      /\ chars[7] = ThemeFiles!High(a) /\ chars[8] = ThemeFiles!Low(a)
  OBVIOUS
<1> DEFINE S == {chars[i] : i \in 1..8}
<1> HIDE DEF chars
<1>4. chars \in Seq(S) /\ \A i \in DOMAIN chars : chars[i] \notin {"lead", "trail", Wide}
  <2>1. ASSUME NEW i \in DOMAIN chars PROVE chars[i] \notin {"lead", "trail", Wide}
    <3>1. \/ i = 1 \/ i = 2 \/ i = 3 \/ i = 4 \/ i = 5 \/ i = 6 \/ i = 7 \/ i = 8
      BY <1>3
    <3>2. \A n \in Byte : /\ ThemeFiles!High(n) \notin {"lead", "trail", Wide}
                          /\ ThemeFiles!Low(n) \notin {"lead", "trail", Wide}
      BY PairRead
    <3> QED  BY <1>3, <3>1, <3>2
  <2>2. chars \in Seq(S)
    BY DEF chars
  <2> QED  BY <2>1, <2>2
<1> HIDE DEF S
<1>5. ThemeFiles!Bytes(chars) = chars
  BY <1>4, BytesOfNarrow
<1>6. /\ byte(1) = r /\ byte(2) = g /\ byte(3) = b /\ byte(4) = a
  BY <1>3, PairRead
<1>7. DOMAIN at = 1..4
  <2>1. 8 \div 2 = 4
    OBVIOUS
  <2>2. DOMAIN at = 1..(Len(chars) \div 2)
    BY DEF Channels
  <2> QED  BY <1>3, <2>1, <2>2
<1>8. ASSUME NEW i \in 1..4 PROVE at[i] = "byte"
  <2>1. 2 * i - 1 \in 1..8 /\ 2 * i \in 1..8
    OBVIOUS
  <2>2. byte(i) \in Byte
    <3>1. i = 1 \/ i = 2 \/ i = 3 \/ i = 4
      OBVIOUS
    <3> QED  BY <1>6, <3>1
  <2>3. at[i] = ThemeFiles!Channel(chars, i)
    BY <1>7 DEF Channels
  <2>4. chars[2 * i - 1] # "trail" /\ chars[2 * i] # "lead"
    BY <1>3, <1>4, <2>1
  <2> HIDE DEF at
  <2> QED  BY <2>2, <2>3, <2>4 DEF ThemeFiles!Channel, ThemeFiles!NoByte, Byte
<1>9. ThemeFiles!ParseHex(chars) =
        ThemeFiles!Color(byte(1), byte(2), byte(3), IF Len(chars) = 8 THEN byte(4) ELSE 255)
  <2> HIDE DEF at
  <2>1. ~\E i \in DOMAIN at : at[i] = "panic" \/ at[i] # "byte"
    BY <1>7, <1>8
  <2> QED  BY <1>3, <1>5, <2>1, HexCases DEF at
<1> QED  BY <1>1, <1>2, <1>3, <1>6, <1>9

(***************************************************************************)
(* What is read as a colour is stored as a text that is read back as the   *)
(* same colour.                                                            *)
(***************************************************************************)
THEOREM ColorsReadBack ==
  ASSUME ThemeFiles!Lexical, NEW text \in ThemeFiles!ColorText
  PROVE  ThemeFiles!ColorsReadBack(text)
<1> DEFINE c == ThemeFiles!ParseColor(text)
<1> SUFFICES ASSUME c.is = "color"
             PROVE  /\ ThemeFiles!ParseColor(ThemeFiles!Display(c)) = c
                    /\ \A i \in 1..4 : c.rgba[i] \in 0..255
  BY DEF ThemeFiles!ColorsReadBack
<1>1. IsColor(c)
  BY Colors
<1> HIDE DEF c
<1>2. PICK r, g, b, a \in Byte : c = ThemeFiles!Color(r, g, b, a)
  BY <1>1 DEF IsColor
<1>3. ASSUME NEW i \in 1..4 PROVE c.rgba[i] \in 0..255
  <2>1. i = 1 \/ i = 2 \/ i = 3 \/ i = 4
    OBVIOUS
  <2>2. c.rgba = <<r, g, b, a>>
    BY <1>2 DEF ThemeFiles!Color
  <2> QED  BY <2>1, <2>2 DEF Byte
<1> QED  BY <1>1, <1>3, StoredReadsBack

(***************************************************************************)
(* The first faulty token is one of the faulty.                            *)
(***************************************************************************)
LEMMA FirstIsFaulty ==
  ASSUME ThemeFiles!Lexical, NEW faulty, NEW p \in faulty,
         p \in ThemeFiles!ToSet(ThemeFiles!Required)
  PROVE  ThemeFiles!First(faulty) \in faulty
<1> DEFINE R == ThemeFiles!Required
           I == {i \in 1..Len(R) : R[i] \in faulty}
<1>1. R \in Seq(STRING)
  BY DEF ThemeFiles!Lexical, ThemeFiles!Required
<1>2. ThemeFiles!First(faulty) = R[IF I # {} THEN ThemeFiles!Min(I) ELSE 0]
  BY DEF ThemeFiles!First, ThemeFiles!SelectInSeq
<1> HIDE DEF R
<1>3. DOMAIN R = 1..Len(R) /\ Len(R) \in Nat
  BY <1>1
<1>4. PICK i \in DOMAIN R : p = R[i]
  BY DEF ThemeFiles!ToSet, R
<1>5. I \in SUBSET Nat /\ i \in I
  BY <1>3, <1>4
<1>6. \A j \in I : R[j] \in faulty
  OBVIOUS
<1> HIDE DEF I
<1>7. ThemeFiles!Min(I) \in I
  BY <1>5, LeastOf
<1> QED  BY <1>2, <1>5, <1>6, <1>7

(***************************************************************************)
(* Reading a theme file finds a fault exactly if there is one, and names a *)
(* token that has it.                                                      *)
(***************************************************************************)
THEOREM FaultsAreNamed ==
  ASSUME ThemeFiles!Lexical, NEW text \in ThemeFiles!ThemeText
  PROVE  ThemeFiles!FaultsAreNamed(text)
<1> DEFINE tokens  == ThemeFiles!ToSet(ThemeFiles!Required)
           said(p) == ThemeFiles!ParseColor(text.tokens[p])
           worded  == ThemeFiles!Worded(text)
           crosses == {p \in worded : said(p).is = "panic"}
           bad     == {p \in worded : said(p).is = "invalid"}
           odd     == ~text.fields \/ worded # tokens
           path    == ThemeFiles!InferColorPath(text)
<1>1. /\ text.toml \in BOOLEAN /\ text.fields \in BOOLEAN
      /\ \A p \in tokens : text.tokens[p] \in ThemeFiles!ColorText
  BY DEF ThemeFiles!ThemeText
<1>2. \A p \in tokens : /\ said(p).is \in {"color", "invalid", "panic"}
                        /\ said(p).is = "panic" => Wide \in ThemeFiles!ToSet(text.tokens[p].chars)
  BY <1>1, Colors
<1>3. \A p \in tokens : text.tokens[p] \in {ThemeFiles!Absent, ThemeFiles!Number}
                         => said(p).is = "invalid"
  BY DEF ThemeFiles!ParseColor, ThemeFiles!Absent, ThemeFiles!Number, ThemeFiles!Invalid
<1>4. worded = {p \in tokens : text.tokens[p] # ThemeFiles!Number}
  BY DEF ThemeFiles!Worded
<1> SUFFICES ASSUME NEW answer \in ThemeFiles!ParseTheme(text)
             PROVE  /\ answer.is = "theme" <=>
                          text.toml /\ text.fields /\ \A p \in tokens : said(p).is = "color"
                    /\ answer.is = "MissingToken" => text.tokens[answer.path] = ThemeFiles!Absent
                    /\ answer.is = "InvalidColor" =>
                          /\ said(answer.path).is # "color"
                          /\ text.tokens[answer.path] \notin {ThemeFiles!Absent, ThemeFiles!Number}
                    /\ answer.is = "panic" =>
                          \E p \in tokens : Wide \in ThemeFiles!ToSet(text.tokens[p].chars)
  BY DEF ThemeFiles!FaultsAreNamed
<1>5. CASE ~text.toml
  BY <1>5 DEF ThemeFiles!ParseTheme, ThemeFiles!Answer
<1>6. CASE text.toml /\ \E p \in tokens : text.tokens[p] = ThemeFiles!Absent
  <2> DEFINE absent == {p \in tokens : text.tokens[p] = ThemeFiles!Absent}
  <2>1. answer = ThemeFiles!Answer("MissingToken", ThemeFiles!First(absent))
    BY <1>6 DEF ThemeFiles!ParseTheme
  <2>2. ThemeFiles!First(absent) \in absent
    BY <1>6, FirstIsFaulty
  <2>3. \E p \in tokens : said(p).is # "color"
    BY <1>3, <1>6
  <2> HIDE DEF said
  <2> QED  BY <2>1, <2>2, <2>3 DEF ThemeFiles!Answer
<1>7. CASE text.toml /\ ~\E p \in tokens : text.tokens[p] = ThemeFiles!Absent
  <2>1. answer \in IF crosses \cup bad = {} /\ ~odd THEN {ThemeFiles!Answer("theme", "unknown")}
                   ELSE {ThemeFiles!Answer("panic", "unknown") : p \in crosses}
                        \cup {IF path \in crosses THEN ThemeFiles!Answer("panic", "unknown")
                              ELSE ThemeFiles!Answer("InvalidColor", path) : p \in bad}
                        \cup {ThemeFiles!Answer("InvalidField", "unknown") :
                                 o \in {TRUE} \cap {odd}}
    BY <1>7 DEF ThemeFiles!ParseTheme
  <2>2. bad # {} => path \in worded /\ said(path).is # "color"
    <3> DEFINE wrong == {p \in worded : said(p).is # "color"}
    <3>1. path = ThemeFiles!First(wrong)
      BY DEF ThemeFiles!InferColorPath
    <3>2. \A p \in bad : p \in wrong /\ p \in tokens
      BY <1>4
    <3>3. bad # {} => ThemeFiles!First(wrong) \in wrong
      BY <3>2, FirstIsFaulty
    <3> QED  BY <3>1, <3>3
  <2>3. crosses \subseteq tokens /\ bad \subseteq tokens
    BY <1>4
  <2>4. (\A p \in tokens : said(p).is = "color") /\ text.fields <=> crosses \cup bad = {} /\ ~odd
    <3>1. (\A p \in tokens : said(p).is = "color") => worded = tokens /\ crosses \cup bad = {}
      BY <1>3, <1>4
    <3>2. ASSUME worded = tokens, crosses \cup bad = {}, NEW p \in tokens PROVE said(p).is = "color"
      <4>1. said(p).is \in {"color", "invalid", "panic"}
        BY <1>2
      <4>2. p \notin crosses /\ p \notin bad /\ p \in worded
        BY <3>2
      <4> HIDE DEF said
      <4> QED  BY <4>1, <4>2
    <3> QED  BY <3>1, <3>2
  <2>5. \A p \in crosses : Wide \in ThemeFiles!ToSet(text.tokens[p].chars)
    BY <1>2, <2>3
  <2>6. \A p \in worded : text.tokens[p] \notin {ThemeFiles!Absent, ThemeFiles!Number}
    BY <1>4, <1>7
  <2> HIDE DEF said, crosses, bad, odd, path, worded
  <2>7. CASE crosses \cup bad = {} /\ ~odd
    <3>1. answer = ThemeFiles!Answer("theme", "unknown")
      BY <2>1, <2>7
    <3> QED  BY <1>7, <2>4, <2>7, <3>1 DEF ThemeFiles!Answer
  <2>8. CASE ~(crosses \cup bad = {} /\ ~odd)
    <3>1. \/ answer = ThemeFiles!Answer("panic", "unknown") /\ crosses # {}
          \/ answer = ThemeFiles!Answer("InvalidColor", path) /\ bad # {}
          \/ answer = ThemeFiles!Answer("InvalidField", "unknown")
      BY <2>1, <2>8
    <3> QED  BY <2>2, <2>3, <2>4, <2>5, <2>6, <2>8, <3>1 DEF ThemeFiles!Answer
  <2> QED  BY <2>7, <2>8
<1> QED  BY <1>5, <1>6, <1>7

-----------------------------------------------------------------------------
(***************************************************************************)
(* Network patterns.  A suffix, position by position.                      *)
(***************************************************************************)
LEMMA SuffixMeans ==
  ASSUME NEW S, NEW s \in Seq(S), NEW t \in Seq(S)
  PROVE  Policy!IsSuffix(s, t) <=>
           Len(s) <= Len(t) /\ \A i \in 1..Len(s) : s[i] = t[Len(t) - Len(s) + i]
<1> DEFINE rs == Policy!Reverse(s)
           rt == Policy!Reverse(t)
<1>1. /\ rs = [i \in 1..Len(s) |-> s[(Len(s) - i) + 1]] /\ Len(s) \in Nat
      /\ rt = [i \in 1..Len(t) |-> t[(Len(t) - i) + 1]] /\ Len(t) \in Nat
  BY DEF Policy!Reverse
<1>2. /\ Len(rs) = Len(s) /\ Len(rt) = Len(t)
      /\ \A i \in 1..Len(s) : rs[i] = s[(Len(s) - i) + 1]
      /\ \A i \in 1..Len(t) : rt[i] = t[(Len(t) - i) + 1]
  BY <1>1
<1>3. Policy!IsSuffix(s, t) <=>
        Len(rs) <= Len(rt) /\ SubSeq(rs, 1, Len(rs)) = SubSeq(rt, 1, Len(rs))
  BY DEF Policy!IsSuffix, Policy!IsPrefix
<1>4. rs \in Seq(S) /\ rt \in Seq(S)
  <2>1. ASSUME NEW u \in Seq(S) PROVE [i \in 1..Len(u) |-> u[(Len(u) - i) + 1]] \in Seq(S)
    <3>1. \A i \in 1..Len(u) : (Len(u) - i) + 1 \in 1..Len(u)
      OBVIOUS
    <3> QED  BY <3>1
  <2> QED  BY <1>1, <2>1
<1> HIDE DEF rs, rt
<1>5. Len(s) <= Len(t) =>
        (SubSeq(rs, 1, Len(s)) = SubSeq(rt, 1, Len(s)) <=> \A i \in 1..Len(s) : rs[i] = rt[i])
  <2> SUFFICES ASSUME Len(s) <= Len(t)
               PROVE  SubSeq(rs, 1, Len(s)) = SubSeq(rt, 1, Len(s)) <=>
                        \A i \in 1..Len(s) : rs[i] = rt[i]
    OBVIOUS
  <2> DEFINE cs == SubSeq(rs, 1, Len(s))
             ct == SubSeq(rt, 1, Len(s))
  <2>1. /\ cs \in Seq(S) /\ ct \in Seq(S) /\ Len(cs) = Len(s) /\ Len(ct) = Len(s)
        /\ \A i \in 1..Len(s) : cs[i] = rs[i] /\ ct[i] = rt[i]
    BY <1>1, <1>2, <1>4
  <2> HIDE DEF cs, ct
  <2>2. cs = ct <=> \A i \in 1..Len(s) : cs[i] = ct[i]
    BY <2>1
  <2>3. cs = ct <=> \A i \in 1..Len(s) : rs[i] = rt[i]
    BY <2>1, <2>2
  <2> QED  BY <2>3 DEF cs, ct
<1>6. Len(s) <= Len(t) =>
        ((\A i \in 1..Len(s) : rs[i] = rt[i]) <=>
           \A i \in 1..Len(s) : s[i] = t[Len(t) - Len(s) + i])
  <2> SUFFICES ASSUME Len(s) <= Len(t)
               PROVE  (\A i \in 1..Len(s) : rs[i] = rt[i]) <=>
                        \A i \in 1..Len(s) : s[i] = t[Len(t) - Len(s) + i]
    OBVIOUS
  <2>1. \A i \in 1..Len(s) : /\ (Len(s) - i) + 1 \in 1..Len(s)
                             /\ i \in 1..Len(t)
                             /\ (Len(s) - ((Len(s) - i) + 1)) + 1 = i
                             /\ Len(t) - Len(s) + ((Len(s) - i) + 1) = (Len(t) - i) + 1
                             /\ (Len(t) - ((Len(s) - i) + 1)) + 1 = Len(t) - Len(s) + i
    BY <1>1
  <2>2. ASSUME \A i \in 1..Len(s) : rs[i] = rt[i], NEW i \in 1..Len(s)
        PROVE  s[i] = t[Len(t) - Len(s) + i]
    <3> DEFINE j == (Len(s) - i) + 1
    <3>1. j \in 1..Len(s) /\ j \in 1..Len(t)
      BY <2>1
    <3>2. rs[j] = s[(Len(s) - j) + 1] /\ rt[j] = t[(Len(t) - j) + 1] /\ rs[j] = rt[j]
      BY <1>2, <2>2, <3>1
    <3> QED  BY <2>1, <3>2
  <2>3. ASSUME \A i \in 1..Len(s) : s[i] = t[Len(t) - Len(s) + i], NEW i \in 1..Len(s)
        PROVE  rs[i] = rt[i]
    <3> DEFINE j == (Len(s) - i) + 1
    <3>1. j \in 1..Len(s) /\ Len(t) - Len(s) + j = (Len(t) - i) + 1 /\ i \in 1..Len(t)
      BY <2>1
    <3>2. s[j] = t[Len(t) - Len(s) + j]
      BY <2>3, <3>1
    <3> QED  BY <1>2, <3>1, <3>2
  <2> QED  BY <2>2, <2>3
<1> QED  BY <1>2, <1>3, <1>5, <1>6

(***************************************************************************)
(* An element in front of a sequence, or of the rest of one.               *)
(***************************************************************************)
LEMMA InFront ==
  ASSUME NEW S, NEW x, NEW u \in Seq(S)
  PROVE  /\ Len(<<x>> \o u) = Len(u) + 1 /\ (<<x>> \o u)[1] = x
         /\ DOMAIN (<<x>> \o u) = 1..(Len(u) + 1)
         /\ \A k \in 2..(Len(u) + 1) : (<<x>> \o u)[k] = u[k - 1]
         /\ x \in S => <<x>> \o u \in Seq(S)
<1> DEFINE T == S \cup {x}
<1>1. <<x>> \in Seq(T) /\ u \in Seq(T) /\ Len(<<x>>) = 1 /\ <<x>>[1] = x /\ Len(u) \in Nat
  OBVIOUS
<1>2. /\ <<x>> \o u \in Seq(T) /\ Len(<<x>> \o u) = 1 + Len(u)
      /\ \A i \in 1..(1 + Len(u)) :
           (<<x>> \o u)[i] = IF i <= 1 THEN <<x>>[i] ELSE u[i - 1]
  <2> HIDE DEF T
  <2> QED  BY <1>1, ConcatProperties
<1>3. x \in S => T = S
  OBVIOUS
<1> HIDE DEF T
<1> QED  BY <1>1, <1>2, <1>3

LEMMA RestOf ==
  ASSUME NEW S, NEW u \in Seq(S), NEW i \in 1..(Len(u) + 1)
  PROVE  /\ SubSeq(u, i, Len(u)) \in Seq(S) /\ Len(SubSeq(u, i, Len(u))) = Len(u) - i + 1
         /\ \A k \in 1..(Len(u) - i + 1) : SubSeq(u, i, Len(u))[k] = u[i + k - 1]
<1>1. Len(u) \in Nat /\ i \in Int /\ Len(u) \in Int /\ i \in Nat
  OBVIOUS
<1>2. \A k \in i..Len(u) : u[k] \in S
  OBVIOUS
<1>3. /\ SubSeq(u, i, Len(u)) \in Seq(S)
      /\ Len(SubSeq(u, i, Len(u))) = IF i <= Len(u) THEN Len(u) - i + 1 ELSE 0
      /\ \A k \in 1..(Len(u) - i + 1) : SubSeq(u, i, Len(u))[k] = u[i + k - 1]
  BY <1>1, <1>2, SubSeqProperties
<1> QED  BY <1>1, <1>3

LEMMA InFrontOfRest ==
  ASSUME NEW S, NEW x, NEW u \in Seq(S), NEW i \in 1..(Len(u) + 1),
         NEW r, r = <<x>> \o SubSeq(u, i, Len(u))
  PROVE  /\ Len(r) = Len(u) - i + 2 /\ r[1] = x /\ DOMAIN r = 1..Len(r)
         /\ \A k \in 2..Len(r) : r[k] = u[i + k - 2]
         /\ x \in S => r \in Seq(S)
<1> DEFINE rest == SubSeq(u, i, Len(u))
<1>1. /\ rest \in Seq(S) /\ Len(rest) = Len(u) - i + 1
      /\ \A k \in 1..(Len(u) - i + 1) : rest[k] = u[i + k - 1]
  BY RestOf
<1> HIDE DEF rest
<1>2. /\ Len(r) = Len(rest) + 1 /\ r[1] = x /\ DOMAIN r = 1..(Len(rest) + 1)
      /\ \A k \in 2..(Len(rest) + 1) : r[k] = rest[k - 1]
      /\ x \in S => r \in Seq(S)
  BY <1>1, InFront DEF rest
<1>3. Len(u) \in Nat /\ i \in Nat /\ i <= Len(u) + 1
  OBVIOUS
<1>4. ASSUME NEW k \in 2..Len(r) PROVE r[k] = u[i + k - 2]
  <2>1. k - 1 \in 1..(Len(u) - i + 1) /\ i + (k - 1) - 1 = i + k - 2 /\ k \in 2..(Len(rest) + 1)
    BY <1>1, <1>2, <1>3
  <2> QED  BY <1>1, <1>2, <2>1
<1> QED  BY <1>1, <1>2, <1>3, <1>4

(***************************************************************************)
(* What the host's part of a pattern lets through.                         *)
(***************************************************************************)
Lets(parsed, host) ==
  /\ parsed.kind # "error"
  /\ \/ parsed.kind = "Any"
     \/ parsed.kind = "Exact" /\ parsed.is = host
     \/ parsed.kind = "Suffix" /\ Policy!IsStrictSuffix(<<".">> \o parsed.is, host)

LEMMA HostMeans ==
  ASSUME NEW S, NEW text \in Seq(S), NEW host \in Seq(S), Len(host) # 0,
         \A i \in DOMAIN host : host[i] # "*"
  PROVE  Lets(Policy!ParseHost(text), host) <=> text \in Policy!HostSpellings(host)
<1> DEFINE tails == {<<"*">> \o SubSeq(host, i, Len(host)) :
                       i \in {j \in 2..(Len(host) - 1) : host[j] = "."}}
           starred == Len(text) >= 2 /\ text[1] = "*" /\ text[2] = "."
           parsed == Policy!ParseHost(text)
<1>1. Policy!HostSpellings(host) = {host, <<"*">>} \cup tails
  BY DEF Policy!HostSpellings
<1>2. /\ Len(text) \in Nat /\ DOMAIN text = 1..Len(text)
      /\ Len(host) \in Nat /\ DOMAIN host = 1..Len(host) /\ 1 \in DOMAIN host /\ host[1] # "*"
  OBVIOUS
<1>3. Policy!IsPrefix(<<"*", ".">>, text) <=> starred
  <2> DEFINE mark == <<"*", ".">>
             T == S \cup {"*", "."}
             both(u) == SubSeq(u, 1, 2)
  <2>1. mark \in Seq(T) /\ text \in Seq(T) /\ Len(mark) = 2 /\ mark[1] = "*" /\ mark[2] = "."
    OBVIOUS
  <2>2. ASSUME NEW u \in Seq(T), Len(u) >= 2
        PROVE  both(u) \in Seq(T) /\ Len(both(u)) = 2 /\ both(u)[1] = u[1] /\ both(u)[2] = u[2]
    <3>1. \A i \in 1..2 : u[i] \in T
      BY <2>2
    <3> HIDE DEF T
    <3>2. /\ SubSeq(u, 1, 2) \in Seq(T) /\ Len(SubSeq(u, 1, 2)) = 2 - 1 + 1
          /\ \A i \in 1..(2 - 1 + 1) : SubSeq(u, 1, 2)[i] = u[1 + i - 1]
      BY <3>1, SubSeqProperties
    <3>3. 1 \in 1..(2 - 1 + 1) /\ 2 \in 1..(2 - 1 + 1)
      OBVIOUS
    <3>4. SubSeq(u, 1, 2)[1] = u[1 + 1 - 1] /\ SubSeq(u, 1, 2)[2] = u[1 + 2 - 1]
      BY <3>2, <3>3
    <3> QED  BY <3>2, <3>4
  <2>3. Policy!IsPrefix(mark, text) <=> 2 <= Len(text) /\ both(mark) = both(text)
    BY <2>1 DEF Policy!IsPrefix
  <2>4. /\ both(mark) \in Seq(T) /\ Len(both(mark)) = 2
        /\ both(mark)[1] = "*" /\ both(mark)[2] = "."
    BY <2>1, <2>2
  <2>5. Len(text) >= 2 => /\ both(text) \in Seq(T) /\ Len(both(text)) = 2
                          /\ both(text)[1] = text[1] /\ both(text)[2] = text[2]
    BY <2>1, <2>2
  <2> HIDE DEF both, mark, T
  <2>6. Len(text) >= 2 => (both(mark) = both(text) <=> starred)
    <3> SUFFICES ASSUME Len(text) >= 2 PROVE both(mark) = both(text) <=> starred
      OBVIOUS
    <3>1. ASSUME starred PROVE both(mark) = both(text)
      <4>1. \A i \in 1..2 : both(mark)[i] = both(text)[i]
        BY <2>4, <2>5, <3>1
      <4> QED  BY <2>4, <2>5, <4>1, SeqEqual
    <3> QED  BY <2>4, <2>5, <3>1
  <2> QED  BY <1>2, <2>3, <2>6 DEF mark
<1>4. \A tail \in tails : Len(tail) >= 3 /\ tail[1] = "*" /\ tail[2] = "."
  <2>1. ASSUME NEW i \in 2..(Len(host) - 1), host[i] = "."
        PROVE  LET tail == <<"*">> \o SubSeq(host, i, Len(host))
               IN  Len(tail) >= 3 /\ tail[1] = "*" /\ tail[2] = "."
    <3> DEFINE tail == <<"*">> \o SubSeq(host, i, Len(host))
    <3>1. i \in 1..(Len(host) + 1) /\ Len(host) - i + 2 >= 3
      BY <1>2
    <3>2. /\ Len(tail) = Len(host) - i + 2 /\ tail[1] = "*"
          /\ \A k \in 2..Len(tail) : tail[k] = host[i + k - 2]
      BY <3>1, InFrontOfRest
    <3> HIDE DEF tail
    <3>3. 2 \in 2..Len(tail) /\ i + 2 - 2 = i
      BY <1>2, <3>1, <3>2
    <3>4. tail[2] = "."
      BY <2>1, <3>2, <3>3
    <3> QED  BY <3>1, <3>2, <3>4 DEF tail
  <2> QED  BY <2>1
<1>5. CASE text = <<"*">>
  <2>1. parsed.kind = "Any"
    BY <1>5 DEF Policy!ParseHost
  <2> QED  BY <1>1, <1>5, <2>1 DEF Lets
<1>6. CASE text # <<"*">> /\ ~starred
  <2>1. parsed = [kind |-> IF text = <<>> THEN "error" ELSE "Exact", is |-> text]
    BY <1>3, <1>6 DEF Policy!ParseHost
  <2>2. text \notin tails
    BY <1>4, <1>6
  <2>3. text = <<>> => text # host
    BY <1>2
  <2>4. Lets(parsed, host) <=> text = host
    BY <2>1, <2>3 DEF Lets
  <2> HIDE DEF tails
  <2> QED  BY <1>1, <1>6, <2>2, <2>4
<1>7. CASE text # <<"*">> /\ starred
  <2> DEFINE t == <<".">> \o SubSeq(text, 3, Len(text))
  <2>1. parsed = [kind |-> IF Len(text) = 2 THEN "error" ELSE "Suffix",
                  is |-> SubSeq(text, 3, Len(text))]
    BY <1>3, <1>7 DEF Policy!ParseHost
  <2>2. Lets(parsed, host) <=> Len(text) # 2 /\ Policy!IsSuffix(t, host) /\ t # host
    BY <2>1 DEF Lets, Policy!IsStrictSuffix
  <2>3. /\ t \in Seq(S) /\ Len(t) = Len(text) - 1 /\ DOMAIN t = 1..Len(t)
        /\ \A i \in 1..Len(t) : t[i] = text[i + 1]
    <3>1. 3 \in 1..(Len(text) + 1) /\ "." \in S /\ t = <<".">> \o SubSeq(text, 3, Len(text))
      BY <1>2, <1>7
    <3> HIDE DEF t
    <3>2. /\ Len(t) = Len(text) - 3 + 2 /\ t[1] = "." /\ DOMAIN t = 1..Len(t) /\ t \in Seq(S)
          /\ \A k \in 2..Len(t) : t[k] = text[3 + k - 2]
      <4>1. PICK i \in 1..(Len(text) + 1) : i = 3
        BY <3>1
      <4>2. t = <<".">> \o SubSeq(text, i, Len(text))
        BY <3>1, <4>1
      <4>3. /\ Len(t) = Len(text) - i + 2 /\ t[1] = "." /\ DOMAIN t = 1..Len(t)
            /\ \A k \in 2..Len(t) : t[k] = text[i + k - 2]
            /\ "." \in S => t \in Seq(S)
        BY <4>2, InFrontOfRest
      <4> QED  BY <3>1, <4>1, <4>3
    <3>3. ASSUME NEW i \in 1..Len(t) PROVE t[i] = text[i + 1]
      <4>1. CASE i = 1
        BY <1>7, <3>2, <4>1
      <4>2. CASE i # 1
        <5>1. i \in 2..Len(t) /\ 3 + i - 2 = i + 1
          BY <1>2, <3>2, <4>2
        <5> QED  BY <3>2, <5>1
      <4> QED  BY <4>1, <4>2
    <3> QED  BY <1>2, <3>2, <3>3
  <2>4. text \notin {host, <<"*">>}
    BY <1>2, <1>7
  <2>5. ASSUME NEW i \in 2..(Len(host) - 1), host[i] = ".",
               text = <<"*">> \o SubSeq(host, i, Len(host))
        PROVE  Len(text) # 2 /\ Policy!IsSuffix(t, host) /\ t # host
    <3>1. /\ Len(text) = Len(host) - i + 2
          /\ \A k \in 2..Len(text) : text[k] = host[i + k - 2]
      <4>1. i \in 1..(Len(host) + 1)
        BY <1>2
      <4> QED  BY <2>5, <4>1, InFrontOfRest
    <3>2. Len(t) = Len(host) - i + 1 /\ Len(t) < Len(host) /\ Len(t) \in Nat /\ Len(text) # 2
      BY <1>2, <2>3, <3>1
    <3> HIDE DEF t, tails, starred, parsed
    <3>3. ASSUME NEW k \in 1..Len(t) PROVE t[k] = host[Len(host) - Len(t) + k]
      <4>1. k + 1 \in 2..Len(text) /\ i + (k + 1) - 2 = Len(host) - Len(t) + k
        <5>1. k \in Nat /\ 1 <= k /\ k <= Len(t)
          BY <3>2
        <5>2. Len(text) \in Nat /\ Len(host) \in Nat /\ i \in Nat /\ Len(t) = Len(text) - 1
          BY <1>2, <2>3
        <5>3. Len(t) = Len(host) - i + 1
          BY <3>2
        <5> QED  BY ONLY <5>1, <5>2, <5>3
      <4> QED  BY <2>3, <3>1, <4>1
    <3>4. Policy!IsSuffix(t, host)
      <4>1. t \in Seq(S) /\ host \in Seq(S) /\ Len(t) <= Len(host)
        BY <1>2, <2>3, <3>2
      <4> QED  BY <3>3, <4>1, SuffixMeans
    <3>5. Len(text) # 2 /\ t # host
      BY <1>2, <3>2
    <3> QED  BY <3>4, <3>5
  <2>6. ASSUME Len(text) # 2, Policy!IsSuffix(t, host), t # host
        PROVE  text \in tails
    <3> DEFINE i == Len(host) - Len(t) + 1
    <3> HIDE DEF t, parsed
    <3>1. Len(t) <= Len(host) /\ \A k \in 1..Len(t) : t[k] = host[Len(host) - Len(t) + k]
      BY <2>3, <2>6, SuffixMeans
    <3>2. Len(t) # Len(host)
      <4> SUFFICES ASSUME Len(t) = Len(host) PROVE FALSE
        OBVIOUS
      <4>1. ASSUME NEW k \in 1..Len(t) PROVE t[k] = host[k]
        BY <1>2, <3>1
      <4> QED  BY <1>2, <2>3, <2>6, <4>1
    <3>3. i \in 2..(Len(host) - 1) /\ Len(t) >= 2 /\ Len(t) \in Nat
      <4>1. Len(t) < Len(host) /\ Len(t) >= 2 /\ Len(t) \in Nat
        <5>1. Len(text) \in Nat /\ Len(host) \in Nat /\ Len(text) >= 2 /\ Len(text) # 2
          BY <1>2, <1>7, <2>6
        <5>2. Len(t) = Len(text) - 1 /\ Len(t) <= Len(host) /\ Len(t) # Len(host)
          BY <2>3, <3>1, <3>2
        <5> QED  BY ONLY <5>1, <5>2
      <4> QED  BY <1>2, <4>1
    <3>4. host[i] = "."
      <4>1. 1 \in 1..Len(t) /\ Len(host) - Len(t) + 1 = i /\ t[1] = text[2]
        BY <2>3, <3>3
      <4> QED  BY <1>7, <3>1, <4>1
    <3> DEFINE tail == <<"*">> \o SubSeq(host, i, Len(host))
    <3>5. /\ tail \in Seq(S) /\ Len(tail) = Len(text) /\ tail[1] = "*"
          /\ \A k \in 2..Len(text) : tail[k] = host[i + k - 2]
      <4>1. "*" \in S /\ i \in 1..(Len(host) + 1)
        BY <1>2, <1>7, <3>3
      <4> HIDE DEF i
      <4>2. /\ tail \in Seq(S) /\ Len(tail) = Len(host) - i + 2 /\ tail[1] = "*"
            /\ \A k \in 2..Len(tail) : tail[k] = host[i + k - 2]
        BY <4>1, InFrontOfRest
      <4>3. Len(host) - i + 2 = Len(text)
        BY <1>2, <2>3 DEF i
      <4> QED  BY <4>2, <4>3
    <3> HIDE DEF tail
    <3>6. ASSUME NEW k \in 1..Len(text) PROVE text[k] = tail[k]
      <4>1. CASE k = 1
        BY <1>7, <3>5, <4>1
      <4>2. CASE k # 1
        <5>1. k \in 2..Len(text) /\ k - 1 \in 1..Len(t) /\ (k - 1) + 1 = k
              /\ Len(host) - Len(t) + (k - 1) = i + k - 2
          <6>1. /\ Len(text) \in Nat /\ Len(host) \in Nat /\ Len(t) = Len(text) - 1
                /\ k \in 1..Len(text) /\ i = Len(host) - Len(t) + 1
            BY <1>2, <2>3
          <6> HIDE DEF i
          <6> QED  BY ONLY <4>2, <6>1
        <5> QED  BY <2>3, <3>1, <3>5, <5>1
      <4> QED  BY <4>1, <4>2
    <3>7. text = tail
      BY <1>2, <3>5, <3>6
    <3> QED  BY <3>3, <3>4, <3>7 DEF tail
  <2> HIDE DEF t
  <2>7. text \in tails <=> Len(text) # 2 /\ Policy!IsSuffix(t, host) /\ t # host
    BY <2>5, <2>6
  <2> HIDE DEF tails
  <2> QED  BY <1>1, <2>2, <2>4, <2>7
<1> QED  BY <1>5, <1>6, <1>7

LEMMA SpellingsHaveNoColon ==
  ASSUME NEW S, NEW host \in Seq(S), \A i \in DOMAIN host : host[i] # ":",
         NEW h \in Policy!HostSpellings(host)
  PROVE  h \in Seq(S \cup {"*"}) /\ \A i \in DOMAIN h : h[i] # ":"
<1> DEFINE T == S \cup {"*"}
<1>1. host \in Seq(T) /\ Len(host) \in Nat /\ DOMAIN host = 1..Len(host) /\ "*" \in T
  OBVIOUS
<1>2. \/ h \in {host, <<"*">>}
      \/ \E i \in {j \in 2..(Len(host) - 1) : host[j] = "."} :
           h = <<"*">> \o SubSeq(host, i, Len(host))
  BY DEF Policy!HostSpellings
<1>3. <<"*">> \in Seq(T) /\ \A i \in DOMAIN <<"*">> : <<"*">>[i] # ":"
  OBVIOUS
<1> HIDE DEF T
<1>4. ASSUME NEW i \in 2..(Len(host) - 1), h = <<"*">> \o SubSeq(host, i, Len(host))
      PROVE  h \in Seq(T) /\ \A k \in DOMAIN h : h[k] # ":"
  <2>1. i \in 1..(Len(host) + 1) /\ i \in Nat
    BY <1>1
  <2>2. /\ Len(h) = Len(host) - i + 2 /\ h[1] = "*" /\ DOMAIN h = 1..Len(h)
        /\ \A k \in 2..Len(h) : h[k] = host[i + k - 2]
        /\ "*" \in T => h \in Seq(T)
    BY <1>1, <1>4, <2>1, InFrontOfRest
  <2>3. ASSUME NEW k \in 2..Len(h) PROVE h[k] # ":"
    <3>1. i + k - 2 \in 1..Len(host)
      BY <1>1, <2>1, <2>2
    <3> QED  BY <1>1, <2>2, <3>1
  <2>4. \A k \in DOMAIN h : k = 1 \/ k \in 2..Len(h)
    BY <1>1, <2>1, <2>2
  <2> QED  BY <1>1, <2>2, <2>3, <2>4
<1>5. h \in Seq(T) /\ \A i \in DOMAIN h : h[i] # ":"
  BY <1>1, <1>2, <1>3, <1>4
<1> QED  BY <1>5 DEF T

(***************************************************************************)
(* A text with a colon, and what is before and after its last one.         *)
(***************************************************************************)
LEMMA LastColon ==
  ASSUME NEW S, NEW text \in Seq(S), Policy!Colons(text) # {}
  PROVE  LET C    == Policy!Colons(text)
             rear == CHOOSE i \in C : \A j \in C : j <= i
         IN  rear \in C /\ \A j \in C : j <= rear
<1> DEFINE C == Policy!Colons(text)
           D == {Len(text) - i : i \in C}
<1>1. C \subseteq 1..Len(text) /\ Len(text) \in Nat
  BY DEF Policy!Colons
<1>2. D \in SUBSET Nat /\ D # {}
  BY <1>1
<1>3. PICK d \in D : \A e \in D : d <= e
  <2> HIDE DEF D
  <2> QED  BY <1>2, LeastNumber
<1>4. PICK i \in C : d = Len(text) - i
  BY <1>3
<1>5. ASSUME NEW j \in C PROVE j <= i
  <2>1. Len(text) - i <= Len(text) - j /\ i \in Nat /\ j \in Nat
    BY <1>1, <1>3, <1>4
  <2> QED  BY <1>1, <2>1
<1> HIDE DEF C
<1>6. \E k \in C : \A j \in C : j <= k
  BY <1>5
<1> QED  BY <1>6 DEF C

LEMMA AroundColon ==
  ASSUME NEW S, NEW h \in Seq(S), NEW x, NEW t, t = h \o <<":", x>>
  PROVE  /\ Len(t) = Len(h) + 2 /\ t[Len(h) + 1] = ":" /\ t[Len(h) + 2] = x
         /\ DOMAIN t = 1..(Len(h) + 2)
         /\ \A k \in 1..Len(h) : t[k] = h[k]
         /\ x \in S /\ ":" \in S => t \in Seq(S)
<1> DEFINE T == S \cup {":", x}
           u == <<":", x>>
<1>1. h \in Seq(T) /\ u \in Seq(T) /\ Len(u) = 2 /\ u[1] = ":" /\ u[2] = x /\ Len(h) \in Nat
  OBVIOUS
<1> HIDE DEF u
<1>2. /\ h \o u \in Seq(T) /\ Len(h \o u) = Len(h) + Len(u)
      /\ \A i \in 1..(Len(h) + Len(u)) :
           (h \o u)[i] = IF i <= Len(h) THEN h[i] ELSE u[i - Len(h)]
  <2> HIDE DEF T
  <2> QED  BY <1>1, ConcatProperties
<1>3. t = h \o u
  BY DEF u
<1>4. x \in S /\ ":" \in S => T = S
  OBVIOUS
<1> HIDE DEF T
<1>5. /\ Len(t) = Len(h) + 2 /\ DOMAIN t = 1..(Len(h) + 2)
      /\ \A i \in 1..(Len(h) + 2) : t[i] = IF i <= Len(h) THEN h[i] ELSE u[i - Len(h)]
  BY <1>1, <1>2, <1>3
<1>6. /\ Len(h) + 1 \in 1..(Len(h) + 2) /\ Len(h) + 2 \in 1..(Len(h) + 2)
      /\ (Len(h) + 1) - Len(h) = 1 /\ (Len(h) + 2) - Len(h) = 2
      /\ ~(Len(h) + 1 <= Len(h)) /\ ~(Len(h) + 2 <= Len(h))
      /\ \A k \in 1..Len(h) : k \in 1..(Len(h) + 2) /\ k <= Len(h)
  BY <1>1
<1>7. t[Len(h) + 1] = ":" /\ t[Len(h) + 2] = x
  BY <1>1, <1>5, <1>6
<1>8. \A k \in 1..Len(h) : t[k] = h[k]
  BY <1>5, <1>6
<1> QED  BY <1>2, <1>3, <1>4, <1>5, <1>7, <1>8

(***************************************************************************)
(* Where the last colon is, the text is the join of its parts.             *)
(***************************************************************************)
LEMMA SplitAtLast ==
  ASSUME NEW S, NEW text \in Seq(S), NEW h \in Seq(S), NEW x \in S, x # ":",
         NEW rear \in Policy!Colons(text), \A j \in Policy!Colons(text) : j <= rear
  PROVE  text = h \o <<":", x>> <=>
           SubSeq(text, 1, rear - 1) = h /\ SubSeq(text, rear + 1, Len(text)) = <<x>>
<1> DEFINE before == SubSeq(text, 1, rear - 1)
           after  == SubSeq(text, rear + 1, Len(text))
           joined == h \o <<":", x>>
<1>1. /\ Len(text) \in Nat /\ Len(h) \in Nat /\ rear \in 1..Len(text) /\ text[rear] = ":"
      /\ \A j \in 1..Len(text) : text[j] = ":" => j <= rear
      /\ ":" \in S /\ DOMAIN text = 1..Len(text)
  BY DEF Policy!Colons
<1>2. /\ Len(joined) = Len(h) + 2 /\ joined[Len(h) + 1] = ":" /\ joined[Len(h) + 2] = x
      /\ \A k \in 1..Len(h) : joined[k] = h[k]
      /\ joined \in Seq(S)
  BY <1>1, AroundColon
<1>3. /\ before \in Seq(S) /\ Len(before) = rear - 1
      /\ \A k \in 1..(rear - 1) : before[k] = text[k]
  <2>1. /\ SubSeq(text, 1, rear - 1) \in Seq(S)
        /\ Len(SubSeq(text, 1, rear - 1)) = IF 1 <= rear - 1 THEN rear - 1 - 1 + 1 ELSE 0
        /\ \A k \in 1..(rear - 1 - 1 + 1) : SubSeq(text, 1, rear - 1)[k] = text[1 + k - 1]
    <3>1. \A k \in 1..(rear - 1) : text[k] \in S
      BY <1>1
    <3>2. 1 \in Int /\ rear - 1 \in Int
      BY <1>1
    <3> QED  BY <3>1, <3>2, SubSeqProperties
  <2>2. rear - 1 - 1 + 1 = rear - 1 /\ \A k \in 1..(rear - 1) : 1 + k - 1 = k
    BY <1>1
  <2> QED  BY <1>1, <2>1, <2>2
<1>4. /\ after \in Seq(S) /\ Len(after) = Len(text) - rear
      /\ \A k \in 1..(Len(text) - rear) : after[k] = text[rear + k]
  <2>1. PICK i \in 1..(Len(text) + 1) : i = rear + 1
    BY <1>1
  <2>2. /\ SubSeq(text, i, Len(text)) \in Seq(S)
        /\ Len(SubSeq(text, i, Len(text))) = Len(text) - i + 1
        /\ \A k \in 1..(Len(text) - i + 1) : SubSeq(text, i, Len(text))[k] = text[i + k - 1]
    BY RestOf
  <2>3. after = SubSeq(text, i, Len(text))
    BY <2>1
  <2>4. /\ Len(text) - i + 1 = Len(text) - rear
        /\ \A k \in 1..(Len(text) - rear) : i + k - 1 = rear + k
    BY <1>1, <2>1
  <2> HIDE DEF after
  <2> QED  BY <2>2, <2>3, <2>4
<1> HIDE DEF before, after, joined
<1>5. ASSUME text = joined PROVE before = h /\ after = <<x>>
  <2>1. rear = Len(h) + 1
    <3>1. Len(text) = Len(h) + 2 /\ Len(h) + 1 \in 1..Len(text) /\ text[Len(h) + 1] = ":"
          /\ text[Len(h) + 2] # ":"
      <4>1. Len(text) = Len(h) + 2 /\ text[Len(h) + 1] = ":" /\ text[Len(h) + 2] = x
        BY <1>2, <1>5, Zenon
      <4> QED  BY <1>1, <4>1
    <3>2. Len(h) + 1 <= rear /\ rear <= Len(h) + 2 /\ rear # Len(h) + 2
      BY <1>1, <3>1
    <3> QED  BY <1>1, <3>2
  <2>2. before = h
    <3>1. \A k \in 1..Len(h) : before[k] = h[k]
      BY <1>1, <1>2, <1>3, <1>5, <2>1
    <3>2. Len(before) = Len(h)
      BY <1>1, <1>3, <2>1
    <3> QED  BY <1>3, <3>1, <3>2, SeqEqual
  <2>3. after = <<x>>
    <3>1. Len(after) = 1 /\ after[1] = text[rear + 1]
      <4>1. Len(text) = Len(h) + 2
        BY <1>2, <1>5, Zenon
      <4>2. Len(text) - rear = 1
        BY <1>1, <2>1, <4>1
      <4> QED  BY <1>4, <4>2
    <3>2. text[rear + 1] = x
      <4>1. text[Len(h) + 2] = x
        BY <1>2, <1>5, Zenon
      <4>2. Len(h) + 2 = rear + 1
        BY <1>1, <2>1
      <4> QED  BY <4>1, <4>2
    <3>3. <<x>> \in Seq(S) /\ Len(<<x>>) = 1 /\ <<x>>[1] = x
      OBVIOUS
    <3>4. Len(after) = Len(<<x>>) /\ \A k \in 1..Len(after) : after[k] = <<x>>[k]
      BY <3>1, <3>2, <3>3
    <3> QED  BY <1>4, <3>3, <3>4, SeqEqual
  <2> QED  BY <2>2, <2>3
<1>6. ASSUME before = h, after = <<x>> PROVE text = joined
  <2>1. Len(h) = rear - 1 /\ Len(text) = rear + 1 /\ Len(joined) = Len(text)
    <3>1. Len(<<x>>) = 1
      OBVIOUS
    <3>2. Len(after) = 1
      BY <1>6, <3>1, Zenon
    <3>3. Len(before) = Len(h)
      BY <1>6, Zenon
    <3>4. /\ Len(text) \in Nat /\ rear \in Nat /\ Len(before) = rear - 1
          /\ Len(after) = Len(text) - rear /\ Len(joined) = Len(h) + 2
      BY <1>1, <1>2, <1>3, <1>4
    <3>5. Len(h) = rear - 1
      BY <3>3, <3>4, Zenon
    <3>6. 1 = Len(text) - rear
      BY <3>2, <3>4, Zenon
    <3>7. Len(text) = rear + 1
      BY ONLY <3>4, <3>6
    <3>8. Len(joined) = rear + 1
      BY ONLY <3>4, <3>5
    <3> QED  BY <3>5, <3>7, <3>8
  <2>2. text[rear + 1] = x
    <3>1. after[1] = text[rear + 1]
      BY <1>1, <1>4, <2>1
    <3>2. after[1] = x
      BY <1>6
    <3> QED  BY <3>1, <3>2
  <2>3. ASSUME NEW k \in 1..Len(text) PROVE text[k] = joined[k]
    <3>1. k \in 1..(rear - 1) \/ k = rear \/ k = rear + 1
      BY <1>1, <2>1
    <3>2. CASE k \in 1..(rear - 1)
      BY <1>2, <1>3, <1>6, <2>1, <3>2
    <3>3. CASE k = rear
      BY <1>1, <1>2, <2>1, <3>3
    <3>4. CASE k = rear + 1
      BY <1>1, <1>2, <2>1, <2>2, <3>4
    <3> QED  BY <3>1, <3>2, <3>3, <3>4
  <2> QED  BY <1>2, <2>1, <2>3, SeqEqual
<1> QED  BY <1>5, <1>6 DEF before, after, joined

(***************************************************************************)
(* A pattern lets through exactly what it spells.                          *)
(***************************************************************************)
THEOREM PatternsMeanWhatTheySay ==
  ASSUME NEW S, NEW text \in Seq(S), NEW host \in Seq(S), Len(host) # 0,
         \A i \in DOMAIN host : host[i] \notin {"*", ":"},
         NEW port \in Port, Port \cap {"Any", "error", "*", ":"} = {}
  PROVE  Policy!MeansItsSpellings(text, host, port)
<1> DEFINE parsed == Policy!Parse(text)
           lets   == Policy!IsPattern(parsed) /\ Policy!Matches(parsed, host, port)
           spells == text \in Policy!Spellings(host, port)
           T      == S \cup {"*", ":", port}
           C      == Policy!Colons(text)
<1>1. text \in Seq(T) /\ host \in Seq(T) /\ port # ":" /\ port \notin {"Any", "error", "*"}
  OBVIOUS
<1>2. lets <=> /\ Lets(parsed.host, host)
               /\ parsed.port # "error" /\ parsed.port \in {"Any", port}
  BY DEF Lets, Policy!IsPattern, Policy!Matches
<1>3. spells <=> \E h \in Policy!HostSpellings(host) :
                   text = h \/ \E x \in {"*", port} : text = h \o <<":", x>>
  <2> DEFINE of(h) == {h, h \o <<":", "*">>, h \o <<":", port>>}
  <2>1. \A h : text \in of(h) <=> text = h \/ \E x \in {"*", port} : text = h \o <<":", x>>
    OBVIOUS
  <2>2. spells <=> text \in UNION {of(h) : h \in Policy!HostSpellings(host)}
    BY DEF Policy!Spellings
  <2> HIDE DEF of, spells
  <2> QED  BY <2>1, <2>2
<1>4. \A h \in Policy!HostSpellings(host) : h \in Seq(T) /\ \A i \in DOMAIN h : h[i] # ":"
  <2>1. ASSUME NEW h \in Policy!HostSpellings(host)
        PROVE  h \in Seq(T) /\ \A i \in DOMAIN h : h[i] # ":"
    <3>1. h \in Seq(T \cup {"*"}) /\ \A i \in DOMAIN h : h[i] # ":"
      <4> HIDE DEF T
      <4> QED  BY <1>1, SpellingsHaveNoColon
    <3>2. T \cup {"*"} = T
      OBVIOUS
    <3> QED  BY <3>1, <3>2
  <2> QED  BY <2>1
<1>5. \A u \in Seq(T) : Lets(Policy!ParseHost(u), host) <=> u \in Policy!HostSpellings(host)
  <2> HIDE DEF T
  <2> QED  BY <1>1, HostMeans
<1>6. CASE C = {}
  <2>1. parsed.host = Policy!ParseHost(text) /\ parsed.port = "Any"
    BY <1>6 DEF Policy!Parse
  <2>2. \A i \in DOMAIN text : text[i] # ":"
    BY <1>6 DEF Policy!Colons
  <2>3. ASSUME NEW h \in Policy!HostSpellings(host), NEW x PROVE text # h \o <<":", x>>
    <3> SUFFICES ASSUME text = h \o <<":", x>> PROVE FALSE
      OBVIOUS
    <3>1. text[Len(h) + 1] = ":" /\ DOMAIN text = 1..(Len(h) + 2) /\ Len(h) \in Nat
      <4> HIDE DEF T
      <4> QED  BY <1>4, AroundColon
    <3>2. Len(h) + 1 \in 1..(Len(h) + 2)
      BY ONLY <3>1
    <3>3. Len(h) + 1 \in DOMAIN text
      BY <3>1, <3>2, Zenon
    <3> QED  BY <2>2, <3>1, <3>3, Zenon
  <2>4. spells <=> text \in Policy!HostSpellings(host)
    BY <1>3, <2>3
  <2> HIDE DEF lets, spells, parsed, T
  <2>5. lets <=> spells
    BY <1>1, <1>2, <1>5, <2>1, <2>4
  <2> QED  BY <2>5 DEF lets, spells, parsed, Policy!MeansItsSpellings
<1>7. CASE C # {}
  <2> DEFINE rear   == CHOOSE i \in C : \A j \in C : j <= i
             before == SubSeq(text, 1, rear - 1)
             after  == SubSeq(text, rear + 1, Len(text))
  <2>1. parsed.host = Policy!ParseHost(before) /\ parsed.port = Policy!ParsePort(after)
    BY <1>7 DEF Policy!Parse
  <2>2. rear \in C /\ \A j \in C : j <= rear
    BY <1>7, LastColon
  <2> HIDE DEF rear
  <2>3. rear \in 1..Len(text) /\ text[rear] = ":" /\ Len(text) \in Nat
    BY <2>2 DEF Policy!Colons
  <2>4. /\ before \in Seq(T)
        /\ after \in Seq(T)
    <3>1. \A k \in 1..(rear - 1) : text[k] \in T
      BY <2>3
    <3>2. \A k \in (rear + 1)..Len(text) : text[k] \in T
      BY <2>3
    <3>3. 1 \in Int /\ rear - 1 \in Int /\ rear + 1 \in Int /\ Len(text) \in Int
      BY <2>3
    <3> HIDE DEF T
    <3> QED  BY <3>1, <3>2, <3>3, SubSeqProperties
  <2>5. \A h \in Seq(T), x \in {"*", port} :
          text = h \o <<":", x>> <=> before = h /\ after = <<x>>
    <3>1. ASSUME NEW h \in Seq(T), NEW x \in T, x # ":"
          PROVE  text = h \o <<":", x>> <=> before = h /\ after = <<x>>
      <4> HIDE DEF T
      <4> QED  BY <1>1, <2>2, <3>1, SplitAtLast, SMTT(30)
    <3>2. "*" \in T /\ port \in T
      OBVIOUS
    <3> HIDE DEF T, before, after
    <3> QED  BY <1>1, <3>1, <3>2
  <2>6. \A h \in Policy!HostSpellings(host) : text # h
    BY <1>4, <2>3
  <2> HIDE DEF T, before, after
  <2>7. spells <=> before \in Policy!HostSpellings(host) /\ \E x \in {"*", port} : after = <<x>>
    <3> HIDE DEF spells
    <3> QED  BY <1>3, <1>4, <2>5, <2>6
  <2>8. /\ Policy!ParsePort(after) # "error" /\ Policy!ParsePort(after) \in {"Any", port}
        <=> \E x \in {"*", port} : after = <<x>>
    <3>1. after = <<"*">> => Policy!ParsePort(after) = "Any"
      BY DEF Policy!ParsePort
    <3>2. after = <<port>> => Len(after) = 1 /\ after[1] = port /\ after # <<"*">>
      BY <1>1
    <3>3. Len(after) = 1 /\ after[1] = port => after = <<port>>
      BY <2>4
    <3>4. after # <<"*">> =>
            Policy!ParsePort(after) =
              IF Len(after) = 1 /\ after[1] \in Port THEN after[1] ELSE "error"
      BY DEF Policy!ParsePort
    <3>5. "Any" \notin Port /\ "error" \notin Port
      OBVIOUS
    <3> QED  BY <1>1, <3>1, <3>2, <3>3, <3>4, <3>5
  <2> HIDE DEF lets, spells, parsed
  <2>9. lets <=> spells
    BY <1>2, <1>5, <2>1, <2>4, <2>7, <2>8
  <2> QED  BY <2>9 DEF lets, spells, parsed, Policy!MeansItsSpellings
<1> QED  BY <1>6, <1>7

(***************************************************************************)
(* A more trusting mode asks no more often.                                *)
(***************************************************************************)
THEOREM TrustIsMonotone ==
  ASSUME NEW class \in Policy!SafetyClass, NEW op \in Policy!Operation
  PROVE  /\ Policy!TrustIsMonotone("Guarded", "Fast", class, op)
         /\ Policy!TrustIsMonotone("Fast", "Yolo", class, op)
<1> DEFINE S(level) == Policy!Strictness(level)
<1>1. /\ S("Allow") = 0 /\ S("RequireApproval") = 1
      /\ S("Never") = 0 /\ S("OnDestructive") = 1 /\ S("Always") = 2
  BY DEF Policy!Strictness
<1>2. /\ Policy!FromTrustMode("Guarded")[op] \in {"Allow", "RequireApproval"}
      /\ Policy!FromTrustMode("Guarded")[op] = "Allow" => Policy!FromTrustMode("Fast")[op] = "Allow"
      /\ Policy!FromTrustMode("Fast")[op] \in {"Allow", "RequireApproval"}
      /\ Policy!FromTrustMode("Yolo")[op] = "Allow"
  BY DEF Policy!FromTrustMode, Policy!Operation
<1>3. /\ Policy!ApprovalFor("Yolo", class) = "Never"
      /\ Policy!ApprovalFor("Guarded", class) = IF class = "Safe" THEN "OnDestructive" ELSE "Always"
      /\ Policy!ApprovalFor("Fast", class) =
           IF class = "Safe" THEN "Never"
           ELSE IF class = "RequiresApproval" THEN "OnDestructive" ELSE "Always"
  BY DEF Policy!ApprovalFor, Policy!SafetyClass
<1> HIDE DEF S
<1> QED  BY <1>1, <1>2, <1>3 DEF Policy!TrustIsMonotone, S

-----------------------------------------------------------------------------
(***************************************************************************)
(* The command registry.  What a command's hint shows is read back as the  *)
(* command's key, so the invariant needs to say of an entry only that its  *)
(* key, if any, is a binding that was read from a text.                    *)
(***************************************************************************)
LEMMA SameKeys ==
  /\ \A text : Commands!Keys!Parse(text) = Keys!Parse(text)
  /\ \A binding : Commands!Keys!Display(binding) = Keys!Display(binding)
<1>1. \A segment : /\ Commands!Keys!FlagsOf(segment) = Keys!FlagsOf(segment)
                   /\ Commands!Keys!ParseKey(segment) = Keys!ParseKey(segment)
  BY DEF Commands!Keys!FlagsOf, Keys!FlagsOf, Commands!Keys!Flags, Keys!Flags,
     Commands!Keys!ModifierNames, Keys!ModifierNames, Commands!Keys!ParseKey, Keys!ParseKey,
     Commands!Keys!NamesOf, Keys!NamesOf, Commands!Keys!KeyNames, Keys!KeyNames,
     Commands!Keys!Key, Keys!Key, Commands!Keys!NoKey, Keys!NoKey
<1>2. \A text, i : Commands!Keys!Repeats(text, i) <=> Keys!Repeats(text, i)
  BY <1>1 DEF Commands!Keys!Repeats, Keys!Repeats
<1>3. \A text : Commands!Keys!Parse(text) = Keys!Parse(text)
  BY <1>1, <1>2, ZenonT(60) DEF Commands!Keys!Parse, Keys!Parse, Commands!Keys!Blank, Keys!Blank,
     Commands!Keys!Error, Keys!Error, Commands!Keys!Binding, Keys!Binding,
     Commands!Keys!NoKey, Keys!NoKey, Commands!Keys!Key, Keys!Key, Commands!Keys!ToSet, Keys!ToSet
<1>4. \A binding : Commands!Keys!Display(binding) = Keys!Display(binding)
  BY DEF Commands!Keys!Display, Keys!Display, Commands!Keys!Shown, Keys!Shown,
     Commands!Keys!CanonicalToken, Keys!CanonicalToken
<1> QED  BY <1>3, <1>4

LEMMA BoundReadsBack ==
  ASSUME NEW binding \in Commands!Bindings
  PROVE  Commands!Keys!Parse(Commands!Keys!Display(binding)) = binding
<1>1. PICK text \in UNION Texts : binding = Keys!Parse(text)
  BY SameKeys DEF Commands!Bindings
<1>2. text \in Seq(STRING) /\ Len(text) # 0 /\ Keys!Parse(text).error = "none"
  BY TextAssumption
<1>3. Keys!ReadsBack(text)
  BY <1>2, TextAssumption, BindingsReadBack
<1>4. Keys!Parse(Keys!Display(binding)) = binding
  BY <1>1, <1>2, <1>3 DEF Keys!ReadsBack
<1> QED  BY <1>4, SameKeys

EntryInv ==
  /\ DOMAIN entries = CommandId
  /\ \A id \in CommandId : \A binding \in entries[id].keys :
       binding \in Commands!Bindings /\ entries[id].keys = {binding}

LEMMA CommandsStep == [DesktopNext]_allVars => [Commands!Next]_commandVars
  BY DEF DesktopNext, allVars

LEMMA EntriesBound == DesktopSpec => []EntryInv
<1>1. DesktopInit => EntryInv
  BY DEF DesktopInit, Commands!Init, Commands!Unregistered, EntryInv
<1>2. ASSUME EntryInv, [DesktopNext]_allVars PROVE EntryInv'
  <2>1. ASSUME NEW id \in CommandId, NEW text \in Texts, NEW scope \in CommandScopes,
               NEW handler \in Handler, Commands!Register(id, text, scope, handler)
        PROVE  EntryInv'
    <3> DEFINE keys == {Commands!Keys!Parse(t) : t \in text}
    <3>1. \A binding \in keys : binding \in Commands!Bindings /\ keys = {binding}
      <4>1. \A t \in text : text = {t} /\ t \in UNION Texts /\ Keys!Parse(t).error = "none"
        BY TextAssumption
      <4>2. \A t \in text : Commands!Keys!Parse(t).error = "none"
        BY <4>1, SameKeys
      <4>3. \A t \in text : Commands!Keys!Parse(t) \in Commands!Bindings
        BY <4>1, <4>2 DEF Commands!Bindings
      <4> QED  BY <4>1, <4>3
    <3> HIDE DEF keys
    <3>2. /\ DOMAIN entries' = DOMAIN entries /\ entries'[id].keys = keys
          /\ \A other \in CommandId \ {id} : entries'[other] = entries[other]
      BY <1>2, <2>1 DEF Commands!Register, EntryInv, keys
    <3> QED  BY <1>2, <3>1, <3>2 DEF EntryInv
  <2>2. ASSUME NEW id \in CommandId, Commands!Unregister(id) PROVE EntryInv'
    <3>1. /\ DOMAIN entries' = DOMAIN entries /\ entries'[id].keys = {}
          /\ \A other \in CommandId \ {id} : entries'[other] = entries[other]
      BY <1>2, <2>2 DEF Commands!Unregister, Commands!Unregistered, EntryInv
    <3> QED  BY <1>2, <3>1 DEF EntryInv
  <2>3. ASSUME entries' = entries PROVE EntryInv'
    BY <1>2, <2>3 DEF EntryInv
  <2>4. ASSUME NEW binding \in Commands!Bindings, NEW filter \in Filters,
               Commands!Press(binding, filter)
        PROVE  entries' = entries
    BY <2>4 DEF Commands!Press
  <2>5. CASE UNCHANGED commandVars
    BY <2>3, <2>5 DEF commandVars
  <2> QED  BY <1>2, <2>1, <2>2, <2>3, <2>4, <2>5, CommandsStep DEF Commands!Next
<1> QED  BY <1>1, <1>2, PTL DEF DesktopSpec

(***************************************************************************)
(* A key press finds the commands whose row shows the key, in scope.       *)
(***************************************************************************)
LEMMA ShownIsFound ==
  ASSUME EntryInv, NEW binding, NEW filter, NEW id \in Commands!Registered
  PROVE  id \in Commands!LookupByKeybinding(binding, filter) <=>
           /\ \E flag \in entries[id].scope : flag \in filter
           /\ binding \in {Commands!Keys!Parse(t) : t \in Commands!Hint(id)}
<1>1. id \in CommandId
  BY DEF Commands!Registered
<1>2. \A b \in entries[id].keys : entries[id].keys = {b}
                                 /\ Commands!Keys!Parse(Commands!Keys!Display(b)) = b
  BY <1>1, BoundReadsBack DEF EntryInv
<1>3. {Commands!Keys!Parse(t) : t \in Commands!Hint(id)} = entries[id].keys
  BY <1>2 DEF Commands!Hint
<1>4. binding \in entries[id].keys <=> entries[id].keys = {binding}
  BY <1>2
<1>5. Commands!Matches(filter, entries[id].scope) <=>
        \E flag \in entries[id].scope : flag \in filter
  BY DEF Commands!Matches
<1> QED  BY <1>3, <1>4, <1>5 DEF Commands!LookupByKeybinding, Commands!ListForScope

(***************************************************************************)
(* The key that a command's row shows runs it, or one with the same hint   *)
(* in the same scope, whatever was registered before.                      *)
(***************************************************************************)
THEOREM HintsCorrect == DesktopSpec => []HintsWork
<1>1. DesktopInit => HintsWork
  BY DEF DesktopInit, Commands!Init, HintsWork, Commands!HintsWork
<1>2. ASSUME EntryInv, HintsWork, [DesktopNext]_allVars PROVE HintsWork'
  <2>1. ASSUME NEW binding \in Commands!Bindings, NEW filter \in Filters,
               Commands!Press(binding, filter)
        PROVE  HintsWork'
    <3> DEFINE found == Commands!LookupByKeybinding(binding, filter)
               shown == {id \in Commands!Registered :
                           /\ \E flag \in entries[id].scope : flag \in filter
                           /\ binding \in {Commands!Keys!Parse(t) : t \in Commands!Hint(id)}}
    <3>1. found = shown
      <4>1. found \subseteq Commands!Registered
        BY DEF Commands!LookupByKeybinding, Commands!ListForScope
      <4> QED  BY <1>2, <4>1, ShownIsFound
    <3>2. entries' = entries
      BY <2>1 DEF Commands!Press
    <3>3. PICK ids \in SUBSET found :
            /\ pressed' = {[binding |-> binding, filter |-> filter, runs |-> ids,
                            handlers |-> {entries[id].handler : id \in ids}]}
            /\ (ids = {} /\ found = {}) \/ \E id \in found : ids = {id}
      <4> HIDE DEF found
      <4> QED  BY <2>1 DEF Commands!Press, found
    <3> SUFFICES ASSUME NEW press \in pressed'
                 PROVE  LET reads(id) == {Commands!Keys!Parse(t) : t \in Commands!Hint(id)}
                            visible == {id \in Commands!Registered :
                                          /\ \E flag \in entries[id].scope : flag \in press.filter
                                          /\ press.binding \in reads(id)}
                        IN /\ press.runs \subseteq visible
                           /\ visible # {} =>
                                press.handlers \in {{entries[id].handler} : id \in visible}
      BY <3>2 DEF HintsWork, Commands!HintsWork, Commands!Registered, Commands!Hint
    <3>4. /\ press.binding = binding /\ press.filter = filter /\ press.runs = ids
          /\ press.handlers = {entries[id].handler : id \in ids}
      BY <3>3
    <3>5. shown # {} => \E id \in shown : ids = {id}
      BY <3>1, <3>3
    <3>6. ids \subseteq shown
      BY <3>1, <3>3
    <3> HIDE DEF shown
    <3>7. shown # {} => press.handlers \in {{entries[id].handler} : id \in shown}
      BY <3>4, <3>5
    <3> QED  BY <3>4, <3>6, <3>7 DEF shown
  <2>2. ASSUME pressed' = {} PROVE HintsWork'
    BY <2>2 DEF HintsWork, Commands!HintsWork
  <2>3. CASE UNCHANGED commandVars
    BY <1>2, <2>3 DEF commandVars, HintsWork, Commands!HintsWork, Commands!Registered, Commands!Hint
  <2>4. ASSUME NEW id \in CommandId, NEW text \in Texts, NEW scope \in CommandScopes,
               NEW handler \in Handler, Commands!Register(id, text, scope, handler)
        PROVE  pressed' = {}
    BY <2>4 DEF Commands!Register
  <2>5. ASSUME NEW id \in CommandId, Commands!Unregister(id) PROVE pressed' = {}
    BY <2>5 DEF Commands!Unregister
  <2> QED  BY <1>2, <2>1, <2>2, <2>3, <2>4, <2>5, CommandsStep DEF Commands!Next
<1> QED  BY <1>1, <1>2, EntriesBound, PTL DEF DesktopSpec

-----------------------------------------------------------------------------
(***************************************************************************)
(* What users write means what it says, whatever they write.               *)
(***************************************************************************)
Asked == \A q \in question : q.kind \in DOMAIN Written /\ q.text \subseteq Written[q.kind]

THEOREM TextsCorrect == DesktopSpec => []TextsMeanWhatTheySay
<1>1. DesktopInit => Asked
  BY DEF DesktopInit, Asked
<1>2. ASSUME Asked, [DesktopNext]_allVars PROVE Asked'
  <2>1. CASE Write
    <3>1. PICK kind \in DOMAIN Written :
            \E text \in Written[kind] : question' = {[kind |-> kind, text |-> {text}]}
      BY <2>1 DEF Write
    <3> QED  BY <3>1 DEF Asked
  <2>2. CASE UNCHANGED question
    BY <1>2, <2>2 DEF Asked
  <2>3. Write \/ UNCHANGED question
    BY <1>2 DEF DesktopNext, allVars
  <2> QED  BY <2>1, <2>2, <2>3
<1>3. ASSUME Asked PROVE TextsMeanWhatTheySay
  <2> SUFFICES ASSUME NEW q \in question, NEW text \in q.text
               PROVE  /\ q.kind = "keys" => Keys!ReadsBack(text)
                      /\ q.kind = "color" => ThemeFiles!ColorsReadBack(text)
                      /\ q.kind = "theme" => ThemeFiles!FaultsAreNamed(text)
                      /\ q.kind = "pattern" =>
                           \A host \in Hosts, port \in Port :
                             Policy!MeansItsSpellings(text, host, port)
                      /\ \A class \in Policy!SafetyClass, op \in Policy!Operation :
                           /\ Policy!TrustIsMonotone("Guarded", "Fast", class, op)
                           /\ Policy!TrustIsMonotone("Fast", "Yolo", class, op)
    BY DEF TextsMeanWhatTheySay
  <2>1. text \in Written[q.kind]
    BY <1>3 DEF Asked
  <2>2. ASSUME q.kind = "keys" PROVE Keys!ReadsBack(text)
    <3>1. text \in Seq(STRING) /\ Len(text) # 0
      BY <2>1, <2>2, TextAssumption
    <3> QED  BY <3>1, TextAssumption, BindingsReadBack
  <2>3. ASSUME q.kind = "color" PROVE ThemeFiles!ColorsReadBack(text)
    BY <2>1, <2>3, TextAssumption, ColorsReadBack
  <2>4. ASSUME q.kind = "theme" PROVE ThemeFiles!FaultsAreNamed(text)
    BY <2>1, <2>4, TextAssumption, FaultsAreNamed
  <2>5. ASSUME q.kind = "pattern", NEW host \in Hosts, NEW port \in Port
        PROVE  Policy!MeansItsSpellings(text, host, port)
    <3>1. /\ text \in Seq(STRING) /\ host \in Seq(STRING) /\ Len(host) # 0
          /\ \A i \in DOMAIN host : host[i] \notin {"*", ":"}
          /\ Port \cap {"Any", "error", "*", ":"} = {}
      BY <2>1, <2>5, TextAssumption
    <3> QED  BY <3>1, PatternsMeanWhatTheySay
  <2> QED  BY <2>2, <2>3, <2>4, <2>5, TrustIsMonotone
<1> QED  BY <1>1, <1>2, <1>3, PTL DEF DesktopSpec

-----------------------------------------------------------------------------

Files_proofs == INSTANCE SettingsStore_proofs WITH
  events <- fileEvents, raced <- overtaken, gap <- loadGap

(***************************************************************************)
(* A step of the shell is a step of a part, or leaves the part alone.      *)
(***************************************************************************)
LEMMA FilesStep == [DesktopNext]_allVars => [Files!Next]_fileVars
  BY DEF DesktopNext, allVars

LEMMA AgentsStep == [DesktopNext]_allVars => [Agents!Next]_(Agents!vars)
  BY DEF DesktopNext, allVars, agentVars, Agents!vars

LEMMA SameFilesNext == Files!Next <=> Files_proofs!Next
  BY DEF
     Files!Tags, Files_proofs!Tags, Files!Settings, Files_proofs!Settings, Files!Default,
     Files_proofs!Default, Files!Toml, Files_proofs!Toml, Files!Absent, Files_proofs!Absent,
     Files!Garbage, Files_proofs!Garbage, Files!Contents, Files_proofs!Contents, Files!Parses,
     Files_proofs!Parses, Files!NewEdit, Files_proofs!NewEdit, Files!IdleReload,
     Files_proofs!IdleReload, Files!InFlight, Files_proofs!InFlight, Files!Running,
     Files_proofs!Running, Files!At, Files_proofs!At, Files!Goto, Files_proofs!Goto,
     Files!Replaced, Files_proofs!Replaced, Files!LoadRead, Files_proofs!LoadRead,
     Files!SpawnWatcher, Files_proofs!SpawnWatcher, Files!Close, Files_proofs!Close,
     Files!EditBegin, Files_proofs!EditBegin, Files!WriteTemp, Files_proofs!WriteTemp,
     Files!Rename, Files_proofs!Rename, Files!SyncDir, Files_proofs!SyncDir, Files!Publish,
     Files_proofs!Publish, Files!EditFails, Files_proofs!EditFails, Files!Cancel,
     Files_proofs!Cancel, Files!OrphanEnds, Files_proofs!OrphanEnds, Files!StartReload,
     Files_proofs!StartReload, Files!ReloadRead, Files_proofs!ReloadRead, Files!Overtake,
     Files_proofs!Overtake, Files!ReloadUnchanged, Files_proofs!ReloadUnchanged,
     Files!ReloadDiffers, Files_proofs!ReloadDiffers, Files!ReloadPublish,
     Files_proofs!ReloadPublish, Files!ExternalWrite, Files_proofs!ExternalWrite,
     Files!ProcessGone, Files_proofs!ProcessGone, Files!Kill, Files_proofs!Kill,
     Files!PowerLoss, Files_proofs!PowerLoss, Files!EditStep, Files_proofs!EditStep,
     Files!DriverStep, Files_proofs!DriverStep, Files!Next, Files_proofs!Next

LEMMA FilesInvariant == DesktopSpec => []Files_proofs!IInv
<1>1. Files_proofs!NoEditIsNone
  BY StoreAssumption DEF Files_proofs!NoEditIsNone
<1>2. ASSUME DesktopInit PROVE Files_proofs!IInv
  <2>1. Files!Init
    BY <1>2 DEF DesktopInit
  <2>2. Files_proofs!Init
    BY <2>1 DEF Files!Init, Files!Absent, Files!Toml, Files!Default, Files!NewEdit,
       Files!IdleReload, Files_proofs!Init, Files_proofs!Absent, Files_proofs!Toml,
       Files_proofs!Default, Files_proofs!NewEdit, Files_proofs!IdleReload
  <2> QED  BY <1>1, <2>2, Files_proofs!InitIInv
<1>3. ASSUME Files_proofs!IInv, [DesktopNext]_allVars PROVE Files_proofs!IInv'
  <2>1. [Files_proofs!Next]_(Files_proofs!vars)
    BY <1>3, FilesStep, SameFilesNext DEF Files_proofs!vars, fileVars
  <2> QED  BY <1>1, <1>3, <2>1, Files_proofs!StepIInv
<1> QED  BY <1>2, <1>3, PTL DEF DesktopSpec

(***************************************************************************)
(* Whatever the store's part goes through, a restart finds a whole file.   *)
(***************************************************************************)
THEOREM RestartCorrect == DesktopSpec => []RestartFindsWholeFile
<1>1. Files_proofs!IInv => RestartFindsWholeFile
  BY Files_proofs!IInvImplies
  DEF RestartFindsWholeFile, Files!RestartFindsWholeFile, Files!Absent, Files!Parses,
      Files_proofs!RestartFindsWholeFile, Files_proofs!Absent, Files_proofs!Parses
<1> QED  BY <1>1, FilesInvariant, PTL

(***************************************************************************)
(* Nothing is published that was not on disk before.                       *)
(***************************************************************************)
THEOREM PublishedCorrect == DesktopSpec => []PublishedWasOnDisk
<1>1. Files_proofs!IInv => PublishedWasOnDisk
  BY Files_proofs!IInvImplies
  DEF PublishedWasOnDisk, Files!PublishedWasOnDisk, Files_proofs!PublishedWasOnDisk
<1> QED  BY <1>1, FilesInvariant, PTL

(***************************************************************************)
(* An acknowledged edit is in the file and, while the store is loaded, in  *)
(* the snapshot, as long as nobody interferes.                             *)
(***************************************************************************)
THEOREM CalmCorrect == DesktopSpec => []CalmEditsSurvive
<1>1. Files_proofs!IInv => CalmEditsSurvive
  BY Files_proofs!IInvImplies
  DEF CalmEditsSurvive, Files!CalmEditsSurvive, Files!At, Files_proofs!CalmEditsSurvive,
      Files_proofs!At
<1> QED  BY <1>1, FilesInvariant, PTL

(***************************************************************************)
(* When no event and no reload is left, the snapshot is the file's.        *)
(***************************************************************************)
THEOREM SnapshotCorrect == DesktopSpec => []SnapshotFresh
<1>1. Files_proofs!IInv => SnapshotFresh
  BY Files_proofs!IInvImplies
  DEF SnapshotFresh, Files!SnapshotFresh, Files!Settled, Files!Parses,
      Files_proofs!SnapshotFresh, Files_proofs!Settled, Files_proofs!Parses
<1> QED  BY <1>1, FilesInvariant, PTL

-----------------------------------------------------------------------------
(***************************************************************************)
(* A loop that is out of turns, tokens or tool calls stays so, for         *)
(* counters of any width and whatever is reported to the ledger.           *)
(***************************************************************************)
THEOREM ExhaustionCorrect == DesktopSpec => ExhaustionSticks
<1>1. Agents!Typed
  BY LedgerAssumption
<1>2. DesktopInit => LedgerInv
  <2>1. DesktopInit => Agents!Init
    BY DEF DesktopInit, AgentsIdle
  <2> QED  BY <1>1, <2>1, InitLedger
<1>3. LedgerInv /\ [DesktopNext]_allVars => LedgerInv'
  BY <1>1, AgentsStep, LedgerStep
<1>4. ASSUME LedgerInv, LedgerInv', [DesktopNext]_allVars
      PROVE  [Agents!Rank(usage) < 4 => Agents!Rank(usage') <= Agents!Rank(usage)]_(Agents!vars)
  <2>1. CASE Agents!Next
    BY <1>1, <1>4, <2>1, RankKept
  <2>2. CASE UNCHANGED Agents!vars
    BY <2>2
  <2> QED  BY <1>4, <2>1, <2>2, AgentsStep
<1> QED  BY <1>2, <1>3, <1>4, PTL DEF DesktopSpec, ExhaustionSticks, Agents!ExhaustionSticks

-----------------------------------------------------------------------------
(***************************************************************************)
(* The log files.  The ring holds the last events, numbered without a gap; *)
(* a thread that writes a dump has panicked, so that its last event is the *)
(* one the dump was created for.                                           *)
(***************************************************************************)
LogEvent == [by : Thread, n : Nat, snippet : BOOLEAN]
Dump == [by : SUBSET Thread, last : Nat, lines : Seq(LogEvent)]

LogType ==
  /\ recent \in Seq(LogEvent) /\ total \in Nat /\ last \in [Thread -> Nat]
  /\ panics \in [Thread -> SUBSET Millis] /\ dumps \in [Millis -> Dump]

RingInv ==
  /\ Len(recent) <= Capacity /\ Len(recent) <= total
  /\ Len(recent) < Capacity => Len(recent) = total
  /\ \A i \in 1..Len(recent) : recent[i].n = total - Len(recent) + i
  /\ \A t \in Thread : last[t] <= total

PanicInv ==
  \A t \in Thread : \A ms \in panics[t] :
    /\ panics[t] = {ms} /\ t \in crashed /\ t \in dumps[ms].by
    /\ dumps[ms].by = {t} => dumps[ms].last = last[t]

TellsTheEnd(dump) ==
  LET numbers == {dump.lines[i].n : i \in DOMAIN dump.lines}
  IN dump.last # 0 =>
       \/ dump.last \in numbers
       \/ \E i \in DOMAIN dump.lines : dump.lines[i].snippet
       \/ Len(dump.lines) = Capacity /\ \A n \in numbers : n > dump.last

DumpInv ==
  \A ms \in Millis, t \in Thread :
    dumps[ms].by = {t} /\ ms \notin panics[t] => TellsTheEnd(dumps[ms])

LogInv == LogType /\ RingInv /\ PanicInv /\ DumpInv

LEMMA LogsStep == [DesktopNext]_allVars => [Logs!Next]_logVars
  BY DEF DesktopNext, allVars

LEMMA Cut ==
  ASSUME NEW lines \in Seq(LogEvent), NEW cut \in Logs!Redacted(lines)
  PROVE  /\ cut \in Seq(LogEvent)
         /\ cut = lines \/ \E i \in DOMAIN cut : cut[i].snippet
<1> DEFINE I == {i \in 1..Len(lines) : lines[i].snippet}
           marker == Logs!SelectInSeq(lines, LAMBDA e : e.snippet)
<1>1. marker = IF I # {} THEN Logs!Min(I) ELSE 0
  BY DEF Logs!SelectInSeq
<1>2. I # {} => Logs!Min(I) \in I
  <2> SUFFICES ASSUME I # {} PROVE Logs!Min(I) \in I
    OBVIOUS
  <2>1. \E x \in I : \A y \in I : x <= y
    <3>1. I \in SUBSET Nat
      OBVIOUS
    <3> HIDE DEF I
    <3> QED  BY <3>1, LeastNumber
  <2> HIDE DEF I
  <2> QED  BY <2>1 DEF Logs!Min
<1>3. marker \in 1..(Len(lines) - 1) => lines[marker].snippet
  BY <1>1, <1>2
<1>4. cut = lines \/ (marker \in 1..(Len(lines) - 1) /\ cut = SubSeq(lines, 1, marker))
  BY DEF Logs!Redacted
<1> HIDE DEF marker
<1>5. CASE cut = lines
  BY <1>5
<1>6. CASE marker \in 1..(Len(lines) - 1) /\ cut = SubSeq(lines, 1, marker)
  <2>1. cut \in Seq(LogEvent) /\ marker \in DOMAIN cut /\ cut[marker] = lines[marker]
    BY <1>6
  <2> QED  BY <1>3, <1>6, <2>1
<1> QED  BY <1>4, <1>5, <1>6

LEMMA LogInit == DesktopInit => LogInv
<1> SUFFICES ASSUME DesktopInit PROVE LogInv
  OBVIOUS
<1>1. Logs!Init
  BY DEF DesktopInit
<1>2. Logs!NoDump \in Dump
  BY DEF Logs!NoDump, Dump
<1>3. LogType
  BY <1>1, <1>2 DEF Logs!Init, LogType
<1>4. RingInv
  BY <1>1, LogAssumption DEF Logs!Init, RingInv
<1>5. PanicInv
  BY <1>1 DEF Logs!Init, PanicInv
<1>6. DumpInv
  BY <1>1 DEF Logs!Init, Logs!NoDump, DumpInv, TellsTheEnd
<1> QED  BY <1>3, <1>4, <1>5, <1>6 DEF LogInv

(***************************************************************************)
(* What a step that logs does to the ring.                                 *)
(***************************************************************************)
LEMMA RememberStep ==
  ASSUME LogInv, NEW t \in Thread, NEW snippet \in BOOLEAN, Logs!Remember(t, snippet)
  PROVE  LogInv'
<1> DEFINE fresh == Logs!Event(t, total', snippet)
           kept  == IF Len(recent) = Capacity THEN Tail(recent) ELSE recent
<1>1. /\ total' = total + 1 /\ recent' = Append(kept, fresh)
      /\ last' = [last EXCEPT ![t] = total'] /\ t \notin crashed
      /\ UNCHANGED <<panics, dumps, crashed>>
  BY DEF Logs!Remember, Logs!Joined, Logs!hook
<1>2. fresh \in LogEvent /\ fresh.n = total + 1
  BY <1>1 DEF Logs!Event, LogEvent, LogInv, LogType
<1>3. /\ kept \in Seq(LogEvent) /\ Len(kept) < Capacity /\ Len(kept) <= total
      /\ Len(kept) + 1 < Capacity => Len(kept) = total
      /\ \A i \in 1..Len(kept) : kept[i].n = total - Len(kept) + i
  <2>1. /\ recent \in Seq(LogEvent) /\ total \in Nat /\ Capacity \in Nat \ {0}
        /\ Len(recent) <= Capacity /\ Len(recent) <= total
        /\ Len(recent) < Capacity => Len(recent) = total
        /\ \A i \in 1..Len(recent) : recent[i].n = total - Len(recent) + i
    BY LogAssumption DEF LogInv, LogType, RingInv
  <2>2. CASE Len(recent) = Capacity
    <3>1. kept = Tail(recent)
      BY <2>2
    <3>2. /\ kept \in Seq(LogEvent) /\ Len(kept) = Len(recent) - 1
          /\ \A i \in 1..Len(kept) : kept[i] = recent[i + 1]
      BY <2>1, <2>2, <3>1
    <3> HIDE DEF kept
    <3> QED  BY <2>1, <2>2, <3>2
  <2>3. CASE Len(recent) # Capacity
    <3>1. kept = recent
      BY <2>3
    <3> HIDE DEF kept
    <3> QED  BY <2>1, <2>3, <3>1
  <2> QED  BY <2>2, <2>3
<1> HIDE DEF kept, fresh
<1>4. LogType'
  BY <1>1, <1>2, <1>3 DEF LogInv, LogType
<1>5. RingInv'
  <2>1. Len(recent') = Len(kept) + 1
    BY <1>1, <1>2, <1>3
  <2>2. ASSUME NEW i \in 1..Len(recent') PROVE recent'[i].n = total' - Len(recent') + i
    <3>1. recent'[i] = IF i = Len(kept) + 1 THEN fresh ELSE kept[i]
      BY <1>1, <1>2, <1>3, <2>1
    <3>2. CASE i = Len(kept) + 1
      BY <1>1, <1>2, <1>3, <2>1, <3>1, <3>2 DEF LogInv, LogType
    <3>3. CASE i # Len(kept) + 1
      <4>1. i \in 1..Len(kept) /\ recent'[i] = kept[i] /\ Len(kept) \in Nat
        BY <1>3, <2>1, <3>1, <3>3
      <4> QED  BY <1>1, <1>3, <2>1, <4>1 DEF LogInv, LogType
    <3> QED  BY <3>2, <3>3
  <2>3. \A u \in Thread : last'[u] <= total'
    BY <1>1 DEF LogInv, LogType, RingInv
  <2> QED  BY <1>1, <1>3, <2>1, <2>2, <2>3, LogAssumption DEF LogInv, LogType, RingInv
<1>6. PanicInv'
  BY <1>1 DEF LogInv, LogType, PanicInv
<1>7. DumpInv'
  BY <1>1 DEF LogInv, DumpInv, TellsTheEnd
<1> QED  BY <1>4, <1>5, <1>6, <1>7 DEF LogInv

(***************************************************************************)
(* A thread that panics had none of its dumps under way, for it had not    *)
(* panicked; the dump is its own unless the name is taken.                 *)
(***************************************************************************)
LEMMA CreateDumpStep ==
  ASSUME LogInv, NEW t \in Thread, NEW ms \in Millis, Logs!CreateDump(t, ms)
  PROVE  LogInv'
<1> DEFINE report == [by |-> dumps[ms].by \cup {t}, last |-> last[t], lines |-> <<>>]
<1>1. /\ t \notin crashed /\ crashed' = crashed \cup {t}
      /\ panics' = [panics EXCEPT ![t] = {ms}] /\ dumps' = [dumps EXCEPT ![ms] = report]
      /\ UNCHANGED <<recent, total, last>>
  BY DEF Logs!CreateDump, Logs!ring
<1>2. report \in Dump /\ report.by = dumps[ms].by \cup {t} /\ report.last = last[t]
  BY DEF LogInv, LogType, Dump
<1> HIDE DEF report
<1>3. /\ panics'[t] = {ms} /\ dumps'[ms] = report
      /\ \A u \in Thread \ {t} : panics'[u] = panics[u]
      /\ \A m \in Millis \ {ms} : dumps'[m] = dumps[m]
  BY <1>1 DEF LogInv, LogType
<1>4. LogType'
  BY <1>1, <1>2 DEF LogInv, LogType
<1>5. RingInv'
  BY <1>1 DEF LogInv, RingInv
<1>6. PanicInv'
  <2> SUFFICES ASSUME NEW u \in Thread, NEW m \in panics'[u]
               PROVE  /\ panics'[u] = {m} /\ u \in crashed' /\ u \in dumps'[m].by
                      /\ dumps'[m].by = {u} => dumps'[m].last = last'[u]
    BY DEF PanicInv
  <2>1. CASE u = t
    BY <1>1, <1>2, <1>3, <2>1
  <2>2. CASE u # t
    <3>1. panics'[u] = panics[u] /\ m \in panics[u] /\ m \in Millis
      BY <1>3, <2>2 DEF LogInv, LogType
    <3>2. /\ panics[u] = {m} /\ u \in crashed /\ u \in dumps[m].by
          /\ dumps[m].by = {u} => dumps[m].last = last[u]
      BY <3>1 DEF LogInv, PanicInv
    <3> QED  BY <1>1, <1>2, <1>3, <2>2, <3>1, <3>2
  <2> QED  BY <2>1, <2>2
<1>7. DumpInv'
  <2> SUFFICES ASSUME NEW m \in Millis, NEW u \in Thread,
                      dumps'[m].by = {u}, m \notin panics'[u]
               PROVE  TellsTheEnd(dumps'[m])
    BY DEF DumpInv, TellsTheEnd
  <2>1. m # ms
    BY <1>2, <1>3
  <2>2. dumps'[m] = dumps[m] /\ m \notin panics[u]
    BY <1>1, <1>3, <2>1 DEF LogInv, PanicInv
  <2> QED  BY <2>2 DEF LogInv, DumpInv
<1> QED  BY <1>4, <1>5, <1>6, <1>7 DEF LogInv

LEMMA WriteDumpStep ==
  ASSUME LogInv, NEW t \in Thread, Logs!WriteDump(t)
  PROVE  LogInv'
<1>1. PICK ms \in panics[t], lines \in Logs!Redacted(recent) :
        dumps' = [dumps EXCEPT ![ms].lines = lines]
  BY DEF Logs!WriteDump
<1>2. /\ panics' = [panics EXCEPT ![t] = {}]
      /\ UNCHANGED <<recent, total, last, crashed>>
  BY DEF Logs!WriteDump, Logs!ring
<1>3. /\ lines \in Seq(LogEvent)
      /\ lines = recent \/ \E i \in DOMAIN lines : lines[i].snippet
  BY Cut DEF LogInv, LogType
<1>4. /\ ms \in Millis /\ panics[t] = {ms} /\ t \in dumps[ms].by
      /\ dumps[ms].by = {t} => dumps[ms].last = last[t]
  BY DEF LogInv, LogType, PanicInv
<1>5. /\ dumps'[ms] \in Dump /\ dumps'[ms].lines = lines
      /\ dumps'[ms].by = dumps[ms].by /\ dumps'[ms].last = dumps[ms].last
      /\ \A m \in Millis \ {ms} : dumps'[m] = dumps[m]
      /\ dumps' \in [Millis -> Dump]
  <2>1. dumps[ms] \in Dump /\ dumps \in [Millis -> Dump]
    BY <1>4 DEF LogInv, LogType
  <2>2. dumps'[ms] = [dumps[ms] EXCEPT !.lines = lines]
    BY <1>1, <1>4, <2>1
  <2>3. /\ dumps'[ms] \in Dump /\ dumps'[ms].lines = lines
        /\ dumps'[ms].by = dumps[ms].by /\ dumps'[ms].last = dumps[ms].last
    BY <1>3, <2>1, <2>2 DEF Dump
  <2> QED  BY <1>1, <1>4, <2>1, <2>3
<1>6. /\ panics'[t] = {} /\ panics' \in [Thread -> SUBSET Millis]
      /\ \A u \in Thread \ {t} : panics'[u] = panics[u]
  BY <1>2 DEF LogInv, LogType
<1>7. LogType'
  BY <1>2, <1>5, <1>6 DEF LogInv, LogType
<1>8. RingInv'
  BY <1>2 DEF LogInv, RingInv
<1>9. PanicInv'
  <2> SUFFICES ASSUME NEW u \in Thread, NEW m \in panics'[u]
               PROVE  /\ panics'[u] = {m} /\ u \in crashed' /\ u \in dumps'[m].by
                      /\ dumps'[m].by = {u} => dumps'[m].last = last'[u]
    BY DEF PanicInv
  <2>1. u # t /\ m \in panics[u] /\ m \in Millis
    BY <1>6 DEF LogInv, LogType
  <2>2. dumps'[m].by = dumps[m].by /\ dumps'[m].last = dumps[m].last
    BY <1>5, <2>1
  <2> QED  BY <1>2, <1>6, <2>1, <2>2 DEF LogInv, PanicInv
<1>10. DumpInv'
  <2> SUFFICES ASSUME NEW m \in Millis, NEW u \in Thread,
                      dumps'[m].by = {u}, m \notin panics'[u]
               PROVE  TellsTheEnd(dumps'[m])
    BY DEF DumpInv, TellsTheEnd
  <2>1. CASE m # ms
    <3>1. dumps'[m] = dumps[m] /\ m \notin panics[u]
      BY <1>4, <1>5, <1>6, <2>1
    <3> QED  BY <3>1 DEF LogInv, DumpInv
  <2>2. CASE m = ms
    <3>1. dumps'[m].lines = lines /\ dumps'[m].last = last[t] /\ last[t] \in Nat
      BY <1>4, <1>5, <2>2 DEF LogInv, LogType
    <3>2. CASE \E i \in DOMAIN lines : lines[i].snippet
      BY <3>1, <3>2 DEF TellsTheEnd
    <3>3. CASE lines = recent /\ last[t] > total - Len(recent)
      <4>1. last[t] - (total - Len(recent)) \in 1..Len(recent)
        BY <3>1, <3>3 DEF LogInv, LogType, RingInv
      <4>2. recent[last[t] - (total - Len(recent))].n = last[t]
        BY <4>1 DEF LogInv, LogType, RingInv
      <4> QED  BY <3>1, <3>3, <4>1, <4>2 DEF TellsTheEnd, LogInv, LogType
    <3>4. CASE lines = recent /\ last[t] # 0 /\ last[t] <= total - Len(recent)
      <4>1. Len(recent) = Capacity
        BY <3>1, <3>4, LogAssumption DEF LogInv, LogType, RingInv
      <4>2. \A i \in 1..Len(recent) : recent[i].n > last[t]
        BY <3>1, <3>4 DEF LogInv, LogType, RingInv
      <4> QED  BY <3>1, <3>4, <4>1, <4>2 DEF TellsTheEnd, LogInv, LogType
    <3>5. CASE last[t] = 0
      BY <3>1, <3>5 DEF TellsTheEnd
    <3> QED  BY <1>3, <3>1, <3>2, <3>3, <3>4, <3>5 DEF LogInv, LogType
  <2> QED  BY <2>1, <2>2
<1> QED  BY <1>7, <1>8, <1>9, <1>10 DEF LogInv

(***************************************************************************)
(* A process that goes away takes the ring with it, and no dump is under   *)
(* way then.                                                               *)
(***************************************************************************)
LEMMA ExitStep ==
  ASSUME LogInv, Logs!Exit
  PROVE  LogInv'
<1>1. /\ \A t \in Thread : panics[t] = {}
      /\ recent' = <<>> /\ total' = 0 /\ last' = [t \in Thread |-> 0]
      /\ UNCHANGED <<panics, dumps>>
  BY DEF Logs!Exit
<1>2. LogType'
  BY <1>1 DEF LogInv, LogType
<1>3. RingInv'
  BY <1>1, LogAssumption DEF RingInv
<1>4. PanicInv'
  BY <1>1 DEF PanicInv
<1>5. DumpInv'
  BY <1>1 DEF LogInv, DumpInv, TellsTheEnd
<1> QED  BY <1>2, <1>3, <1>4, <1>5 DEF LogInv

LEMMA LogStep == ASSUME LogInv, [Logs!Next]_logVars PROVE LogInv'
<1>1. CASE UNCHANGED <<recent, total, last, panics, dumps, crashed>>
  <2>1. LogType'
    BY <1>1 DEF LogInv, LogType
  <2> QED  BY <1>1, <2>1 DEF LogInv, RingInv, PanicInv, DumpInv, TellsTheEnd
<1>2. CASE Logs!DayPasses \/ Logs!Start \/ Logs!Install
  BY <1>1, <1>2 DEF Logs!DayPasses, Logs!Start, Logs!Install, Logs!ring, Logs!hook
<1>3. CASE Logs!Exit
  BY <1>3, ExitStep
<1>4. ASSUME NEW name \in unpruned, Logs!Prune(name) \/ Logs!PruneFails(name) PROVE LogInv'
  BY <1>1, <1>4 DEF Logs!Prune, Logs!PruneFails, Logs!ring, Logs!hook
<1>5. ASSUME NEW t \in Thread, NEW snippet \in BOOLEAN, Logs!Remember(t, snippet) PROVE LogInv'
  BY <1>5, RememberStep
<1>6. ASSUME NEW t \in Thread, Logs!WriteLine(t) PROVE LogInv'
  BY <1>1, <1>6 DEF Logs!WriteLine, Logs!hook
<1>7. ASSUME NEW t \in Thread, NEW ms \in Millis, Logs!CreateDump(t, ms) PROVE LogInv'
  BY <1>7, CreateDumpStep
<1>8. ASSUME NEW t \in Thread, Logs!WriteDump(t) PROVE LogInv'
  BY <1>8, WriteDumpStep
<1>9. CASE UNCHANGED logVars
  BY <1>1, <1>9 DEF logVars
<1> QED
  BY <1>2, <1>3, <1>4, <1>5, <1>6, <1>7, <1>8, <1>9 DEF Logs!Next

(***************************************************************************)
(* A crash dump holds the last event of its thread, whatever the other     *)
(* threads log and however their panics fall together, unless the ring was *)
(* too small or the dump was cut at a snippet.                             *)
(***************************************************************************)
THEOREM DumpCorrect == DesktopSpec => []DumpTellsTheEnd
<1>1. DesktopInit => LogInv
  BY LogInit
<1>2. LogInv /\ [DesktopNext]_allVars => LogInv'
  BY LogStep, LogsStep
<1>3. LogInv => DumpTellsTheEnd
  <2> SUFFICES ASSUME LogInv, NEW ms \in Millis, NEW t \in Thread,
                      dumps[ms].by = {t}, panics[t] = {}
               PROVE  TellsTheEnd(dumps[ms])
    BY DEF DumpTellsTheEnd, Logs!DumpTellsTheEnd, TellsTheEnd
  <2> QED  BY DEF LogInv, DumpInv
<1> QED  BY <1>1, <1>2, <1>3, PTL DEF DesktopSpec

-----------------------------------------------------------------------------
(***************************************************************************)
(* The notification spine.  Events are numbered as they are logged; a      *)
(* recorder tells its own in that order, for it logs the next one only     *)
(* when it has told the last.                                              *)
(***************************************************************************)
Notice == [by : Recorder, n : Nat, severity : Severities]

NoticeType ==
  /\ log \in Seq(Notice) /\ told \in Seq(Notice) /\ state.panel \in Seq(Notice)
  /\ writing \in [Recorder -> SUBSET Notice] /\ recorded \in Nat
  /\ next \in Nat \ {0} /\ next <= Len(told) + 1

NumberInv ==
  /\ \A i \in DOMAIN log : log[i].n <= recorded
  /\ \A i \in DOMAIN told : told[i].n <= recorded
  /\ \A i \in DOMAIN state.panel : state.panel[i].n <= recorded
  /\ \A i, j \in DOMAIN log : i < j => log[i].n < log[j].n

ToldInv ==
  /\ \A r \in Recorder : \A e, f \in writing[r] : e = f /\ e.by = r /\ e.n <= recorded
  /\ \A i \in DOMAIN told : \A e \in writing[told[i].by] : told[i].n < e.n
  /\ \A i, j \in DOMAIN told : i < j /\ told[i].by = told[j].by => told[i].n < told[j].n

(***************************************************************************)
(* What the log holds is listed, or about to be: still in the channel, or  *)
(* not yet told.  Each event that is listed has behind it those of its     *)
(* recorder that the log holds and that came before.                       *)
(***************************************************************************)
Listed(e) == \E i \in DOMAIN state.panel : state.panel[i] = e
InChannel(e) == \E i \in DOMAIN told : next <= i /\ told[i] = e

PanelInv ==
  consumer = "ready" /\ ~lagged =>
    /\ \A k \in DOMAIN log : Listed(log[k]) \/ InChannel(log[k]) \/ log[k] \in writing[log[k].by]
    /\ \A j \in DOMAIN state.panel, k \in DOMAIN log :
         log[k].by = state.panel[j].by /\ log[k].n < state.panel[j].n =>
           \E i \in DOMAIN state.panel : i < j /\ state.panel[i] = log[k]

NoticeInv == NoticeType /\ NumberInv /\ ToldInv /\ PanelInv

LEMMA NoticesStep == [DesktopNext]_allVars => [Notices!Next]_noticeVars
  BY DEF DesktopNext, allVars

LEMMA NoticeInit == DesktopInit => NoticeInv
<1> SUFFICES ASSUME DesktopInit PROVE NoticeInv
  OBVIOUS
<1>1. Notices!Init
  BY DEF DesktopInit
<1>2. NoticeType
  BY <1>1 DEF Notices!Init, Notices!NoState, NoticeType
<1> QED
  BY <1>1, <1>2 DEF Notices!Init, Notices!NoState, NoticeInv, NumberInv, ToldInv, PanelInv

(***************************************************************************)
(* The new event is the last of the log, and its recorder is about to tell *)
(* it.                                                                     *)
(***************************************************************************)
Joins(result, events, notice) ==
  /\ result \in Seq(Notice)
  /\ \A k \in DOMAIN result :
       result[k] = notice \/ \E i \in DOMAIN events : result[k] = events[i]
  /\ (\A i, j \in DOMAIN events : i < j => events[i].n < events[j].n)
       /\ (\A i \in DOMAIN events : events[i].n < notice.n)
       => \A i, j \in DOMAIN result : i < j => result[i].n < result[j].n

LEMMA LoggedEvents ==
  ASSUME NEW events \in Seq(Notice), NEW notice \in Notice
  PROVE  Joins(Notices!Logged(events, notice), events, notice)
<1> DEFINE result == Notices!Logged(events, notice)
<1> DEFINE kept == IF Len(events) = LogCapacity THEN Tail(events) ELSE events
<1>1. CASE LogCapacity = 0
  BY <1>1 DEF Notices!Logged, Joins
<1>2. CASE LogCapacity # 0
  <2>1. result = Append(kept, notice)
    BY <1>2 DEF Notices!Logged
  <2> HIDE DEF result
  <2>2. CASE Len(events) = LogCapacity
    <3>1. kept = Tail(events) /\ Len(events) \in Nat \ {0}
      BY <1>2, <2>2
    <3>2. /\ kept \in Seq(Notice) /\ Len(kept) = Len(events) - 1
          /\ \A i \in 1..Len(kept) : kept[i] = events[i + 1] /\ i + 1 \in DOMAIN events
      BY <3>1
    <3> HIDE DEF kept
    <3>3. /\ result \in Seq(Notice) /\ Len(result) = Len(events)
          /\ \A i \in 1..(Len(events) - 1) : result[i] = events[i + 1] /\ i + 1 \in DOMAIN events
          /\ result[Len(events)] = notice
      BY <2>1, <3>1, <3>2
    <3>4. ASSUME NEW k \in DOMAIN result
          PROVE  result[k] = notice \/ \E i \in DOMAIN events : result[k] = events[i]
      <4>1. CASE k = Len(events)
        BY <3>3, <4>1
      <4>2. CASE k # Len(events)
        <5>1. k \in 1..(Len(events) - 1)
          BY <3>1, <3>3, <4>2
        <5> QED  BY <3>3, <5>1
      <4> QED  BY <4>1, <4>2
    <3>5. ASSUME \A i, j \in DOMAIN events : i < j => events[i].n < events[j].n,
                 \A i \in DOMAIN events : events[i].n < notice.n,
                 NEW i \in DOMAIN result, NEW j \in DOMAIN result, i < j
          PROVE  result[i].n < result[j].n
      <4>1. i \in 1..(Len(events) - 1) /\ result[i] = events[i + 1] /\ i + 1 \in DOMAIN events
        BY <3>1, <3>3, <3>5
      <4>2. CASE j = Len(events)
        BY <3>3, <3>5, <4>1, <4>2
      <4>3. CASE j # Len(events)
        <5>1. j \in 1..(Len(events) - 1) /\ result[j] = events[j + 1] /\ j + 1 \in DOMAIN events
          BY <3>1, <3>3, <4>3
        <5> QED  BY <3>5, <4>1, <5>1
      <4> QED  BY <4>2, <4>3
    <3> QED  BY <3>3, <3>4, <3>5 DEF Joins, result
  <2>3. CASE Len(events) # LogCapacity
    <3>1. result = Append(events, notice)
      BY <2>1, <2>3
    <3>2. /\ result \in Seq(Notice) /\ Len(result) = Len(events) + 1
          /\ \A i \in 1..Len(events) : result[i] = events[i] /\ i \in DOMAIN events
          /\ result[Len(events) + 1] = notice
      BY <3>1
    <3> QED  BY <3>2 DEF Joins, result
  <2> QED  BY <2>2, <2>3
<1> QED  BY <1>1, <1>2

LEMMA NoticeTypes ==
  ASSUME NoticeInv
  PROVE  /\ recorded \in Nat
         /\ \A i \in DOMAIN log : log[i] \in Notice /\ log[i].n \in Nat /\ log[i].by \in Recorder
         /\ \A i \in DOMAIN told :
              told[i] \in Notice /\ told[i].n \in Nat /\ told[i].by \in Recorder
         /\ \A i \in DOMAIN state.panel :
              /\ state.panel[i] \in Notice /\ state.panel[i].n \in Nat
              /\ state.panel[i].by \in Recorder
<1>1. \A e \in Notice : e.n \in Nat /\ e.by \in Recorder
  BY DEF Notice
<1>2. /\ recorded \in Nat
      /\ \A i \in DOMAIN log : log[i] \in Notice
      /\ \A i \in DOMAIN told : told[i] \in Notice
      /\ \A i \in DOMAIN state.panel : state.panel[i] \in Notice
  BY DEF NoticeInv, NoticeType
<1> QED  BY <1>1, <1>2

LEMMA RecordStep ==
  ASSUME NoticeInv, NEW r \in Recorder, NEW severity \in Severities, Notices!Record(r, severity)
  PROVE  NoticeInv'
<1> DEFINE notice == [by |-> r, n |-> recorded + 1, severity |-> severity]
<1>1. /\ writing[r] = {} /\ recorded' = recorded + 1
      /\ log' = Notices!Logged(log, notice)
      /\ writing' = [writing EXCEPT ![r] = {notice}]
      /\ UNCHANGED <<told, consumer, next, lagged, state>>
  BY DEF Notices!Record
<1>2. notice \in Notice /\ notice.by = r /\ notice.n = recorded + 1
  BY DEF NoticeInv, NoticeType, Notice
<1> HIDE DEF notice
<1>3. /\ log' \in Seq(Notice)
      /\ \A k \in DOMAIN log' :
           \/ log'[k] = notice
           \/ \E i \in DOMAIN log : log'[k] = log[i]
      /\ \A i, j \in DOMAIN log' : i < j => log'[i].n < log'[j].n
  <2>1. \A i \in DOMAIN log : log[i].n < notice.n
    BY <1>2, NoticeTypes DEF NoticeInv, NumberInv
  <2>2. log \in Seq(Notice) /\ \A i, j \in DOMAIN log : i < j => log[i].n < log[j].n
    BY DEF NoticeInv, NoticeType, NumberInv
  <2> HIDE DEF NoticeInv
  <2>3. Joins(log', log, notice)
    BY <1>1, <1>2, <2>2, LoggedEvents
  <2> QED  BY <2>1, <2>2, <2>3 DEF Joins
<1>4. /\ writing' \in [Recorder -> SUBSET Notice] /\ writing'[r] = {notice}
      /\ \A d \in Recorder \ {r} : writing'[d] = writing[d]
  BY <1>1, <1>2 DEF NoticeInv, NoticeType
<1>5. NoticeType'
  BY <1>1, <1>3, <1>4 DEF NoticeInv, NoticeType
<1>6. NumberInv'
  <2>1. \A k \in DOMAIN log' : log'[k].n <= recorded'
    BY <1>1, <1>2, <1>3, NoticeTypes DEF NoticeInv, NumberInv
  <2>2. /\ \A i \in DOMAIN told : told[i].n <= recorded'
        /\ \A i \in DOMAIN state.panel : state.panel[i].n <= recorded'
    BY <1>1, NoticeTypes DEF NoticeInv, NumberInv
  <2> QED  BY <1>1, <1>3, <2>1, <2>2 DEF NumberInv
<1>7. ToldInv'
  <2>1. \A d \in Recorder : \A e, f \in writing'[d] : e = f /\ e.by = d /\ e.n <= recorded'
    BY <1>1, <1>2, <1>4 DEF NoticeInv, NoticeType, ToldInv, Notice
  <2>2. \A i \in DOMAIN told : \A e \in writing'[told[i].by] : told[i].n < e.n
    BY <1>2, <1>4, NoticeTypes DEF NoticeInv, NumberInv, ToldInv
  <2> QED  BY <1>1, <2>1, <2>2 DEF NoticeInv, ToldInv
<1>8. PanelInv'
  <2> SUFFICES ASSUME consumer = "ready", ~lagged
               PROVE  /\ \A k \in DOMAIN log' :
                           \/ Listed(log'[k]) \/ InChannel(log'[k])
                           \/ log'[k] \in writing'[log'[k].by]
                      /\ \A j \in DOMAIN state.panel, k \in DOMAIN log' :
                           log'[k].by = state.panel[j].by /\ log'[k].n < state.panel[j].n =>
                             \E i \in DOMAIN state.panel : i < j /\ state.panel[i] = log'[k]
    BY <1>1 DEF PanelInv, Listed, InChannel
  <2>1. \A k \in DOMAIN log : log[k].by \in Recorder
    BY NoticeTypes
  <2>2. ASSUME NEW k \in DOMAIN log'
        PROVE  Listed(log'[k]) \/ InChannel(log'[k]) \/ log'[k] \in writing'[log'[k].by]
    <3>1. CASE log'[k] = notice
      BY <1>2, <1>4, <3>1
    <3>2. ASSUME NEW i \in DOMAIN log, log'[k] = log[i]
          PROVE  Listed(log'[k]) \/ InChannel(log'[k]) \/ log'[k] \in writing'[log'[k].by]
      BY <1>1, <1>4, <2>1, <3>2 DEF NoticeInv, PanelInv
    <3> QED  BY <1>3, <3>1, <3>2
  <2>3. \A j \in DOMAIN state.panel, k \in DOMAIN log' :
          log'[k].by = state.panel[j].by /\ log'[k].n < state.panel[j].n =>
            \E i \in DOMAIN state.panel : i < j /\ state.panel[i] = log'[k]
    <3> SUFFICES ASSUME NEW j \in DOMAIN state.panel, NEW k \in DOMAIN log',
                        log'[k].by = state.panel[j].by, log'[k].n < state.panel[j].n
                 PROVE  \E i \in DOMAIN state.panel : i < j /\ state.panel[i] = log'[k]
      OBVIOUS
    <3>1. log'[k] # notice
      BY <1>2, NoticeTypes DEF NoticeInv, NumberInv
    <3>2. PICK m \in DOMAIN log : log'[k] = log[m]
      BY <1>3, <3>1
    <3> QED  BY <3>2 DEF NoticeInv, PanelInv
  <2> QED  BY <2>2, <2>3
<1> QED  BY <1>5, <1>6, <1>7, <1>8 DEF NoticeInv

(***************************************************************************)
(* Two recorders may tell in another order than they logged, one may not.  *)
(***************************************************************************)
LEMMA TellStep ==
  ASSUME NoticeInv, NEW r \in Recorder, Notices!Tell(r)
  PROVE  NoticeInv'
<1>1. PICK notice \in writing[r] : told' = Append(told, notice)
  BY DEF Notices!Tell
<1>2. /\ writing' = [writing EXCEPT ![r] = {}]
      /\ UNCHANGED <<log, recorded, consumer, next, lagged, state>>
  BY DEF Notices!Tell
<1>3. /\ notice \in Notice /\ notice.by = r /\ notice.n \in Nat /\ notice.n <= recorded
      /\ writing[r] = {notice}
  BY DEF NoticeInv, NoticeType, ToldInv, Notice
<1>4. /\ writing' \in [Recorder -> SUBSET Notice] /\ writing'[r] = {}
      /\ \A d \in Recorder \ {r} : writing'[d] = writing[d]
  BY <1>2 DEF NoticeInv, NoticeType
<1>5. /\ told \in Seq(Notice) /\ told' \in Seq(Notice) /\ Len(told') = Len(told) + 1
      /\ told'[Len(told')] = notice
      /\ \A i \in DOMAIN told : told'[i] = told[i] /\ i \in DOMAIN told' /\ i < Len(told')
      /\ \A i \in DOMAIN told' : i # Len(told') => i \in DOMAIN told
  BY <1>1, <1>3 DEF NoticeInv, NoticeType
<1>6. NoticeType'
  BY <1>2, <1>4, <1>5 DEF NoticeInv, NoticeType
<1>7. NumberInv'
  <2>1. \A i \in DOMAIN told' : told'[i].n <= recorded
    BY <1>3, <1>5 DEF NoticeInv, NumberInv
  <2> QED  BY <1>2, <2>1 DEF NoticeInv, NumberInv
<1>8. ToldInv'
  <2>1. \A d \in Recorder : \A e, f \in writing'[d] : e = f /\ e.by = d /\ e.n <= recorded'
    BY <1>2, <1>4 DEF NoticeInv, ToldInv
  <2>2. ASSUME NEW i \in DOMAIN told', NEW e \in writing'[told'[i].by]
        PROVE  told'[i].n < e.n
    <3>1. CASE i = Len(told')
      BY <1>3, <1>4, <1>5, <2>2, <3>1
    <3>2. CASE i # Len(told')
      <4>1. i \in DOMAIN told /\ told'[i] = told[i] /\ told[i].by \in Recorder
        BY <1>5, <3>2, NoticeTypes
      <4>2. e \in writing[told[i].by]
        BY <1>4, <2>2, <4>1
      <4> QED  BY <4>1, <4>2 DEF NoticeInv, ToldInv
    <3> QED  BY <3>1, <3>2
  <2>3. ASSUME NEW i \in DOMAIN told', NEW j \in DOMAIN told', i < j, told'[i].by = told'[j].by
        PROVE  told'[i].n < told'[j].n
    <3>1. i \in DOMAIN told /\ told'[i] = told[i]
      BY <1>5, <2>3
    <3>2. CASE j = Len(told')
      BY <1>3, <1>5, <2>3, <3>1, <3>2 DEF NoticeInv, ToldInv
    <3>3. CASE j # Len(told')
      BY <1>5, <2>3, <3>1, <3>3 DEF NoticeInv, ToldInv
    <3> QED  BY <3>2, <3>3
  <2> QED  BY <2>1, <2>2, <2>3 DEF ToldInv
<1>9. PanelInv'
  <2>1. ASSUME NEW e, InChannel(e) PROVE InChannel(e)'
    BY <1>2, <1>5, <2>1 DEF InChannel
  <2>2. InChannel(notice)'
    BY <1>2, <1>5 DEF InChannel, NoticeInv, NoticeType
  <2>3. ASSUME NEW k \in DOMAIN log, log[k] \in writing[log[k].by]
        PROVE  log[k] \in writing'[log[k].by] \/ InChannel(log[k])'
    <3>1. CASE log[k].by = r
      <4>1. log[k] = notice
        BY <1>3, <2>3, <3>1
      <4> QED  BY <1>2, <2>2, <4>1 DEF InChannel
    <3>2. CASE log[k].by # r
      BY <1>4, <2>3, <3>2, NoticeTypes
    <3> QED  BY <3>1, <3>2
  <2> QED  BY <1>2, <2>1, <2>3 DEF NoticeInv, PanelInv, Listed
<1> QED  BY <1>6, <1>7, <1>8, <1>9 DEF NoticeInv

(***************************************************************************)
(* The log is copied whole and in order.                                   *)
(***************************************************************************)
LEMMA CopyLogStep == ASSUME NoticeInv, Notices!CopyLog PROVE NoticeInv'
<1>1. state'.panel = log /\ UNCHANGED <<log, told, writing, recorded, next, lagged>>
  BY DEF Notices!CopyLog, Notices!NoState
<1>2. NoticeType' /\ NumberInv' /\ ToldInv'
  BY <1>1 DEF NoticeInv, NoticeType, NumberInv, ToldInv
<1>3. \A k \in DOMAIN log : Listed(log[k])'
  BY <1>1 DEF Listed
<1>4. ASSUME NEW j \in DOMAIN log, NEW k \in DOMAIN log, log[k].n < log[j].n
      PROVE  k < j
  <2>1. j \in Nat /\ k \in Nat /\ log[k].n \in Nat /\ log[j].n \in Nat
    BY NoticeTypes DEF NoticeInv, NoticeType
  <2>2. j < k => log[j].n < log[k].n
    BY DEF NoticeInv, NumberInv
  <2> QED  BY <1>4, <2>1, <2>2
<1>5. PanelInv'
  BY <1>1, <1>3, <1>4 DEF PanelInv, Listed
<1> QED  BY <1>2, <1>5 DEF NoticeInv

(***************************************************************************)
(* What the consumer takes from the channel comes up after the earlier     *)
(* events of its recorder: they are neither behind it in the channel nor   *)
(* still to be told.                                                       *)
(***************************************************************************)
LEMMA SyncNextStep == ASSUME NoticeInv, Notices!SyncNext PROVE NoticeInv'
<1> PICK notice : notice = told[next]
  OBVIOUS
<1>1. /\ consumer = "ready" /\ next \in DOMAIN told
      /\ state'.panel = Append(state.panel, notice) /\ next' = next + 1
      /\ UNCHANGED <<log, told, writing, recorded, consumer, lagged>>
  BY DEF Notices!SyncNext, Notices!Apply, NoticeInv, NoticeType
<1>2. notice \in Notice /\ notice.n <= recorded /\ notice.n \in Nat /\ notice.by \in Recorder
  BY <1>1, NoticeTypes DEF NoticeInv, NumberInv
<1>3. /\ state'.panel \in Seq(Notice) /\ Len(state'.panel) = Len(state.panel) + 1
      /\ state'.panel[Len(state'.panel)] = notice
      /\ \A i \in DOMAIN state.panel :
           /\ state'.panel[i] = state.panel[i] /\ i \in DOMAIN state'.panel
           /\ i < Len(state'.panel)
      /\ \A i \in DOMAIN state'.panel : i # Len(state'.panel) => i \in DOMAIN state.panel
      /\ Len(state'.panel) \in DOMAIN state'.panel
  BY <1>1, <1>2 DEF NoticeInv, NoticeType
<1>4. NoticeType'
  BY <1>1, <1>3 DEF NoticeInv, NoticeType
<1>5. NumberInv'
  <2>1. \A i \in DOMAIN state'.panel : state'.panel[i].n <= recorded
    BY <1>2, <1>3 DEF NoticeInv, NumberInv
  <2> QED  BY <1>1, <2>1 DEF NoticeInv, NumberInv
<1>6. ToldInv'
  BY <1>1 DEF NoticeInv, ToldInv
<1>7. PanelInv'
  <2> SUFFICES ASSUME ~lagged
               PROVE  /\ \A k \in DOMAIN log :
                           \/ Listed(log[k])' \/ InChannel(log[k])'
                           \/ log[k] \in writing[log[k].by]
                      /\ \A j \in DOMAIN state'.panel, k \in DOMAIN log :
                           log[k].by = state'.panel[j].by /\ log[k].n < state'.panel[j].n =>
                             \E i \in DOMAIN state'.panel : i < j /\ state'.panel[i] = log[k]
    BY <1>1 DEF PanelInv, Listed, InChannel
  <2>1. \A e : Listed(e) => Listed(e)'
    BY <1>3 DEF Listed
  <2>2. \A e : InChannel(e) => InChannel(e)' \/ e = notice
    BY <1>1 DEF InChannel, NoticeInv, NoticeType
  <2>3. Listed(notice)'
    BY <1>3 DEF Listed
  <2>4. ASSUME NEW j \in DOMAIN state'.panel, NEW k \in DOMAIN log,
               log[k].by = state'.panel[j].by, log[k].n < state'.panel[j].n
        PROVE  \E i \in DOMAIN state'.panel : i < j /\ state'.panel[i] = log[k]
    <3>1. CASE j # Len(state'.panel)
      <4>1. j \in DOMAIN state.panel /\ state'.panel[j] = state.panel[j]
        BY <1>3, <3>1
      <4>2. PICK i \in DOMAIN state.panel : i < j /\ state.panel[i] = log[k]
        BY <1>1, <2>4, <4>1 DEF NoticeInv, PanelInv
      <4> QED  BY <1>3, <4>2
    <3>2. CASE j = Len(state'.panel)
      <4>1. log[k].by = notice.by /\ log[k].n < notice.n /\ log[k].n \in Nat
        BY <1>3, <2>4, <3>2, NoticeTypes
      <4>2. log[k] \notin writing[log[k].by]
        <5>1. \A e \in writing[notice.by] : notice.n < e.n /\ e.n \in Nat
          BY <1>1, <1>2 DEF NoticeInv, NoticeType, ToldInv, Notice
        <5> QED  BY <1>2, <4>1, <5>1
      <4>3. ~InChannel(log[k])
        <5> SUFFICES ASSUME NEW i \in DOMAIN told, next <= i, told[i] = log[k] PROVE FALSE
          BY DEF InChannel
        <5>1. CASE i = next
          BY <1>2, <4>1, <5>1
        <5>2. CASE next < i
          <6>1. notice.n < told[i].n
            BY <1>1, <4>1, <5>2 DEF NoticeInv, ToldInv
          <6> QED  BY <1>2, <4>1, <6>1
        <5> QED  BY <5>1, <5>2 DEF NoticeInv, NoticeType
      <4>4. Listed(log[k])
        BY <1>1, <4>2, <4>3 DEF NoticeInv, PanelInv
      <4> QED  BY <1>3, <3>2, <4>4 DEF Listed
    <3> QED  BY <3>1, <3>2
  <2>5. \A k \in DOMAIN log :
          Listed(log[k])' \/ InChannel(log[k])' \/ log[k] \in writing[log[k].by]
    BY <1>1, <2>1, <2>2, <2>3 DEF NoticeInv, PanelInv, Listed, InChannel
  <2> QED  BY <2>4, <2>5
<1> QED  BY <1>4, <1>5, <1>6, <1>7 DEF NoticeInv

LEMMA NoticeStep == ASSUME NoticeInv, [Notices!Next]_noticeVars PROVE NoticeInv'
<1>1. ASSUME NEW r \in Recorder, NEW severity \in Severities, Notices!Record(r, severity)
      PROVE  NoticeInv'
  BY <1>1, RecordStep
<1>2. ASSUME NEW r \in Recorder, Notices!Tell(r) PROVE NoticeInv'
  BY <1>2, TellStep
<1>3. CASE Notices!Subscribe
  <2>1. /\ consumer' # "ready" /\ next' = Len(told) + 1
        /\ UNCHANGED <<log, told, writing, recorded, state>>
    BY <1>3 DEF Notices!Subscribe
  <2>2. NoticeType'
    BY <2>1 DEF NoticeInv, NoticeType
  <2> QED  BY <2>1, <2>2 DEF NoticeInv, NumberInv, ToldInv, PanelInv
<1>4. CASE Notices!CopyLog
  BY <1>4, CopyLogStep
<1>5. CASE Notices!SyncNext
  BY <1>5, SyncNextStep
<1>6. CASE Notices!SyncLagged
  <2>1. lagged' /\ next' = Notices!Oldest /\ UNCHANGED <<log, told, writing, recorded, state>>
    BY <1>6 DEF Notices!SyncLagged
  <2>2. Notices!Oldest \in Nat \ {0} /\ Notices!Oldest <= Len(told) + 1
    BY NoticeAssumption DEF Notices!Oldest, NoticeInv, NoticeType
  <2>3. NoticeType'
    BY <2>1, <2>2 DEF NoticeInv, NoticeType
  <2> QED  BY <2>1, <2>3 DEF NoticeInv, NumberInv, ToldInv, PanelInv
<1>7. CASE UNCHANGED noticeVars
  <2>1. UNCHANGED <<log, told, writing, recorded, consumer, next, lagged, state>>
    BY <1>7 DEF noticeVars
  <2>2. NoticeType'
    BY <2>1 DEF NoticeInv, NoticeType
  <2> QED
    BY <2>1, <2>2 DEF NoticeInv, NumberInv, ToldInv, PanelInv, Listed, InChannel
<1> QED
  BY <1>1, <1>2, <1>3, <1>4, <1>5, <1>6, <1>7 DEF Notices!Next

LEMMA FirstAt ==
  ASSUME NEW events \in Seq(Notice), NEW e, NEW k \in DOMAIN events, events[k] = e
  PROVE  LET first == Notices!SelectInSeq(events, LAMBDA x : x = e)
         IN  /\ first \in DOMAIN events /\ events[first] = e
             /\ \A i \in DOMAIN events : events[i] = e => first <= i
<1> DEFINE I == {i \in 1..Len(events) : events[i] = e}
           first == Notices!SelectInSeq(events, LAMBDA x : x = e)
<1>1. I # {} /\ I \in SUBSET Nat
  OBVIOUS
<1>2. first = Notices!Min(I)
  BY <1>1 DEF Notices!SelectInSeq
<1>3. Notices!Min(I) \in I /\ \A i \in I : Notices!Min(I) <= i
  <2> HIDE DEF I
  <2> QED  BY <1>1, LeastNumber DEF Notices!Min
<1> HIDE DEF first
<1>4. /\ first \in DOMAIN events /\ events[first] = e
      /\ \A i \in DOMAIN events : events[i] = e => first <= i
  BY <1>2, <1>3
<1> QED  BY <1>4 DEF first

(***************************************************************************)
(* The panel of a consumer that has caught up and lost nothing holds what  *)
(* the log holds, each recorder's events in their order, however records,  *)
(* broadcasts and the copy of the log fall together.                       *)
(***************************************************************************)
THEOREM PanelCorrect == DesktopSpec => []PanelHoldsLog
<1>1. DesktopInit => NoticeInv
  BY NoticeInit
<1>2. NoticeInv /\ [DesktopNext]_allVars => NoticeInv'
  BY NoticeStep, NoticesStep
<1>3. ASSUME NoticeInv PROVE PanelHoldsLog
  <2> SUFFICES ASSUME Notices!CaughtUp, ~lagged
               PROVE  /\ Notices!Range(log) \subseteq Notices!Range(state.panel)
                      /\ \A e, f \in Notices!Range(log) :
                           e.by = f.by /\ e.n < f.n =>
                             Notices!SelectInSeq(state.panel, LAMBDA x : x = e)
                               < Notices!SelectInSeq(state.panel, LAMBDA x : x = f)
    BY DEF PanelHoldsLog, Notices!PanelHoldsLog
  <2>1. /\ consumer = "ready" /\ next = Len(told) + 1 /\ \A r \in Recorder : writing[r] = {}
        /\ told \in Seq(Notice) /\ log \in Seq(Notice) /\ state.panel \in Seq(Notice)
    BY <1>3 DEF Notices!CaughtUp, NoticeInv, NoticeType
  <2>2. ASSUME NEW k \in DOMAIN log PROVE Listed(log[k])
    <3>1. log[k] \notin writing[log[k].by]
      BY <1>3, <2>1, NoticeTypes
    <3>2. ~InChannel(log[k])
      BY <2>1 DEF InChannel
    <3> QED  BY <1>3, <2>1, <3>1, <3>2 DEF NoticeInv, PanelInv
  <2>3. Notices!Range(log) \subseteq Notices!Range(state.panel)
    BY <2>2 DEF Notices!Range, Listed
  <2> DEFINE At(e) == Notices!SelectInSeq(state.panel, LAMBDA x : x = e)
  <2>4. ASSUME NEW k \in DOMAIN log, NEW m \in DOMAIN log,
               log[k].by = log[m].by, log[k].n < log[m].n
        PROVE  At(log[k]) < At(log[m])
    <3>1. /\ At(log[m]) \in DOMAIN state.panel /\ state.panel[At(log[m])] = log[m]
      BY <2>1, <2>2, FirstAt DEF Listed
    <3>2. PICK i \in DOMAIN state.panel : i < At(log[m]) /\ state.panel[i] = log[k]
      <4> HIDE DEF At
      <4> QED  BY <1>3, <2>1, <2>4, <3>1, SMTT(30) DEF NoticeInv, PanelInv
    <3>3. At(log[k]) \in DOMAIN state.panel /\ At(log[k]) <= i
      BY <2>1, <3>2, FirstAt
    <3> HIDE DEF At
    <3> QED  BY <2>1, <3>1, <3>2, <3>3
  <2>5. \A e, f \in Notices!Range(log) : e.by = f.by /\ e.n < f.n => At(e) < At(f)
    <3> HIDE DEF At
    <3> QED  BY <2>4 DEF Notices!Range
  <2> QED  BY <2>3, <2>5
<1> QED  BY <1>1, <1>2, <1>3, PTL DEF DesktopSpec

-----------------------------------------------------------------------------
(***************************************************************************)
(* The store of themes, on its own: for every set of files, identifiers    *)
(* and looks, every directory at the start and every bound on saves and    *)
(* choices.                                                                *)
(***************************************************************************)
USE DEF Choice, Looks, NoThemes

(***************************************************************************)
(* What a window shows is of a known kind.                                 *)
(***************************************************************************)
LEMMA GetType ==
  ASSUME NEW themesRead \in Looks, NEW id \in Choice
  PROVE  Get(themesRead, id) \in
           [is : {"custom", "bundled", "fallback"}, of : Look \cup Choice]
  BY IdAssumption DEF Get, Shown, Fallback

(***************************************************************************)
(* Every variable stays in its domain.                                     *)
(***************************************************************************)
THEOREM TypeCorrect == Spec => []TypeOK
<1>1. Init => TypeOK
  <2> SUFFICES ASSUME Init PROVE TypeOK
    OBVIOUS
  <2>1. window \in [at : {"calm", "asked"}, id : Choice,
                    shown : [is : {"custom", "bundled", "fallback"}, of : Look \cup Choice]]
    BY DEF Init, Shown, Fallback
  <2>2. NoThemes \in [Id -> Look \cup {None}] /\ Present(dir) \subseteq File
    BY DEF Present
  <2>3. dir \in Dirs
    BY DirAssumption DEF Init
  <2>4. saves \in 0..MaxSaves /\ sets \in 0..MaxSets /\ inbox \in Nat
    BY BoundsAssumption DEF Init
  <2> QED  BY <2>1, <2>2, <2>3, <2>4 DEF Init, TypeOK
<1>2. TypeOK /\ [Next]_vars => TypeOK'
  <2> SUFFICES ASSUME TypeOK, [Next]_vars PROVE TypeOK'
    OBVIOUS
  <2> USE DEF TypeOK, disk, themes, scan, client, screen, user
  <2>1. ASSUME NEW f \in File, NEW c \in Saved, Save(f, c) PROVE TypeOK'
    BY <2>1, DirAssumption, BoundsAssumption DEF Save, Dirs
  <2>2. ASSUME NEW f \in File, ReadFile(f) PROVE TypeOK'
    BY <2>2 DEF ReadFile, Theme
  <2>3. CASE StartReload
    BY <2>3 DEF StartReload, Present
  <2>4. CASE Load
    BY <2>4 DEF Load
  <2>5. CASE StartWatcher
    BY <2>5 DEF StartWatcher
  <2>6. CASE Publish
    BY <2>6 DEF Publish
  <2>7. CASE PublishDiagnostics
    BY <2>7 DEF PublishDiagnostics
  <2>8. ASSUME NEW id \in Id, Announce(id) PROVE TypeOK'
    BY <2>8 DEF Announce
  <2>9. ASSUME NEW id \in Id, CheckActive(id) PROVE TypeOK'
    BY <2>9 DEF CheckActive
  <2>10. ASSUME NEW id \in Id, RetellActive(id) PROVE TypeOK'
    BY <2>10 DEF RetellActive
  <2>11. ASSUME NEW id \in Id, TellReset(id) PROVE TypeOK'
    BY <2>11 DEF TellReset
  <2>12. CASE ResetActive
    BY <2>12 DEF ResetActive
  <2>13. CASE EndReload
    BY <2>13 DEF EndReload
  <2>14. CASE Joined
    BY <2>14 DEF Joined
  <2>15. ASSUME NEW id \in Choice, SetActive(id) PROVE TypeOK'
    BY <2>15, BoundsAssumption DEF SetActive
  <2>16. ASSUME NEW id \in Choice, SendActive(id) PROVE TypeOK'
    BY <2>16 DEF SendActive
  <2>17. CASE Refresh
    <3>1. window' = [at |-> "asked", id |-> active, shown |-> window.shown]
      BY <2>17 DEF Refresh
    <3>2. inbox' \in Nat
      BY <2>17 DEF Refresh
    <3> QED  BY <2>17, <3>1, <3>2 DEF Refresh
  <2>18. CASE Redraw
    <3>1. window.id \in Choice /\ custom \in Looks
      OBVIOUS
    <3>2. Get(custom, window.id) \in
            [is : {"custom", "bundled", "fallback"}, of : Look \cup Choice]
      BY <3>1, GetType
    <3> DEFINE shown == Get(custom, window.id)
    <3> HIDE DEF shown
    <3>3. shown \in [is : {"custom", "bundled", "fallback"}, of : Look \cup Choice]
      BY <3>2 DEF shown
    <3>4. window' = [at |-> "calm", id |-> None, shown |-> shown]
      BY <2>18 DEF Redraw, shown
    <3>5. window' \in [at : {"calm", "asked"}, id : Choice,
                       shown : [is : {"custom", "bundled", "fallback"}, of : Look \cup Choice]]
      BY <3>3, <3>4
    <3> QED  BY <2>18, <3>5 DEF Redraw
  <2>19. CASE Drop
    BY <2>19 DEF Drop
  <2>20. CASE UNCHANGED vars
    BY <2>20 DEF vars
  <2>21. CASE Next
    BY <2>21, <2>1, <2>2, <2>3, <2>4, <2>5, <2>6, <2>7, <2>8, <2>9, <2>10, <2>11, <2>12,
       <2>13, <2>14, <2>15, <2>16, <2>17, <2>18, <2>19 DEF Next, Driver
  <2> QED  BY <2>20, <2>21
<1> QED  BY <1>1, <1>2, PTL DEF Spec

-----------------------------------------------------------------------------
(***************************************************************************)
(* MirrorIsExact needs to know, at each point of a reload, which of the    *)
(* three maps the subscriber agrees with: before the themes are published  *)
(* the old ones, afterwards the store's, except for the identifiers that   *)
(* are still to be announced; and between the announcement of one and its  *)
(* end, for that one too.                                                  *)
(***************************************************************************)
Telling == {"announcing", "checking", "retelling", "resetting", "telling"}

Mirrored ==
  /\ event => watcher # "unset"
  /\ watcher = "unset" => pc \in {"reading", "idle"}
  /\ pc = "idle" => watcher = "unset" \/ mirror = custom
  /\ pc = "idle" /\ watcher = "unset" => mirror = custom
  /\ pc = "reading" /\ watcher # "unset" => old = custom /\ mirror = custom
  /\ pc = "published" => custom = new /\ mirror = old
  /\ pc \in Telling => custom = new /\ \A id \in Id \ left : mirror[id] = custom[id]
  /\ pc \in Telling \ {"announcing"} => \A id \in Id : First(id) => mirror[id] = custom[id]

(***************************************************************************)
(* The announcement that comes first is unique.                            *)
(***************************************************************************)
LEMMA FirstUnique ==
  ASSUME NEW a \in Id, NEW b \in Id, First(a), First(b)
  PROVE  a = b
<1>1. Rank(a) \in {0, 1, 2} /\ Rank(b) \in {0, 1, 2}
  BY DEF Rank
<1>2. a \in Nat /\ b \in Nat /\ a \in left /\ b \in left
  BY IdAssumption DEF First
<1> QED  BY <1>1, <1>2 DEF First

LEMMA MirroredHolds == Spec => []Mirrored
<1> USE DEF Mirrored, Telling
<1>1. Init => Mirrored
  BY DEF Init
<1>2. TypeOK /\ Mirrored /\ [Next]_vars => Mirrored'
  <2> SUFFICES ASSUME TypeOK, Mirrored, [Next]_vars PROVE Mirrored'
    OBVIOUS
  <2> USE DEF disk, themes, scan, client, screen, user
  <2>1. ASSUME NEW f \in File, NEW c \in Saved, Save(f, c) PROVE Mirrored'
    BY <2>1 DEF Save, First, Rank
  <2>2. ASSUME NEW f \in File, ReadFile(f) PROVE Mirrored'
    BY <2>2 DEF ReadFile
  <2>3. CASE StartReload
    BY <2>3 DEF StartReload
  <2>4. CASE Load
    BY <2>4 DEF Load
  <2>5. CASE StartWatcher
    BY <2>5 DEF StartWatcher, First, Rank
  <2>6. CASE Publish
    BY <2>6 DEF Publish
  <2>7. CASE PublishDiagnostics
    BY <2>7 DEF PublishDiagnostics
  <2>8. ASSUME NEW id \in Id, Announce(id) PROVE Mirrored'
    <3>1. \A other \in Id : First(other) => other = id
      BY <2>8, FirstUnique DEF Announce
    <3>2. mirror'[id] = custom[id] /\ \A other \in Id \ {id} : mirror'[other] = mirror[other]
      BY <2>8 DEF Announce, TypeOK
    <3>3. pc' = "checking" => \A other \in Id : First(other)' <=> First(other)
      BY <2>8 DEF Announce, First, Rank
    <3> QED  BY <2>8, <3>1, <3>2, <3>3 DEF Announce
  <2>9. ASSUME NEW id \in Id, CheckActive(id) PROVE Mirrored'
    <3>1. mirror[id] = custom[id]
      BY <2>9 DEF CheckActive
    <3> QED  BY <2>9, <3>1 DEF CheckActive, First, Rank
  <2>10. ASSUME NEW id \in Id, RetellActive(id) PROVE Mirrored'
    BY <2>10 DEF RetellActive
  <2>11. ASSUME NEW id \in Id, TellReset(id) PROVE Mirrored'
    BY <2>11 DEF TellReset
  <2>12. CASE ResetActive
    BY <2>12 DEF ResetActive, First, Rank
  <2>13. CASE EndReload
    BY <2>13 DEF EndReload, TypeOK
  <2>14. CASE Joined
    BY <2>14 DEF Joined, First, Rank
  <2>15. ASSUME NEW id \in Choice, SetActive(id) PROVE Mirrored'
    BY <2>15 DEF SetActive, First, Rank
  <2>16. ASSUME NEW id \in Choice, SendActive(id) PROVE Mirrored'
    BY <2>16 DEF SendActive, First, Rank
  <2>17. CASE Refresh
    BY <2>17 DEF Refresh, First, Rank
  <2>18. CASE Redraw
    BY <2>18 DEF Redraw, First, Rank
  <2>19. CASE Drop
    BY <2>19 DEF Drop, Serving, First, Rank
  <2>20. CASE UNCHANGED vars
    BY <2>20 DEF vars, First, Rank
  <2>21. CASE Next
    BY <2>21, <2>1, <2>2, <2>3, <2>4, <2>5, <2>6, <2>7, <2>8, <2>9, <2>10, <2>11, <2>12,
       <2>13, <2>14, <2>15, <2>16, <2>17, <2>18, <2>19 DEF Next, Driver
  <2> QED  BY <2>20, <2>21
<1> QED  BY <1>1, <1>2, TypeCorrect, PTL DEF Spec

(***************************************************************************)
(* A subscriber that fetches each theme it is told of holds the store's    *)
(* themes after every reload.                                              *)
(***************************************************************************)
THEOREM MirrorCorrect == Spec => []MirrorIsExact
<1>1. Mirrored => MirrorIsExact
  BY DEF Mirrored, MirrorIsExact
<1> QED  BY <1>1, MirroredHolds, PTL

-----------------------------------------------------------------------------
(***************************************************************************)
(* ChoiceSurvives needs the driver's and the setter's messages on their    *)
(* way: whoever is about to tell something is alone in it, and tells what  *)
(* the active theme is or is about to become.                              *)
(***************************************************************************)
Agreed ==
  ~raced =>
    /\ sending # {} => /\ sending = {active} /\ active = chosen
                       /\ pc \notin {"resetting", "telling", "retelling"}
    /\ sending = {} /\ pc \notin {"resetting", "telling"} =>
         active = chosen /\ toldActive = active
    /\ pc = "resetting" => chosen = None
    /\ pc = "telling" => chosen = None /\ active = None
    /\ pc = "retelling" => \A id \in Id : First(id) => id = active

LEMMA AgreedHolds == Spec => []Agreed
<1> USE DEF Agreed
<1>1. Init => Agreed
  BY DEF Init
<1>2. TypeOK /\ Agreed /\ [Next]_vars => Agreed'
  <2> SUFFICES ASSUME TypeOK, Agreed, [Next]_vars, ~raced' PROVE Agreed'
    OBVIOUS
  <2> USE DEF disk, themes, scan, client, screen, user
  <2>1. ASSUME NEW f \in File, NEW c \in Saved, Save(f, c) PROVE Agreed'
    BY <2>1 DEF Save, First, Rank
  <2>2. ASSUME NEW f \in File, ReadFile(f) PROVE Agreed'
    BY <2>2 DEF ReadFile
  <2>3. CASE StartReload
    BY <2>3 DEF StartReload
  <2>4. CASE Load
    BY <2>4 DEF Load
  <2>5. CASE StartWatcher
    BY <2>5 DEF StartWatcher
  <2>6. CASE Publish
    BY <2>6 DEF Publish
  <2>7. CASE PublishDiagnostics
    BY <2>7 DEF PublishDiagnostics
  <2>8. ASSUME NEW id \in Id, Announce(id) PROVE Agreed'
    BY <2>8 DEF Announce
  <2>9. ASSUME NEW id \in Id, CheckActive(id) PROVE Agreed'
    <3>1. \A other \in Id : First(other) => other = id
      BY <2>9, FirstUnique DEF CheckActive
    <3>2. CASE active = id
      <4>1. left' = left /\ old' = old /\ new' = new /\ active' = active
        BY <2>9, <3>2 DEF CheckActive
      <4>2. \A other \in Id : First(other)' <=> First(other)
        BY <4>1 DEF First, Rank
      <4> QED  BY <2>9, <3>1, <3>2, <4>1, <4>2 DEF CheckActive
    <3>3. CASE active # id
      BY <2>9, <3>3 DEF CheckActive
    <3> QED  BY <3>2, <3>3
  <2>10. ASSUME NEW id \in Id, RetellActive(id) PROVE Agreed'
    BY <2>10 DEF RetellActive
  <2>11. ASSUME NEW id \in Id, TellReset(id) PROVE Agreed'
    BY <2>11 DEF TellReset
  <2>12. CASE ResetActive
    BY <2>12 DEF ResetActive
  <2>13. CASE EndReload
    BY <2>13 DEF EndReload
  <2>14. CASE Joined
    BY <2>14 DEF Joined
  <2>15. ASSUME NEW id \in Choice, SetActive(id) PROVE Agreed'
    BY <2>15 DEF SetActive
  <2>16. ASSUME NEW id \in Choice, SendActive(id) PROVE Agreed'
    BY <2>16 DEF SendActive
  <2>17. CASE Refresh
    BY <2>17 DEF Refresh, First, Rank
  <2>18. CASE Redraw
    BY <2>18 DEF Redraw, First, Rank
  <2>19. CASE Drop
    BY <2>19 DEF Drop, First, Rank
  <2>20. CASE UNCHANGED vars
    BY <2>20 DEF vars, First, Rank
  <2>21. CASE Next
    BY <2>21, <2>1, <2>2, <2>3, <2>4, <2>5, <2>6, <2>7, <2>8, <2>9, <2>10, <2>11, <2>12,
       <2>13, <2>14, <2>15, <2>16, <2>17, <2>18, <2>19 DEF Next, Driver
  <2> QED  BY <2>20, <2>21
<1> QED  BY <1>1, <1>2, TypeCorrect, PTL DEF Spec

(***************************************************************************)
(* The last choice is the active theme and the last message says so,       *)
(* unless the setter and the driver met.                                   *)
(***************************************************************************)
THEOREM ChoiceCorrect == Spec => []ChoiceSurvives
<1>1. Agreed => ChoiceSurvives
  BY DEF Agreed, ChoiceSurvives
<1> QED  BY <1>1, AgreedHolds, PTL

-----------------------------------------------------------------------------
(***************************************************************************)
(* A theme that is gone does not stay active: until the driver has looked  *)
(* at it, it is among the announcements to come, and then it is reset.     *)
(***************************************************************************)
Quiet ==
  watcher = "unset" =>
    active = None /\ sending = {} /\ inbox = 0 /\ window.at = "calm" /\ window.shown = Fallback

Doomed ==
  /\ active \in Id
  /\ old[active] # None
  /\ pc = "published" \/ (pc \in {"announcing", "checking"} /\ active \in left)

Alive ==
  ~unknown /\ active \in Id => custom[active] # None \/ Doomed \/ pc = "resetting"

LEMMA AliveHolds == Spec => [](Quiet /\ Alive)
<1> USE DEF Quiet, Alive, Doomed
<1>1. Init => Quiet /\ Alive
  BY DistinctAssumption DEF Init
<1>2. TypeOK /\ Mirrored /\ Quiet /\ Alive /\ [Next]_vars => (Quiet /\ Alive)'
  <2> SUFFICES ASSUME TypeOK, Mirrored, Quiet, Alive, [Next]_vars PROVE (Quiet /\ Alive)'
    OBVIOUS
  <2> USE DEF disk, themes, scan, client, screen, user
  <2>1. ASSUME NEW f \in File, NEW c \in Saved, Save(f, c) PROVE (Quiet /\ Alive)'
    BY <2>1 DEF Save
  <2>2. ASSUME NEW f \in File, ReadFile(f) PROVE (Quiet /\ Alive)'
    BY <2>2 DEF ReadFile
  <2>3. CASE StartReload
    BY <2>3 DEF StartReload
  <2>4. CASE Load
    BY <2>4, DistinctAssumption DEF Load
  <2>5. CASE StartWatcher
    BY <2>5 DEF StartWatcher
  <2>6. CASE Publish
    BY <2>6 DEF Publish, Mirrored
  <2>7. CASE PublishDiagnostics
    BY <2>7 DEF PublishDiagnostics, Mirrored
  <2>8. ASSUME NEW id \in Id, Announce(id) PROVE (Quiet /\ Alive)'
    BY <2>8 DEF Announce, Rank
  <2>9. ASSUME NEW id \in Id, CheckActive(id) PROVE (Quiet /\ Alive)'
    BY <2>9 DEF CheckActive, Rank, Mirrored, Telling, First
  <2>10. ASSUME NEW id \in Id, RetellActive(id) PROVE (Quiet /\ Alive)'
    BY <2>10 DEF RetellActive, Mirrored, Telling
  <2>11. ASSUME NEW id \in Id, TellReset(id) PROVE (Quiet /\ Alive)'
    BY <2>11 DEF TellReset, Mirrored, Telling
  <2>12. CASE ResetActive
    BY <2>12, DistinctAssumption DEF ResetActive
  <2>13. CASE EndReload
    BY <2>13 DEF EndReload
  <2>14. CASE Joined
    BY <2>14 DEF Joined
  <2>15. ASSUME NEW id \in Choice, SetActive(id) PROVE (Quiet /\ Alive)'
    BY <2>15 DEF SetActive, Serving
  <2>16. ASSUME NEW id \in Choice, SendActive(id) PROVE (Quiet /\ Alive)'
    BY <2>16 DEF SendActive
  <2>17. CASE Refresh
    BY <2>17 DEF Refresh, Serving
  <2>18. CASE Redraw
    BY <2>18 DEF Redraw
  <2>19. CASE Drop
    BY <2>19 DEF Drop
  <2>20. CASE UNCHANGED vars
    BY <2>20 DEF vars
  <2>21. CASE Next
    BY <2>21, <2>1, <2>2, <2>3, <2>4, <2>5, <2>6, <2>7, <2>8, <2>9, <2>10, <2>11, <2>12,
       <2>13, <2>14, <2>15, <2>16, <2>17, <2>18, <2>19 DEF Next, Driver
  <2> QED  BY <2>20, <2>21
<1> QED  BY <1>1, <1>2, TypeCorrect, MirroredHolds, PTL DEF Spec

(***************************************************************************)
(* WindowFollows needs to know what is still under way to the window: a    *)
(* message, a change of the active theme that has not been told, or a look *)
(* of the driver at the active theme that is still due.                    *)
(***************************************************************************)
Pending == inbox > 0 \/ sending # {} \/ pc \in {"retelling", "resetting", "telling"}

Due ==
  /\ active \in Id
  /\ old[active] # None
  /\ \/ pc = "published" /\ old[active] # new[active]
     \/ pc \in {"announcing", "checking"} /\ active \in left

Shows ==
  Serving =>
    /\ window.at = "asked" => Pending \/ window.id = active
    /\ window.at = "calm" /\ ~blind => Pending \/ Due \/ window.shown = Get(custom, active)

LEMMA ShowsHolds == Spec => []Shows
<1> USE DEF Shows, Serving, Pending, Due
<1>1. Init => Shows
  BY DEF Init
<1>2. TypeOK /\ Mirrored /\ Quiet /\ Shows /\ [Next]_vars => Shows'
  <2> SUFFICES ASSUME TypeOK, Mirrored, Quiet, Shows, [Next]_vars PROVE Shows'
    OBVIOUS
  <2> USE DEF disk, themes, scan, client, screen, user
  <2>1. ASSUME NEW f \in File, NEW c \in Saved, Save(f, c) PROVE Shows'
    BY <2>1 DEF Save
  <2>2. ASSUME NEW f \in File, ReadFile(f) PROVE Shows'
    BY <2>2 DEF ReadFile
  <2>3. CASE StartReload
    BY <2>3 DEF StartReload
  <2>4. CASE Load
    BY <2>4 DEF Load
  <2>5. CASE StartWatcher
    <3>1. None \notin Id /\ None \notin Bundled
      BY IdAssumption, DistinctAssumption
    <3>2. Get(custom, None) = Fallback
      BY <3>1 DEF Get
    <3> QED  BY <2>5, <3>2 DEF StartWatcher, Quiet
  <2>6. CASE Publish
    <3>1. ~blind' /\ active \in Id /\ old[active] # new[active] => old[active] # None
      BY <2>6 DEF Publish, TypeOK
    <3>2. old = custom /\ custom' = new
      BY <2>6 DEF Publish, Mirrored
    <3>3. ~(active \in Id /\ old[active] # new[active])
            => Get(custom, active)' = Get(custom, active)
      BY <2>6, <3>2 DEF Publish, Get
    <3> QED  BY <2>6, <3>1, <3>2, <3>3 DEF Publish
  <2>7. CASE PublishDiagnostics
    BY <2>7 DEF PublishDiagnostics
  <2>8. ASSUME NEW id \in Id, Announce(id) PROVE Shows'
    BY <2>8 DEF Announce, Rank
  <2>9. ASSUME NEW id \in Id, CheckActive(id) PROVE Shows'
    BY <2>9 DEF CheckActive
  <2>10. ASSUME NEW id \in Id, RetellActive(id) PROVE Shows'
    BY <2>10 DEF RetellActive, TypeOK
  <2>11. ASSUME NEW id \in Id, TellReset(id) PROVE Shows'
    BY <2>11 DEF TellReset, TypeOK
  <2>12. CASE ResetActive
    BY <2>12 DEF ResetActive
  <2>13. CASE EndReload
    BY <2>13 DEF EndReload
  <2>14. CASE Joined
    BY <2>14 DEF Joined
  <2>15. ASSUME NEW id \in Choice, SetActive(id) PROVE Shows'
    BY <2>15 DEF SetActive
  <2>16. ASSUME NEW id \in Choice, SendActive(id) PROVE Shows'
    BY <2>16 DEF SendActive, TypeOK
  <2>17. CASE Refresh
    BY <2>17 DEF Refresh, TypeOK
  <2>18. CASE Redraw
    BY <2>18 DEF Redraw
  <2>19. CASE Drop
    BY <2>19 DEF Drop
  <2>20. CASE UNCHANGED vars
    BY <2>20 DEF vars
  <2>21. CASE Next
    BY <2>21, <2>1, <2>2, <2>3, <2>4, <2>5, <2>6, <2>7, <2>8, <2>9, <2>10, <2>11, <2>12,
       <2>13, <2>14, <2>15, <2>16, <2>17, <2>18, <2>19 DEF Next, Driver
  <2> QED  BY <2>20, <2>21
<1> QED  BY <1>1, <1>2, TypeCorrect, MirroredHolds, AliveHolds, PTL DEF Spec

(***************************************************************************)
(* A window that has handled its messages shows the active theme.          *)
(***************************************************************************)
THEOREM WindowCorrect == Spec => []WindowFollows
<1>1. TypeOK /\ Alive /\ Shows => WindowFollows
  <2> SUFFICES ASSUME TypeOK, Alive, Shows,
                      pc = "idle", Serving, sending = {}, inbox = 0, window.at = "calm", ~blind
               PROVE  /\ window.shown = Get(custom, active)
                      /\ window.shown = Fallback => unknown \/ active = None
    BY DEF WindowFollows
  <2>1. window.shown = Get(custom, active)
    BY DEF Shows, Pending, Due
  <2>2. active \in Id /\ ~unknown => Get(custom, active).is = "custom"
    BY DEF Alive, Doomed, Get, Shown
  <2>3. Fallback.is = "fallback"
    BY DEF Fallback, Shown
  <2> QED  BY <2>1, <2>2, <2>3 DEF TypeOK
<1> QED  BY <1>1, TypeCorrect, AliveHolds, ShowsHolds, PTL

=============================================================================
