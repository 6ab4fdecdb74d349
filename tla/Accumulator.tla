----------------------------- MODULE Accumulator -----------------------------
(***************************************************************************)
(* The tool-call accumulator (ai-providers/src/accumulator.rs).  A script  *)
(* of calls, malformed objects and prose arrives in fragments cut          *)
(* anywhere, and the consumer takes what is finished when it likes.        *)
(* Characters are braces, quotes, backslashes and any other.               *)
(***************************************************************************)
EXTENDS Naturals, Sequences, SequencesExt

CONSTANTS
  Calls,   \* texts that parse as a tool call
  Others,  \* texts that do not: malformed objects and prose
  MaxItems

Open == "{"
Close == "}"
Quote == "q"
Backslash == "b"

VARIABLES
  script,  \* the texts of the stream, in order
  fed,     \* how many of its characters have been appended
  buffer, scan_pos, scan, object_start, finished,
  taken,   \* what take_finished has returned: texts of calls and "invalid"
  stalled  \* history: a malformed object was taken and nothing appended since

vars == <<script, fed, buffer, scan_pos, scan, object_start, finished, taken, stalled>>

Outside == [in |-> "Outside", depth |-> 0]
Text == FlattenSeq(script)

TypeOK ==
  /\ fed \in 0..Len(Text)
  /\ scan_pos \in 0..Len(buffer)
  /\ scan.in \in {"Outside", "Object", "String", "Escape"} /\ scan.depth \in Nat
  /\ object_start \in 0..Len(buffer)
  /\ (scan = Outside) = (object_start = 0)

Init ==
  /\ script \in UNION {[1..n -> Calls \cup Others] : n \in 1..MaxItems}
  /\ fed = 0
  /\ buffer = <<>> /\ scan_pos = 0 /\ scan = Outside /\ object_start = 0 /\ finished = <<>>
  /\ taken = <<>> /\ stalled = FALSE

-----------------------------------------------------------------------------
(***************************************************************************)
(* The scanner: one character of `advance`.  Braces count outside string   *)
(* literals only, and a backslash in one takes the next character with it. *)
(***************************************************************************)
In(place, depth) == [in |-> place, depth |-> depth]

(***************************************************************************)
(* Mutation of Scan: a backslash is a character like any other.            *)
(***************************************************************************)
ScanUnescaped(at, char) ==
  CASE at.in = "Outside" -> IF char = Open THEN In("Object", 1) ELSE at
    [] at.in = "Object"  ->
         IF char = Quote THEN In("String", at.depth)
         ELSE IF char = Open THEN In("Object", at.depth + 1)
         ELSE IF char = Close
              THEN In(IF at.depth = 1 THEN "Outside" ELSE "Object", at.depth - 1) ELSE at
    [] OTHER -> IF char = Quote THEN In("Object", at.depth) ELSE at

Scan(at, char) ==
  CASE at.in = "Outside" -> IF char = Open THEN In("Object", 1) ELSE at
    [] at.in = "Object"  ->
         CASE char = Open  -> In("Object", at.depth + 1)
           [] char = Close -> In(IF at.depth = 1 THEN "Outside" ELSE "Object", at.depth - 1)
           [] char = Quote -> In("String", at.depth)
           [] OTHER        -> at
    [] at.in = "String"  ->
         CASE char = Backslash -> In("Escape", at.depth)
           [] char = Quote     -> In("Object", at.depth)
           [] OTHER            -> at
    [] at.in = "Escape"  -> In("String", at.depth)

(***************************************************************************)
(* advance: the rest of the buffer, up to the end of an object.            *)
(***************************************************************************)
Step(s, char, text) ==
  LET at  == s.scan_pos + 1
      now == Scan(s.scan, char)
      start == IF s.scan = Outside /\ now # Outside THEN at ELSE s.object_start
      ends  == s.scan # Outside /\ now = Outside
  IN IF s.finished # <<>> THEN s
     ELSE [scan_pos |-> at, scan |-> now, object_start |-> IF ends THEN 0 ELSE start,
           finished |-> IF ends THEN SubSeq(text, start, at) ELSE <<>>]

Advance(text, pos, done) ==
  LET now == [scan_pos |-> pos, scan |-> scan, object_start |-> object_start, finished |-> done]
      after[n \in pos..Len(text)] == IF n = pos THEN now ELSE Step(after[n - 1], text[n], text)
  IN after[Len(text)]

Becomes(s) ==
  /\ scan_pos' = s.scan_pos /\ scan' = s.scan
  /\ object_start' = s.object_start /\ finished' = s.finished

(***************************************************************************)
(* The fragment of the next n characters.                                  *)
(***************************************************************************)
AppendFragment(n) ==
  LET text == buffer \o SubSeq(Text, fed + 1, fed + n)
  IN /\ fed + n <= Len(Text) /\ fed' = fed + n
     /\ buffer' = text
     /\ Becomes(Advance(text, scan_pos, finished))
     /\ stalled' = FALSE
     /\ UNCHANGED <<script, taken>>

(***************************************************************************)
(* take_finished: the buffer up to the object's end goes; of a malformed   *)
(* object nothing more is done, the scan of what is left waits for the     *)
(* next fragment.                                                          *)
(***************************************************************************)
TakeFinished ==
  LET text == SubSeq(buffer, scan_pos + 1, Len(buffer))
      valid == finished \in Calls
  IN /\ finished # <<>>
     /\ buffer' = text
     /\ Becomes(IF valid THEN Advance(text, 0, <<>>)
                ELSE [scan_pos |-> 0, scan |-> scan, object_start |-> object_start,
                      finished |-> <<>>])
     /\ taken' = Append(taken, IF valid THEN finished ELSE <<>>)
     /\ stalled' = ~valid
     /\ UNCHANGED <<script, fed>>

Next ==
  \/ \E n \in 1..Len(Text) : AppendFragment(n)
  \/ TakeFinished

(***************************************************************************)
(* What a stream is made of: objects, whose last character closes the      *)
(* brace that the first one opened, and prose without an opening brace.    *)
(* Of a text's first n characters: whether they end inside a string, and   *)
(* how many braces outside strings are open after them.                    *)
(***************************************************************************)
Quoted(t) ==
  LET in[n \in 0..Len(t)] ==
        IF n = 0 THEN "no"
        ELSE CASE in[n - 1] = "no"      -> IF t[n] = Quote THEN "yes" ELSE "no"
               [] in[n - 1] = "escaped" -> "yes"
               [] OTHER -> IF t[n] = Backslash THEN "escaped"
                           ELSE IF t[n] = Quote THEN "no" ELSE "yes"
  IN in

Nesting(t) ==
  LET open[n \in 0..Len(t)] ==
        IF n = 0 THEN 0
        ELSE CASE Quoted(t)[n - 1] = "no" /\ t[n] = Open  -> open[n - 1] + 1
               [] Quoted(t)[n - 1] = "no" /\ t[n] = Close -> open[n - 1] - 1
               [] OTHER -> open[n - 1]
  IN open

IsObject(t) ==
  /\ t \in Seq(STRING) /\ t # <<>> /\ t[1] = Open
  /\ \A n \in 1..Len(t) : Nesting(t)[n] = 0 <=> n = Len(t)

IsProse(t) == t \in Seq(STRING) /\ t # <<>> /\ \A n \in 1..Len(t) : t[n] # Open

Lexical ==
  /\ \A t \in Calls : IsObject(t)
  /\ \A t \in Others : IsObject(t) \/ IsProse(t)

-----------------------------------------------------------------------------
(***************************************************************************)
(* Wherever the stream is cut and whenever calls are taken: what is taken  *)
(* are the objects of the stream, in order, each once and whole; and once  *)
(* all has arrived and nothing more is finished, all of them, unless the   *)
(* last thing taken was a malformed object.  (Then a call that was already *)
(* buffered behind it waits for a next fragment.)                          *)
(***************************************************************************)
Objects ==
  FlattenSeq([i \in DOMAIN script |->
                IF script[i][1] # Open THEN <<>>
                ELSE IF script[i] \in Calls THEN <<script[i]>> ELSE <<<<>>>>])

EveryCallOnce ==
  /\ IsPrefix(taken, Objects)
  /\ fed = Len(Text) /\ finished = <<>> /\ ~stalled => taken = Objects
=============================================================================
