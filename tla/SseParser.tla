------------------------------- MODULE SseParser -------------------------------
(***************************************************************************)
(* The Server-Sent Events parser of the OpenAI-compatible adapter          *)
(* (crates/ai-providers/src/openai_compatible/sse.rs), as operators on its *)
(* state.  Bytes are carriage returns, line feeds, and pieces: a piece of  *)
(* the payload of a data line, or an aside (a comment, an event, id or     *)
(* retry line).  feed does the same to each byte of a chunk, so where      *)
(* chunks are cut shows only in when the completed events are drained.     *)
(***************************************************************************)
EXTENDS SequencesExt

CR == [kind |-> "cr"]
LF == [kind |-> "lf"]
Aside == [kind |-> "aside"]

EmptyParser ==
  [line_buffer |-> <<>>, pending_data |-> <<>>, completed |-> <<>>,
   saw_cr |-> FALSE]

(***************************************************************************)
(* flush_line: an empty line completes the event, an aside is dropped, a   *)
(* data line joins the event.                                              *)
(***************************************************************************)
FlushLine(p) ==
  CASE p.line_buffer = <<>> /\ p.pending_data = <<>> -> p
    [] p.line_buffer = <<>> /\ p.pending_data # <<>> ->
         [p EXCEPT !.pending_data = <<>>,
                   !.completed = Append(@, p.pending_data)]
    [] p.line_buffer # <<>> /\ Aside = p.line_buffer[1] ->
         [p EXCEPT !.line_buffer = <<>>]
    [] OTHER ->
         [p EXCEPT !.line_buffer = <<>>,
                   !.pending_data = @ \o p.line_buffer]

(***************************************************************************)
(* Mutation of Byte: the pair CR LF is taken for two line ends.            *)
(***************************************************************************)
ByteTwoEnds(p, b) ==
  IF b \in {CR, LF} THEN FlushLine(p) ELSE [p EXCEPT !.line_buffer = Append(@, b)]

(***************************************************************************)
(* One byte of feed: CR, LF and CR LF each end a line.                     *)
(***************************************************************************)
Byte(p, b) ==
  CASE b = LF /\ p.saw_cr -> [p EXCEPT !.saw_cr = FALSE]
    [] b = LF /\ ~p.saw_cr -> FlushLine(p)
    [] b = CR -> FlushLine([p EXCEPT !.saw_cr = ~@])
    [] OTHER -> [p EXCEPT !.saw_cr = FALSE, !.line_buffer = Append(@, b)]

================================================================================
