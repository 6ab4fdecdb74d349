------------------------------- MODULE ChatStream ------------------------------
(***************************************************************************)
(* What AiProvider::chat_stream promises its consumer                      *)
(* (crates/shared/src/ai/provider.rs): the events the response stands for, *)
(* in order and without loss, then one terminal item, Done or Err.  Done   *)
(* comes only after everything that was received; an error may come at any *)
(* time and ends the stream.  Every adapter implements this module.        *)
(***************************************************************************)
EXTENDS Naturals, SequencesExt

VARIABLES
  expected,   \* the events that what was received so far stands for
  delivered,  \* the events the consumer has got
  status      \* "open", or the terminal item it has got: "done", "failed"

vars == <<expected, delivered, status>>

Init ==
  /\ expected = <<>>
  /\ delivered = <<>>
  /\ status = "open"

(***************************************************************************)
(* More of the response arrives; what it stood for so far stands.          *)
(***************************************************************************)
Arrive ==
  /\ status = "open"
  /\ IsPrefix(expected, expected')
  /\ UNCHANGED <<delivered, status>>

Deliver ==
  /\ status = "open"
  /\ Len(delivered) < Len(expected)
  /\ delivered' = Append(delivered, expected[Len(delivered) + 1])
  /\ UNCHANGED <<expected, status>>

Finish ==
  /\ status = "open"
  /\ delivered = expected
  /\ status' = "done"
  /\ UNCHANGED <<expected, delivered>>

Fail ==
  /\ status = "open"
  /\ IsPrefix(expected, expected')
  /\ status' = "failed"
  /\ UNCHANGED delivered

Next == Arrive \/ Deliver \/ Finish \/ Fail

Spec == Init /\ [][Next]_vars

================================================================================
