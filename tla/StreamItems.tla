------------------------------ MODULE StreamItems ------------------------------
(***************************************************************************)
(* The items a chat stream yields: events, and the two that end it, the    *)
(* event Done and an error (StreamEvent and AiError,                       *)
(* crates/shared/src/ai/provider.rs).                                      *)
(***************************************************************************)
EXTENDS Naturals, SequencesExt

CONSTANTS
  Indices,  \* indices of tool calls, or content blocks, in one response
  Ids,      \* correlation handles the upstream sends
  NoId      \* none of them

ASSUME IdsAssumption == NoId \notin Ids

DoneItem == [kind |-> "Done"]
ErrItem == [kind |-> "Err"]
Terminals == {DoneItem, ErrItem}

HasTerminal(items) == \E k \in DOMAIN items : items[k] \in Terminals
Events(items) ==
  FlattenSeq([k \in DOMAIN items |-> IF items[k] \in Terminals THEN <<>> ELSE <<items[k]>>])

(***************************************************************************)
(* What a consumer that stops at the first terminal item gets.             *)
(***************************************************************************)
UpToTerminal(items) ==
  LET cut == SelectInSeq(items, LAMBDA e : e \in Terminals)
  IN IF cut = 0 THEN items ELSE SubSeq(items, 1, cut - 1)

Ending(items) ==
  CASE DoneItem \in Range(items) -> "done"
    [] ErrItem \in Range(items) -> "failed"
    [] OTHER -> "open"

================================================================================
