------------------------------- MODULE Agents -------------------------------
(***************************************************************************)
(* The ledger of an agent loop: what it has used against its budget        *)
(* (shared/src/agent.rs), and the retry decisions of its tool calls        *)
(* (observability/src/retry.rs).  The loop itself is not written yet: it   *)
(* is any order of the calls the ledger offers, each at a clock reading    *)
(* that may lie before the last, and of tool attempts that fail in any     *)
(* way.                                                                    *)
(***************************************************************************)
EXTENDS Naturals, Sequences, SequencesExt

CONSTANTS
  MaxU32, MaxClock, \* the ends of u32 and of the clock readings
  Deltas,           \* usage reports
  Budgets,          \* per dimension the set of its cap, empty when open
  Policies          \* [max_transient_attempts, transient_backoff]

(***************************************************************************)
(* What the types in agent.rs and retry.rs say of the constants.           *)
(***************************************************************************)
Typed ==
  /\ MaxU32 \in Nat \ {0} /\ MaxClock \in Nat
  /\ Deltas \subseteq [input : Nat, output : Nat, cached : Nat]
  /\ Budgets \subseteq [{"Turns", "Tokens", "ToolCalls", "WallClock"} -> SUBSET Nat]
  /\ Policies \subseteq [max_transient_attempts : 0..MaxU32, transient_backoff : Seq(Nat)]

Dimensions == <<"Turns", "Tokens", "ToolCalls", "WallClock">>
ToolErrorKind ==
  {"InvalidArgs", "SandboxBlocked", "Cancelled", "Io", "PermissionDenied", "Internal"}
Count == 0..MaxU32

VARIABLES
  budget, \* AgentLoopBudget
  usage,  \* AccumulatedUsage
  policy, \* RetryPolicy
  tool    \* the tool call under way: completed attempts, waits before retries, how it ended

vars == <<budget, usage, policy, tool>>

NoTool == [at |-> "none", attempts |-> 0, waits |-> <<>>, failed |-> "Io"]

TypeOK ==
  /\ budget \in Budgets /\ policy \in Policies
  /\ usage \in [input : Count, output : Count, cached : Count, turn_count : Count,
                tool_call_count : Count, started_at : 0..MaxClock, last_event_at : 0..MaxClock]
  /\ tool.at \in {"none", "running", "surfaced", "cancelled", "done"}
  /\ tool.attempts \in Count /\ tool.failed \in ToolErrorKind

Init ==
  /\ budget \in Budgets /\ policy \in Policies
  /\ \E now \in 0..MaxClock :
       usage = [input |-> 0, output |-> 0, cached |-> 0, turn_count |-> 0,
                tool_call_count |-> 0, started_at |-> now, last_event_at |-> now]
  /\ tool = NoTool

-----------------------------------------------------------------------------
(***************************************************************************)
(* Mutation of Plus: the sum wraps.                                        *)
(***************************************************************************)
PlusWraps(a, b) == (a + b) % (MaxU32 + 1)

(***************************************************************************)
(* saturating_add.                                                         *)
(***************************************************************************)
Plus(a, b) == IF a + b > MaxU32 THEN MaxU32 ELSE a + b

(***************************************************************************)
(* add_usage, record_turn, record_tool_call.                               *)
(***************************************************************************)
AddUsage(delta, now) ==
  /\ usage' = [usage EXCEPT !.input = Plus(@, delta.input), !.output = Plus(@, delta.output),
                            !.cached = Plus(@, delta.cached), !.last_event_at = now]
  /\ UNCHANGED <<budget, policy, tool>>

RecordTurn(now) ==
  /\ usage' = [usage EXCEPT !.turn_count = Plus(@, 1), !.last_event_at = now]
  /\ UNCHANGED <<budget, policy, tool>>

RecordToolCall(now) ==
  /\ usage' = [usage EXCEPT !.tool_call_count = Plus(@, 1), !.last_event_at = now]
  /\ tool' = [NoTool EXCEPT !.at = "running"]
  /\ UNCHANGED <<budget, policy>>

(***************************************************************************)
(* total_tokens adds what is cached once more; elapsed is nothing when the *)
(* last event lies before the start.                                       *)
(***************************************************************************)
TotalTokens(u) == Plus(Plus(u.input, u.output), u.cached)

Elapsed(u) == IF u.last_event_at < u.started_at THEN 0 ELSE u.last_event_at - u.started_at

(***************************************************************************)
(* is_exhausted: the places of the dimensions at their cap; the first one  *)
(* is reported.                                                            *)
(***************************************************************************)
Used(u) ==
  [Turns |-> u.turn_count, Tokens |-> TotalTokens(u), ToolCalls |-> u.tool_call_count,
   WallClock |-> Elapsed(u)]

Exhausted(u) ==
  {i \in 1..4 : \E cap \in budget[Dimensions[i]] : Used(u)[Dimensions[i]] >= cap}

-----------------------------------------------------------------------------
(***************************************************************************)
(* classify and decide, on a tool call that has been attempted once more.  *)
(***************************************************************************)
Classify(kind) ==
  CASE kind = "Cancelled"                             -> "Cancelled"
    [] kind \in {"SandboxBlocked", "PermissionDenied"} -> "PermissionDenied"
    [] kind = "Io"                                    -> "Transient"
    [] OTHER                                          -> "Permanent"

Backoff(attempts) ==
  LET index == IF attempts = 0 THEN 1 ELSE attempts
      waits == policy.transient_backoff
  IN CASE index <= Len(waits)              -> waits[index]
       [] index > Len(waits) /\ waits # <<>> -> Last(waits)
       [] OTHER                            -> 0

Retries(class, attempts) ==
  class = "Transient" /\ attempts < policy.max_transient_attempts

ToolFails(kind) ==
  LET attempts == tool.attempts + 1
      class == Classify(kind)
  IN /\ tool.at = "running"
     /\ tool' = [tool EXCEPT !.attempts = attempts, !.failed = kind,
          !.waits = IF Retries(class, attempts) THEN Append(@, Backoff(attempts)) ELSE @,
          !.at = IF Retries(class, attempts) THEN @
                 ELSE IF class = "Cancelled" THEN "cancelled" ELSE "surfaced"]
     /\ UNCHANGED <<budget, usage, policy>>

ToolSucceeds ==
  /\ tool.at = "running"
  /\ tool' = [tool EXCEPT !.at = "done", !.attempts = @ + 1]
  /\ UNCHANGED <<budget, usage, policy>>

Next ==
  \/ \E delta \in Deltas, now \in 0..MaxClock : AddUsage(delta, now)
  \/ \E now \in 0..MaxClock : RecordTurn(now) \/ RecordToolCall(now)
  \/ \E kind \in ToolErrorKind : ToolFails(kind)
  \/ ToolSucceeds

Spec == Init /\ [][Next]_vars

-----------------------------------------------------------------------------
(***************************************************************************)
(* A loop that has used up turns, tokens or tool calls stays so however    *)
(* long it runs on, and the dimension reported only moves to one checked   *)
(* before it: the counters saturate where wrapping would make room again.  *)
(* (The wall clock does come back when the clock is set back.)             *)
(***************************************************************************)
Rank(u) == CHOOSE i \in Exhausted(u) \cup {5} : \A j \in Exhausted(u) : i <= j

ExhaustionSticks == [][Rank(usage) < 4 => Rank(usage') <= Rank(usage)]_vars

(***************************************************************************)
(* A tool call is attempted no more often than its policy says, and at     *)
(* least once; waits follow the schedule and then its last entry; and      *)
(* a call that ended otherwise than in success ended by its last failure.  *)
(***************************************************************************)
RetriesEnd ==
  /\ Len(tool.waits) < policy.max_transient_attempts \/ tool.waits = <<>>
  /\ tool.at = "running" => Len(tool.waits) = tool.attempts
  /\ tool.at \in {"surfaced", "cancelled"} => Len(tool.waits) = tool.attempts - 1
  /\ tool.at = "surfaced" => \/ tool.failed # "Io"
                             \/ tool.attempts >= policy.max_transient_attempts
=============================================================================
