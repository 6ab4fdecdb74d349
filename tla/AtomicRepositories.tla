--------------------------- MODULE AtomicRepositories --------------------------
(***************************************************************************)
(* What the repository traits of crates/shared/src/persistence promise     *)
(* their callers: a write takes effect at one instant of the call or not   *)
(* at all; NotFound and ConflictingWrite say what was true at that         *)
(* instant, DatabaseLocked and IoError say that nothing was written.       *)
(* A caller that dies or stops waiting does not learn which it was.        *)
(***************************************************************************)
EXTENDS Tables

CONSTANT Callers   \* tasks of all the processes that have the database open

VARIABLES
  contents,  \* the database
  ops        \* the call each caller has in flight, the answer to its last one

vars == <<contents, ops>>

Idle(reply) == [pending |-> FALSE, req |-> None, reply |-> reply]

Init ==
  /\ contents = Empty
  /\ ops = [c \in Callers |-> Idle(None)]

Invoke(c, r) ==
  /\ ~ops[c].pending
  /\ ops' = [ops EXCEPT ![c] = [pending |-> TRUE, req |-> r, reply |-> None]]
  /\ UNCHANGED contents

Return(c, reply) ==
  /\ ops[c].pending
  /\ ops' = [ops EXCEPT ![c] = Idle(reply)]

Apply(c) ==
  /\ \E reply \in {"Ok", None} : Return(c, reply)
  /\ Verdict(contents, ops[c].req) = "Ok"
  /\ contents' = Effect(contents, ops[c].req)

Refuse(c) ==
  /\ Return(c, Verdict(contents, ops[c].req))
  /\ Verdict(contents, ops[c].req) # "Ok"
  /\ UNCHANGED contents

Fail(c) ==
  /\ \E reply \in {"DatabaseLocked", "IoError"} : Return(c, reply)
  /\ UNCHANGED contents

Abandon(c) ==
  /\ Return(c, None)
  /\ UNCHANGED contents

Next ==
  \E c \in Callers :
    \/ \E r \in Requests : Invoke(c, r)
    \/ Apply(c) \/ Refuse(c) \/ Fail(c) \/ Abandon(c)

Spec == Init /\ [][Next]_vars

================================================================================
