------------------------------ MODULE SecretStore ------------------------------
(***************************************************************************)
(* What a secret store promises its callers: the SecretStore trait of      *)
(* crates/shared/src/ai/secret.rs, as the in-memory implementation of      *)
(* crates/ai-providers/src/in_memory_secret_store.rs realises it.  A map   *)
(* guarded by one mutex: every call takes effect at one instant between    *)
(* its invocation and its return.  A caller that is told of an error       *)
(* cannot know whether the call took effect, and a caller that dies leaves *)
(* it in either state.                                                     *)
(***************************************************************************)
CONSTANTS
  Callers,   \* tasks and processes that hold a store
  Keys,      \* lookup keys a caller may name
  Values,    \* secret values
  NoEntry    \* what get reports for a key that is not in the store

VARIABLES
  secrets,   \* the map: [Keys -> Values \cup {NoEntry}]
  ops        \* the call each caller has in flight, if any

vars == <<secrets, ops>>

Requests ==
  [op : {"set"}, key : Keys, value : Values]
    \cup [op : {"get", "delete"}, key : Keys, value : {NoEntry}]
    \cup [op : {"list"}, key : {NoEntry}, value : {NoEntry}]

NoRequest == [op |-> "none", key |-> NoEntry, value |-> NoEntry]

IdleOp == [phase |-> "idle", req |-> NoRequest, reply |-> NoEntry]

Init ==
  /\ secrets = [k \in Keys |-> NoEntry]
  /\ ops = [c \in Callers |-> IdleOp]

Invoke(c, r) ==
  /\ ops[c].phase = "idle"
  /\ ops' = [ops EXCEPT ![c] =
               [phase |-> "pending", req |-> r, reply |-> NoEntry]]
  /\ UNCHANGED secrets

(***************************************************************************)
(* The critical section of a call: the map is read or written while the    *)
(* mutex is held, and the answer is fixed.                                 *)
(***************************************************************************)
Executed(c, r, reply) ==
  /\ ops[c].phase = "pending"
  /\ ops[c].req = r
  /\ ops' = [ops EXCEPT ![c] =
               [phase |-> "executed", req |-> r, reply |-> reply]]

Set(c, k, v) ==
  /\ Executed(c, [op |-> "set", key |-> k, value |-> v], NoEntry)
  /\ secrets' = [secrets EXCEPT ![k] = v]

Get(c, k) ==
  /\ Executed(c, [op |-> "get", key |-> k, value |-> NoEntry], secrets[k])
  /\ UNCHANGED secrets

Delete(c, k) ==
  /\ Executed(c, [op |-> "delete", key |-> k, value |-> NoEntry], NoEntry)
  /\ secrets' = [secrets EXCEPT ![k] = NoEntry]

ListKeys(c) ==
  /\ Executed(c, [op |-> "list", key |-> NoEntry, value |-> NoEntry],
              [keys |-> {k \in Keys : secrets[k] # NoEntry}])
  /\ UNCHANGED secrets

(***************************************************************************)
(* An error may be reported before or after the call took effect.          *)
(***************************************************************************)
Fail(c) ==
  /\ ops[c].phase \in {"pending", "executed"}
  /\ ops' = [ops EXCEPT ![c] =
               [phase |-> "failed", req |-> ops[c].req, reply |-> NoEntry]]
  /\ UNCHANGED secrets

Return(c) ==
  /\ ops[c].phase \in {"executed", "failed"}
  /\ ops' = [ops EXCEPT ![c] = IdleOp]
  /\ UNCHANGED secrets

Abandon(c) ==
  /\ ops[c].phase # "idle"
  /\ ops' = [ops EXCEPT ![c] = IdleOp]
  /\ UNCHANGED secrets

(***************************************************************************)
(* Another program removes an entry (the operating system's own keychain   *)
(* window, say).                                                           *)
(***************************************************************************)
Withdraw(k) ==
  /\ secrets' = [secrets EXCEPT ![k] = NoEntry]
  /\ UNCHANGED ops

Next ==
  \/ \E c \in Callers :
       \/ \E r \in Requests : Invoke(c, r)
       \/ \E k \in Keys : \/ \E v \in Values : Set(c, k, v)
                          \/ Get(c, k)
                          \/ Delete(c, k)
       \/ ListKeys(c)
       \/ Fail(c)
       \/ Return(c)
       \/ Abandon(c)
  \/ \E k \in Keys : Withdraw(k)

Spec == Init /\ [][Next]_vars

================================================================================
