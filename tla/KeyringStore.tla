----------------------------- MODULE KeyringStore ------------------------------
(***************************************************************************)
(* KeyringSecretStore (crates/ai-providers/src/keyring_secret_store.rs):   *)
(* the production secret store.  An operating-system keychain offers three *)
(* primitives on single entries and no enumeration, so the store keeps, in *)
(* the keychain itself and under a reserved key, an index of the keys it   *)
(* has written.  set and delete are three backend calls in a row -- value, *)
(* read index, write index -- with no lock around them, although the store *)
(* is shared between tasks (Arc) and the keychain between processes.       *)
(***************************************************************************)
EXTENDS FiniteSets

CONSTANTS
  Callers,    \* tasks and processes that hold a store over one service name
  Keys,       \* provider keys, all different from INDEX_KEY
  Values,     \* secret values
  INDEX_KEY,  \* the reserved key the index is stored under
  NoEntry,    \* the keychain has no entry under a key
  Corrupt,    \* an index entry that does not decode as a list of keys
  Faults      \* the disturbances the environment may cause, see FaultKinds

(***************************************************************************)
(* "backend": a keychain call fails (daemon unreachable, access denied);   *)
(* "crash": the process dies between two keychain calls; "external":       *)
(* another tool deletes an entry or damages the index.                     *)
(***************************************************************************)
FaultKinds == {"backend", "crash", "external"}

(***************************************************************************)
(* The value of the index entry, a JSON array kept sorted and free of      *)
(* duplicates: a set of keys stands for it.                                *)
(***************************************************************************)
KeyLists == [keys : SUBSET Keys]

AllKeys == Keys \cup {INDEX_KEY}

ASSUME KeyAssumption == INDEX_KEY \notin Keys
ASSUME EntryAssumption ==
  /\ NoEntry \notin Values \cup KeyLists \cup AllKeys
  /\ Corrupt \notin KeyLists
  /\ NoEntry # Corrupt
ASSUME FaultAssumption == Faults \subseteq FaultKinds

VARIABLES
  keychain,  \* the entries under the store's service name
  call,      \* the store call each caller has in flight
  accepted,  \* history: keys the keychain ever accepted a value for
  alone,     \* history: nobody else has stepped since the call began
  serial     \* history: no two calls overlapped and nothing failed, so far

vars == <<keychain, call, accepted, alone, serial>>

Requests ==
  [op : {"set"}, key : AllKeys, value : Values]
    \cup [op : {"get", "delete"}, key : AllKeys, value : {NoEntry}]
    \cup [op : {"list"}, key : {NoEntry}, value : {NoEntry}]

NoRequest == [op |-> "none", key |-> NoEntry, value |-> NoEntry]

IdleCall ==
  [pc |-> "idle", req |-> NoRequest, index |-> {}, reply |-> NoEntry]

(***************************************************************************)
(* read_index: a missing index entry reads as the empty list, one that     *)
(* does not decode is an error.                                            *)
(***************************************************************************)
IndexReadable == keychain[INDEX_KEY] # Corrupt
Index ==
  IF keychain[INDEX_KEY] = NoEntry THEN {} ELSE keychain[INDEX_KEY].keys

Stored(k) == keychain[k] # NoEntry

Init ==
  /\ keychain = [k \in AllKeys |-> NoEntry]
  /\ call = [c \in Callers |-> IdleCall]
  /\ accepted = {}
  /\ alone = [c \in Callers |-> TRUE]
  /\ serial = TRUE

--------------------------------------------------------------------------------
At(c, pc) == call[c].pc = pc
Op(c) == call[c].req.op
Key(c) == call[c].req.key
Goto(c, pc) == call' = [call EXCEPT ![c].pc = pc]
Quiescent == \A c \in Callers : At(c, "idle")

(***************************************************************************)
(* Bookkeeping of the history variables: a step of caller c disturbs every *)
(* other call, a step of the environment disturbs them all.                *)
(***************************************************************************)
StepOf(c) ==
  /\ alone' = [d \in Callers |-> d = c /\ alone[c]]
  /\ UNCHANGED serial

(***************************************************************************)
(* Mutation of Begin: the reserved key is not refused.                     *)
(***************************************************************************)
BeginUnguarded(c, r) ==
  /\ At(c, "idle")
  /\ call' = [call EXCEPT ![c] =
                [pc |-> "enter", req |-> r, index |-> {}, reply |-> NoEntry]]
  /\ alone' = [d \in Callers |-> d = c]
  /\ serial' = (serial /\ Quiescent)
  /\ UNCHANGED <<keychain, accepted>>

(***************************************************************************)
(* Mutation of Begin: set registers the key in the index without waiting   *)
(* for its value to be accepted.                                           *)
(***************************************************************************)
BeginIndexFirst(c, r) ==
  /\ At(c, "idle")
  /\ call' = [call EXCEPT ![c] =
                [pc |-> CASE r.key = INDEX_KEY -> "err"
                          [] r.key # INDEX_KEY /\ r.op = "set" -> "read_index"
                          [] OTHER -> "enter",
                 req |-> r, index |-> {}, reply |-> NoEntry]]
  /\ alone' = [d \in Callers |-> d = c]
  /\ serial' = (serial /\ Quiescent)
  /\ UNCHANGED <<keychain, accepted>>

(***************************************************************************)
(* A method is entered.  set, get and delete refuse the reserved key.      *)
(***************************************************************************)
Begin(c, r) ==
  /\ At(c, "idle")
  /\ call' = [call EXCEPT ![c] =
                [pc |-> IF r.key = INDEX_KEY THEN "err" ELSE "enter",
                 req |-> r, index |-> {}, reply |-> NoEntry]]
  /\ alone' = [d \in Callers |-> d = c]
  /\ serial' = (serial /\ Quiescent)
  /\ UNCHANGED <<keychain, accepted>>

(***************************************************************************)
(* set: the value first, then the index.                                   *)
(***************************************************************************)
SetPassword(c) ==
  /\ At(c, "enter") /\ Op(c) = "set"
  /\ keychain' = [keychain EXCEPT ![Key(c)] = call[c].req.value]
  /\ accepted' = accepted \cup {Key(c)}
  /\ Goto(c, "read_index")
  /\ StepOf(c)

DeletePassword(c) ==
  /\ At(c, "enter") /\ Op(c) = "delete"
  /\ keychain' = [keychain EXCEPT ![Key(c)] = NoEntry]
  /\ Goto(c, "read_index")
  /\ StepOf(c)
  /\ UNCHANGED accepted

GetPassword(c) ==
  /\ At(c, "enter") /\ Op(c) = "get"
  /\ call' = [call EXCEPT ![c].pc = "ok", ![c].reply = keychain[Key(c)]]
  /\ StepOf(c)
  /\ UNCHANGED <<keychain, accepted>>

ListKeys(c) ==
  /\ At(c, "enter") /\ Op(c) = "list"
  /\ IndexReadable
  /\ call' = [call EXCEPT ![c].pc = "ok", ![c].reply = [keys |-> Index]]
  /\ StepOf(c)
  /\ UNCHANGED <<keychain, accepted>>

(***************************************************************************)
(* Mutations of Revised: delete leaves its key listed; set forgets the     *)
(* keys already listed.                                                    *)
(***************************************************************************)
RevisedKeepsKey(c) == IF Op(c) = "set" THEN Index \cup {Key(c)} ELSE Index

RevisedForgets(c) == IF Op(c) = "set" THEN {Key(c)} ELSE Index \ {Key(c)}

(***************************************************************************)
(* The index the call will write back; it is written only if it changed.   *)
(***************************************************************************)
Revised(c) ==
  IF Op(c) = "set" THEN Index \cup {Key(c)} ELSE Index \ {Key(c)}

ReadIndex(c) ==
  /\ At(c, "read_index")
  /\ IndexReadable
  /\ call' = [call EXCEPT
                ![c].pc = IF Revised(c) = Index THEN "ok" ELSE "write_index",
                ![c].index = Revised(c)]
  /\ StepOf(c)
  /\ UNCHANGED <<keychain, accepted>>

(***************************************************************************)
(* The index does not decode: the call fails with SecretError::Backend.    *)
(***************************************************************************)
IndexUndecodable(c) ==
  /\ \/ At(c, "read_index")
     \/ At(c, "enter") /\ Op(c) = "list"
  /\ ~IndexReadable
  /\ Goto(c, "err")
  /\ StepOf(c)
  /\ UNCHANGED <<keychain, accepted>>

WriteIndex(c) ==
  /\ At(c, "write_index")
  /\ keychain' = [keychain EXCEPT ![INDEX_KEY] = [keys |-> call[c].index]]
  /\ Goto(c, "ok")
  /\ StepOf(c)
  /\ UNCHANGED accepted

Return(c) ==
  /\ call[c].pc \in {"ok", "err"}
  /\ call' = [call EXCEPT ![c] = IdleCall]
  /\ StepOf(c)
  /\ UNCHANGED <<keychain, accepted>>

--------------------------------------------------------------------------------
(***************************************************************************)
(* The environment.                                                        *)
(***************************************************************************)
Disturbance(kind) ==
  /\ kind \in Faults
  /\ alone' = [d \in Callers |-> FALSE]
  /\ serial' = FALSE

(***************************************************************************)
(* Mutation of BackendFails: the error is swallowed.                       *)
(***************************************************************************)
BackendFailsSilently(c) ==
  /\ call[c].pc \in {"enter", "read_index", "write_index"}
  /\ Goto(c, "ok")
  /\ Disturbance("backend")
  /\ UNCHANGED <<keychain, accepted>>

BackendFails(c) ==
  /\ call[c].pc \in {"enter", "read_index", "write_index"}
  /\ Goto(c, "err")
  /\ Disturbance("backend")
  /\ UNCHANGED <<keychain, accepted>>

Crash(c) ==
  /\ ~At(c, "idle")
  /\ call' = [call EXCEPT ![c] = IdleCall]
  /\ Disturbance("crash")
  /\ UNCHANGED <<keychain, accepted>>

Tampered(k, entry) ==
  /\ keychain' = [keychain EXCEPT ![k] = entry]
  /\ Disturbance("external")
  /\ UNCHANGED <<call, accepted>>

ExternalDelete(k) == Stored(k) /\ Tampered(k, NoEntry)
ExternalCorrupt == Tampered(INDEX_KEY, Corrupt)

CallerStep(c) ==
  \/ \E r \in Requests : Begin(c, r)
  \/ SetPassword(c) \/ DeletePassword(c) \/ GetPassword(c) \/ ListKeys(c)
  \/ ReadIndex(c) \/ IndexUndecodable(c) \/ WriteIndex(c)
  \/ Return(c)
  \/ BackendFails(c) \/ Crash(c)

Next ==
  \/ \E c \in Callers : CallerStep(c)
  \/ \E k \in AllKeys : ExternalDelete(k)
  \/ ExternalCorrupt

Spec == Init /\ [][Next]_vars

--------------------------------------------------------------------------------
(***************************************************************************)
(* Type invariant.  The entry under INDEX_KEY is never a secret value: no  *)
(* request reaches it past the guards of set and delete.                   *)
(***************************************************************************)
PCs == {"idle", "enter", "read_index", "write_index", "ok", "err"}

Calls ==
  [pc : PCs,
   req : Requests \cup {NoRequest},
   index : SUBSET Keys,
   reply : Values \cup {NoEntry} \cup KeyLists]

KeychainOK ==
  /\ keychain \in [AllKeys -> Values \cup {NoEntry, Corrupt} \cup KeyLists]
  /\ \A k \in Keys : keychain[k] \in Values \cup {NoEntry}
  /\ keychain[INDEX_KEY] \in {NoEntry, Corrupt} \cup KeyLists

(***************************************************************************)
(* A call past its entry is a request, and one that is not refused; only   *)
(* set and delete get as far as the index; an answer is given at the end.  *)
(***************************************************************************)
WellFormed(r) ==
  /\ IF r.pc = "idle" THEN r.req = NoRequest ELSE r.req \in Requests
  /\ r.pc # "ok" => r.reply = NoEntry
  /\ r.pc \notin {"idle", "err"} => r.req.key # INDEX_KEY
  /\ r.pc \in {"read_index", "write_index"} => r.req.op \in {"set", "delete"}

CallsOK ==
  /\ call \in [Callers -> Calls]
  /\ \A c \in Callers : WellFormed(call[c])

TypeOK ==
  /\ KeychainOK
  /\ CallsOK
  /\ accepted \subseteq Keys
  /\ alone \in [Callers -> BOOLEAN]
  /\ serial \in BOOLEAN

(***************************************************************************)
(* "a failed write never leaves an index entry that points at a missing    *)
(* value" (keyring_secret_store.rs:258-260): whatever the interleaving and *)
(* the failures, a key reaches the index only after the keychain has       *)
(* accepted a value for it.                                                *)
(***************************************************************************)
IndexNamesAcceptedKeys == IndexReadable => Index \subseteq accepted

(***************************************************************************)
(* "Drift is recoverable (the next set / delete reconciles the affected    *)
(* key)" (keyring_secret_store.rs:41-43): however far index and entries    *)
(* have drifted apart, a set or delete that succeeds without another actor *)
(* stepping in between leaves its key listed exactly when it is stored.    *)
(***************************************************************************)
Reconciles ==
  \A c \in Callers :
    (At(c, "ok") /\ Op(c) \in {"set", "delete"} /\ alone[c])
      => (Stored(Key(c)) <=> Key(c) \in Index)

(***************************************************************************)
(* Used one call at a time on a keychain that never fails, the store keeps *)
(* parity with the in-memory one (keyring_secret_store.rs:26-29): between  *)
(* calls, list_keys would report exactly the keys that hold a value.       *)
(***************************************************************************)
SerialParity ==
  serial /\ Quiescent
    => IndexReadable /\ Index = {k \in Keys : Stored(k)}

--------------------------------------------------------------------------------
(***************************************************************************)
(* Refinement of the abstract store, enumeration left out.  A set takes    *)
(* effect when its value is written, a delete when its value is removed, a *)
(* get when it reads; refused calls and list_keys are not observed.        *)
(***************************************************************************)
Phase(c) ==
  CASE call[c].pc = "idle" -> "idle"
    [] call[c].pc = "enter" -> "pending"
    [] call[c].pc \in {"read_index", "write_index", "ok"} -> "executed"
    [] OTHER -> "failed"

Observed(c) == Op(c) # "list" /\ Key(c) # INDEX_KEY

AbstractOp(c) ==
  IF Observed(c)
    THEN [phase |-> Phase(c), req |-> call[c].req, reply |-> call[c].reply]
    ELSE [phase |-> "idle", req |-> NoRequest, reply |-> NoEntry]

Entries == INSTANCE SecretStore WITH
  secrets <- [k \in Keys |-> keychain[k]],
  ops <- [c \in Callers |-> AbstractOp(c)]

(***************************************************************************)
(* Under any interleaving and any failure, set, get and delete are atomic: *)
(* each takes effect at one instant during the call, an answer Ok is given *)
(* only after it did, and get reports the value at that instant.           *)
(***************************************************************************)
EntriesLinearizable == Entries!Spec

--------------------------------------------------------------------------------
(***************************************************************************)
(* "list_keys -- every key currently in the store" (shared/src/ai/         *)
(* secret.rs:197).  The contract does not hold between two callers: see    *)
(* the run KeyringLostKey.                                                 *)
(***************************************************************************)
ListIsComplete ==
  Quiescent /\ IndexReadable => \A k \in Keys : Stored(k) => k \in Index

================================================================================
