-------------------------- MODULE KeyringStore_proofs --------------------------
(***************************************************************************)
(* Proofs about KeyringStore, for any callers, keys, values and faults.    *)
(***************************************************************************)
EXTENDS KeyringStore, TLAPS

(***************************************************************************)
(* What a request may look like.                                           *)
(***************************************************************************)
LEMMA RequestShape ==
  ASSUME NEW r \in Requests
  PROVE  /\ r.op \in {"set", "get", "delete", "list"}
         /\ r.op \in {"set", "get", "delete"} => r.key \in AllKeys
         /\ r.op = "set" => r.value \in Values
         /\ r.op = "list" => r.key = NoEntry
  BY DEF Requests

(***************************************************************************)
(* The program counter moves on, nothing else in the record changes.       *)
(***************************************************************************)
LEMMA GotoCallsOK ==
  ASSUME CallsOK, NEW c \in Callers, NEW pc \in PCs \ {"idle"}, Goto(c, pc),
         call[c].pc # "idle",
         call[c].pc # "ok",
         pc # "err" => call[c].req.key # INDEX_KEY,
         pc \in {"read_index", "write_index"}
           => call[c].req.op \in {"set", "delete"}
  PROVE  CallsOK'
<1> DEFINE new == [call[c] EXCEPT !.pc = pc]
<1>1. call[c] \in Calls /\ WellFormed(call[c])
  BY DEF CallsOK
<1>2. new \in Calls /\ WellFormed(new)
  BY <1>1 DEF Calls, WellFormed
<1>3. call' = [call EXCEPT ![c] = new]
  BY DEF Goto
<1> QED
  BY <1>2, <1>3 DEF CallsOK

(***************************************************************************)
(* The whole record is replaced.                                           *)
(***************************************************************************)
LEMMA ReplaceCallsOK ==
  ASSUME CallsOK, NEW c \in Callers, NEW new \in Calls, WellFormed(new),
         call' = [call EXCEPT ![c] = new]
  PROVE  CallsOK'
  BY DEF CallsOK

LEMMA IdleCallOK == IdleCall \in Calls /\ WellFormed(IdleCall)
  BY DEF IdleCall, Calls, WellFormed, NoRequest, PCs

--------------------------------------------------------------------------------
LEMMA InitTypeOK == Init => TypeOK
  BY IdleCallOK, KeyAssumption
  DEF Init, TypeOK, KeychainOK, CallsOK, AllKeys

LEMMA NextTypeOK == TypeOK /\ [Next]_vars => TypeOK'
<1> SUFFICES ASSUME TypeOK, [Next]_vars PROVE TypeOK'
  OBVIOUS
<1>0. \A c \in Callers : call[c] \in Calls /\ WellFormed(call[c])
  BY DEF TypeOK, CallsOK
<1>1. ASSUME NEW c \in Callers, NEW r \in Requests, Begin(c, r) PROVE TypeOK'
  <2> DEFINE new == [pc |-> IF r.key = INDEX_KEY THEN "err" ELSE "enter",
                     req |-> r, index |-> {}, reply |-> NoEntry]
  <2>1. new \in Calls /\ WellFormed(new)
    BY DEF Calls, WellFormed, PCs
  <2>2. CallsOK'
    BY <1>1, <2>1, ReplaceCallsOK DEF Begin, TypeOK
  <2> QED
    BY <1>1, <2>2 DEF Begin, TypeOK, KeychainOK
<1>2. ASSUME NEW c \in Callers, SetPassword(c) PROVE TypeOK'
  <2>1. Key(c) \in Keys /\ call[c].req.value \in Values
    BY <1>0, <1>2, RequestShape
    DEF SetPassword, At, Op, Key, WellFormed, AllKeys
  <2>2. CallsOK'
    BY <1>0, <1>2, GotoCallsOK
    DEF SetPassword, TypeOK, At, Op, WellFormed, PCs
  <2>3. KeychainOK'
    BY <1>2, <2>1, KeyAssumption DEF SetPassword, TypeOK, KeychainOK, AllKeys
  <2> QED
    BY <1>2, <2>1, <2>2, <2>3 DEF SetPassword, TypeOK, StepOf
<1>3. ASSUME NEW c \in Callers, DeletePassword(c) PROVE TypeOK'
  <2>1. Key(c) \in Keys
    BY <1>0, <1>3, RequestShape
    DEF DeletePassword, At, Op, Key, WellFormed, AllKeys
  <2>2. CallsOK'
    BY <1>0, <1>3, GotoCallsOK
    DEF DeletePassword, TypeOK, At, Op, WellFormed, PCs
  <2>3. KeychainOK'
    BY <1>3, <2>1, KeyAssumption DEF DeletePassword, TypeOK, KeychainOK, AllKeys
  <2> QED
    BY <1>3, <2>1, <2>2, <2>3 DEF DeletePassword, TypeOK, StepOf
<1>4. ASSUME NEW c \in Callers, GetPassword(c) PROVE TypeOK'
  <2> DEFINE new == [call[c] EXCEPT !.pc = "ok", !.reply = keychain[Key(c)]]
  <2>1. Key(c) \in Keys
    BY <1>0, <1>4, RequestShape
    DEF GetPassword, At, Op, Key, WellFormed, AllKeys
  <2>2. keychain[Key(c)] \in Values \cup {NoEntry}
    BY <2>1 DEF TypeOK, KeychainOK
  <2>3. new \in Calls /\ WellFormed(new)
    BY <1>0, <1>4, <2>2 DEF GetPassword, At, Calls, WellFormed, PCs
  <2>4. CallsOK'
    BY <1>4, <2>3, ReplaceCallsOK DEF GetPassword, TypeOK
  <2> QED
    BY <1>4, <2>4 DEF GetPassword, TypeOK, KeychainOK, StepOf
<1>5. ASSUME NEW c \in Callers, ListKeys(c) PROVE TypeOK'
  <2> DEFINE new == [call[c] EXCEPT !.pc = "ok", !.reply = [keys |-> Index]]
  <2>1. Index \subseteq Keys
    BY <1>5 DEF ListKeys, TypeOK, KeychainOK, Index, IndexReadable, KeyLists
  <2>2. new \in Calls /\ WellFormed(new)
    BY <1>0, <1>5, <2>1 DEF ListKeys, At, Calls, WellFormed, PCs, KeyLists
  <2>3. CallsOK'
    BY <1>5, <2>2, ReplaceCallsOK DEF ListKeys, TypeOK
  <2> QED
    BY <1>5, <2>3 DEF ListKeys, TypeOK, KeychainOK, StepOf
<1>6. ASSUME NEW c \in Callers, ReadIndex(c) PROVE TypeOK'
  <2> DEFINE new == [call[c] EXCEPT
                !.pc = IF Revised(c) = Index THEN "ok" ELSE "write_index",
                !.index = Revised(c)]
  <2>1. Key(c) \in Keys
    BY <1>0, <1>6, RequestShape
    DEF ReadIndex, At, Key, WellFormed, AllKeys
  <2>2. Revised(c) \subseteq Keys
    BY <1>6, <2>1
    DEF ReadIndex, TypeOK, KeychainOK, Index, IndexReadable, Revised, KeyLists
  <2>3. new \in Calls /\ WellFormed(new)
    BY <1>0, <1>6, <2>2 DEF ReadIndex, At, Calls, WellFormed, PCs
  <2>4. CallsOK'
    BY <1>6, <2>3, ReplaceCallsOK DEF ReadIndex, TypeOK
  <2> QED
    BY <1>6, <2>4 DEF ReadIndex, TypeOK, KeychainOK, StepOf
<1>7. ASSUME NEW c \in Callers, IndexUndecodable(c) PROVE TypeOK'
  <2>1. CallsOK'
    BY <1>7, GotoCallsOK DEF IndexUndecodable, TypeOK, At, PCs
  <2> QED
    BY <1>7, <2>1 DEF IndexUndecodable, TypeOK, KeychainOK, StepOf
<1>8. ASSUME NEW c \in Callers, WriteIndex(c) PROVE TypeOK'
  <2>1. call[c].index \subseteq Keys
    BY <1>0 DEF Calls
  <2>2. CallsOK'
    BY <1>0, <1>8, GotoCallsOK DEF WriteIndex, TypeOK, At, WellFormed, PCs
  <2>3. KeychainOK'
    BY <1>8, <2>1, KeyAssumption
    DEF WriteIndex, TypeOK, KeychainOK, AllKeys, KeyLists
  <2> QED
    BY <1>8, <2>2, <2>3 DEF WriteIndex, TypeOK, StepOf
<1>9. ASSUME NEW c \in Callers, Return(c) PROVE TypeOK'
  <2>1. CallsOK'
    BY <1>9, IdleCallOK, ReplaceCallsOK DEF Return, TypeOK
  <2> QED
    BY <1>9, <2>1 DEF Return, TypeOK, KeychainOK, StepOf
<1>10. ASSUME NEW c \in Callers, Crash(c) PROVE TypeOK'
  <2>1. CallsOK'
    BY <1>10, IdleCallOK, ReplaceCallsOK DEF Crash, TypeOK
  <2> QED
    BY <1>10, <2>1 DEF Crash, TypeOK, KeychainOK, Disturbance
<1>11. ASSUME NEW c \in Callers, BackendFails(c) PROVE TypeOK'
  <2>1. CallsOK'
    BY <1>11, GotoCallsOK DEF BackendFails, TypeOK, PCs
  <2> QED
    BY <1>11, <2>1 DEF BackendFails, TypeOK, KeychainOK, Disturbance
<1>12. ASSUME NEW k \in AllKeys, NEW entry,
              Tampered(k, entry),
              entry = NoEntry \/ (k = INDEX_KEY /\ entry = Corrupt)
       PROVE TypeOK'
  <2>1. KeychainOK'
    BY <1>12, KeyAssumption DEF Tampered, TypeOK, KeychainOK, AllKeys
  <2> QED
    BY <1>12, <2>1 DEF Tampered, TypeOK, CallsOK, Disturbance
<1>13. CASE UNCHANGED vars
  BY <1>13 DEF vars, TypeOK, KeychainOK, CallsOK
<1> QED
  BY <1>1, <1>2, <1>3, <1>4, <1>5, <1>6, <1>7, <1>8, <1>9, <1>10, <1>11, <1>12,
     <1>13 DEF Next, CallerStep, ExternalDelete, ExternalCorrupt, AllKeys

(***************************************************************************)
(* Type correctness; in particular no request ever reaches the index entry *)
(* as if it were a secret.                                                 *)
(***************************************************************************)
THEOREM TypeCorrect == Spec => []TypeOK
  BY InitTypeOK, NextTypeOK, PTL DEF Spec

--------------------------------------------------------------------------------
(***************************************************************************)
(* What a call that is under way knows about accepted: a set has had its   *)
(* value accepted before it turns to the index, and the copy a call holds  *)
(* of the index names accepted keys only.                                  *)
(***************************************************************************)
AcceptedInv ==
  /\ IndexNamesAcceptedKeys
  /\ \A c \in Callers :
       /\ At(c, "read_index") /\ Op(c) = "set" => Key(c) \in accepted
       /\ At(c, "write_index") => call[c].index \subseteq accepted

LEMMA NextAcceptedInv ==
  TypeOK /\ AcceptedInv /\ [Next]_vars => AcceptedInv'
<1> SUFFICES ASSUME TypeOK, AcceptedInv, [Next]_vars PROVE AcceptedInv'
  OBVIOUS
<1> USE DEF AcceptedInv, IndexNamesAcceptedKeys, Index, IndexReadable
<1>0. /\ call \in [Callers -> Calls]
      /\ keychain \in [AllKeys -> Values \cup {NoEntry, Corrupt} \cup KeyLists]
      /\ \A c \in Callers : WellFormed(call[c])
  BY DEF TypeOK, KeychainOK, CallsOK
<1>1. ASSUME NEW c \in Callers, NEW r \in Requests, Begin(c, r)
      PROVE AcceptedInv'
  BY <1>0, <1>1 DEF Begin, At, Op, Key
<1>2. ASSUME NEW c \in Callers, SetPassword(c) PROVE AcceptedInv'
  <2>1. Key(c) # INDEX_KEY
    BY <1>0, <1>2 DEF SetPassword, At, Key, WellFormed
  <2>2. keychain'[INDEX_KEY] = keychain[INDEX_KEY] /\ accepted \subseteq accepted'
    BY <1>0, <1>2, <2>1 DEF SetPassword, AllKeys
  <2>3. \A d \in Callers \ {c} : call'[d] = call[d]
    BY <1>0, <1>2 DEF SetPassword, Goto
  <2>4. call'[c].pc = "read_index" /\ call'[c].req = call[c].req
    BY <1>0, <1>2 DEF SetPassword, Goto, Calls
  <2>5. Key(c)' \in accepted'
    BY <1>2, <2>4 DEF SetPassword, Key
  <2> QED
    BY <2>2, <2>3, <2>4, <2>5 DEF At, Op, Key
<1>3. ASSUME NEW c \in Callers, DeletePassword(c) PROVE AcceptedInv'
  <2>1. Key(c) # INDEX_KEY /\ call'[c].req.op = "delete"
    BY <1>0, <1>3 DEF DeletePassword, At, Op, Key, WellFormed, Goto, Calls
  <2>2. keychain'[INDEX_KEY] = keychain[INDEX_KEY] /\ accepted' = accepted
    BY <1>0, <1>3, <2>1 DEF DeletePassword, AllKeys
  <2>3. call'[c].pc = "read_index" /\ \A d \in Callers \ {c} : call'[d] = call[d]
    BY <1>0, <1>3 DEF DeletePassword, Goto, Calls
  <2> QED
    BY <2>1, <2>2, <2>3 DEF At, Op, Key
<1>4. ASSUME NEW c \in Callers,
             GetPassword(c) \/ ListKeys(c) \/ IndexUndecodable(c) \/ Return(c)
               \/ BackendFails(c) \/ Crash(c)
      PROVE AcceptedInv'
  <2>1. UNCHANGED <<keychain, accepted>>
    BY <1>4 DEF GetPassword, ListKeys, IndexUndecodable, Return, BackendFails,
                Crash
  <2>2. call'[c].pc \in {"ok", "err", "idle"}
    BY <1>0, <1>4 DEF GetPassword, ListKeys, IndexUndecodable, Return,
                BackendFails, Crash, Goto, IdleCall, Calls
  <2>3. \A d \in Callers \ {c} : call'[d] = call[d]
    BY <1>0, <1>4 DEF GetPassword, ListKeys, IndexUndecodable, Return,
                BackendFails, Crash, Goto
  <2> QED
    BY <2>1, <2>2, <2>3 DEF At, Op, Key
<1>5. ASSUME NEW c \in Callers, ReadIndex(c) PROVE AcceptedInv'
  <2>1. UNCHANGED <<keychain, accepted>> /\ Revised(c) \subseteq accepted
    BY <1>0, <1>5 DEF ReadIndex, Revised, At
  <2>2. call'[c].pc \in {"ok", "write_index"} /\ call'[c].index = Revised(c)
    BY <1>0, <1>5 DEF ReadIndex, Calls
  <2>3. \A d \in Callers \ {c} : call'[d] = call[d]
    BY <1>0, <1>5 DEF ReadIndex
  <2> QED
    BY <2>1, <2>2, <2>3 DEF At, Op, Key
<1>6. ASSUME NEW c \in Callers, WriteIndex(c) PROVE AcceptedInv'
  <2>1. call[c].index \subseteq accepted /\ accepted' = accepted
    BY <1>6 DEF WriteIndex, At
  <2>2. keychain'[INDEX_KEY] = [keys |-> call[c].index]
    BY <1>0, <1>6 DEF WriteIndex, AllKeys
  <2>3. call'[c].pc = "ok" /\ \A d \in Callers \ {c} : call'[d] = call[d]
    BY <1>0, <1>6 DEF WriteIndex, Goto, Calls
  <2> QED
    BY <2>1, <2>2, <2>3 DEF At, Op, Key
<1>7. ASSUME NEW k \in AllKeys, NEW entry,
             Tampered(k, entry),
             entry = NoEntry \/ (k = INDEX_KEY /\ entry = Corrupt)
      PROVE AcceptedInv'
  BY <1>0, <1>7 DEF Tampered, AllKeys, At, Op, Key
<1>8. CASE UNCHANGED vars
  BY <1>8 DEF vars, At, Op, Key
<1> QED
  BY <1>1, <1>2, <1>3, <1>4, <1>5, <1>6, <1>7, <1>8
  DEF Next, CallerStep, ExternalDelete, ExternalCorrupt, AllKeys

(***************************************************************************)
(* A key reaches the index only after the keychain has accepted a value    *)
(* for it, under every interleaving and every failure.                     *)
(***************************************************************************)
THEOREM IndexSafe == Spec => []IndexNamesAcceptedKeys
<1>1. Init => AcceptedInv
  BY DEF Init, AcceptedInv, IndexNamesAcceptedKeys, Index, At, IdleCall, AllKeys
<1>2. AcceptedInv => IndexNamesAcceptedKeys
  BY DEF AcceptedInv
<1> QED
  BY <1>1, <1>2, NextAcceptedInv, TypeCorrect, PTL DEF Spec

--------------------------------------------------------------------------------
(***************************************************************************)
(* How far a set or delete that nobody disturbed has got.                  *)
(***************************************************************************)
Undisturbed(c) ==
  /\ At(c, "read_index") => (Stored(Key(c)) <=> Op(c) = "set")
  /\ At(c, "write_index") => /\ Stored(Key(c)) <=> Op(c) = "set"
                             /\ Key(c) \in call[c].index <=> Op(c) = "set"
  /\ At(c, "ok") => (Stored(Key(c)) <=> Key(c) \in Index)

ReconcilesInv ==
  \A c \in Callers :
    alone[c] /\ Op(c) \in {"set", "delete"} => Undisturbed(c)

LEMMA NextReconcilesInv ==
  TypeOK /\ ReconcilesInv /\ [Next]_vars => ReconcilesInv'
<1> SUFFICES ASSUME TypeOK, ReconcilesInv, [Next]_vars,
                    NEW c \in Callers, alone'[c], Op(c)' \in {"set", "delete"}
             PROVE  Undisturbed(c)'
  BY DEF ReconcilesInv
<1> USE DEF Undisturbed, At, Op, Key, Stored
<1>0. /\ call \in [Callers -> Calls]
      /\ call[c] \in Calls /\ WellFormed(call[c])
      /\ keychain \in [AllKeys -> Values \cup {NoEntry, Corrupt} \cup KeyLists]
      /\ keychain[INDEX_KEY] \in {NoEntry, Corrupt} \cup KeyLists
      /\ alone \in [Callers -> BOOLEAN]
  BY DEF TypeOK, KeychainOK, CallsOK
<1>1. ASSUME NEW d \in Callers, CallerStep(d) PROVE d = c
  BY <1>1, <1>0 DEF CallerStep, Begin, SetPassword, DeletePassword, GetPassword,
       ListKeys, ReadIndex, IndexUndecodable, WriteIndex, Return, BackendFails,
       Crash, StepOf, Disturbance
<1>2. ASSUME NEW r \in Requests, Begin(c, r) PROVE Undisturbed(c)'
  BY <1>0, <1>2 DEF Begin
<1>3. ASSUME SetPassword(c) PROVE Undisturbed(c)'
  <2>1. call[c].req \in Requests /\ call[c].req.key # INDEX_KEY
    BY <1>0, <1>3 DEF SetPassword, WellFormed
  <2>2. Key(c) \in Keys /\ call[c].req.value \in Values
    BY <1>3, <2>1, RequestShape DEF SetPassword, AllKeys
  <2>3. call'[c].pc = "read_index" /\ call'[c].req = call[c].req
    BY <1>0, <1>3 DEF SetPassword, Goto, Calls
  <2>4. keychain'[Key(c)] = call[c].req.value
    BY <1>0, <1>3, <2>2 DEF SetPassword, AllKeys
  <2> QED
    BY <1>3, <2>2, <2>3, <2>4, EntryAssumption DEF SetPassword
<1>4. ASSUME DeletePassword(c) PROVE Undisturbed(c)'
  <2>1. call[c].req \in Requests /\ call[c].req.key # INDEX_KEY
    BY <1>0, <1>4 DEF DeletePassword, WellFormed
  <2>2. Key(c) \in Keys
    BY <1>4, <2>1, RequestShape DEF DeletePassword, AllKeys
  <2>3. call'[c].pc = "read_index" /\ call'[c].req = call[c].req
    BY <1>0, <1>4 DEF DeletePassword, Goto, Calls
  <2>4. keychain'[Key(c)] = NoEntry
    BY <1>0, <1>4, <2>2 DEF DeletePassword, AllKeys
  <2> QED
    BY <1>4, <2>3, <2>4 DEF DeletePassword
<1>5. ASSUME GetPassword(c) \/ ListKeys(c) PROVE Undisturbed(c)'
  BY <1>0, <1>5 DEF GetPassword, ListKeys, Calls
<1>6. ASSUME ReadIndex(c) PROVE Undisturbed(c)'
  <2>1. /\ call'[c].pc = IF Revised(c) = Index THEN "ok" ELSE "write_index"
        /\ call'[c].index = Revised(c)
        /\ call'[c].req = call[c].req
        /\ UNCHANGED keychain
        /\ alone[c]
    BY <1>0, <1>6 DEF ReadIndex, Calls, StepOf
  <2>2. Op(c) \in {"set", "delete"} /\ (Stored(Key(c)) <=> Op(c) = "set")
    BY <1>6, <2>1 DEF ReconcilesInv, ReadIndex
  <2>3. Key(c) \in Revised(c) <=> Op(c) = "set"
    BY <2>2 DEF Revised
  <2>4. Index' = Index
    BY <2>1 DEF Index
  <2> QED
    BY <2>1, <2>2, <2>3, <2>4
<1>7. ASSUME WriteIndex(c) PROVE Undisturbed(c)'
  <2>1. /\ call'[c].pc = "ok" /\ call'[c].req = call[c].req /\ alone[c]
        /\ call[c].req \in Requests /\ call[c].req.key # INDEX_KEY
    BY <1>0, <1>7 DEF WriteIndex, Calls, StepOf, Goto, WellFormed
  <2>2. Key(c) \in Keys
    BY <1>0, <1>7, <2>1, RequestShape DEF WriteIndex, AllKeys, WellFormed
  <2>3. Key(c) \in call[c].index <=> Stored(Key(c))
    BY <1>7, <2>1 DEF ReconcilesInv, WriteIndex
  <2>4. keychain'[INDEX_KEY] = [keys |-> call[c].index]
    BY <1>0, <1>7 DEF WriteIndex, AllKeys
  <2>5. keychain'[INDEX_KEY] \in KeyLists
    BY <1>0, <2>4 DEF Calls, KeyLists
  <2>6. Index' = call[c].index
    BY <2>4, <2>5, EntryAssumption DEF Index
  <2>7. keychain'[Key(c)] = keychain[Key(c)]
    BY <1>0, <1>7, <2>1, <2>2 DEF WriteIndex, AllKeys
  <2> QED
    BY <2>1, <2>3, <2>6, <2>7
<1>8. ASSUME IndexUndecodable(c) \/ Return(c) \/ BackendFails(c) \/ Crash(c)
      PROVE Undisturbed(c)'
  BY <1>0, <1>8 DEF IndexUndecodable, Return, BackendFails, Crash, Goto, Calls,
       IdleCall
<1>9. ASSUME NEW k \in AllKeys, NEW entry, Tampered(k, entry) PROVE FALSE
  BY <1>9 DEF Tampered, Disturbance
<1>10. CASE UNCHANGED vars
  BY <1>10 DEF vars, ReconcilesInv, Index
<1> QED
  BY <1>1, <1>2, <1>3, <1>4, <1>5, <1>6, <1>7, <1>8, <1>9, <1>10
  DEF Next, CallerStep, ExternalDelete, ExternalCorrupt, AllKeys

(***************************************************************************)
(* Drift is recoverable: a set or delete that succeeds undisturbed leaves  *)
(* its key listed exactly when it is stored, whatever happened before.     *)
(***************************************************************************)
THEOREM DriftRecoverable == Spec => []Reconciles
<1>1. Init => ReconcilesInv
  BY DEF Init, ReconcilesInv, Undisturbed, Op, IdleCall, NoRequest
<1>2. ReconcilesInv => Reconciles
  BY DEF ReconcilesInv, Undisturbed, Reconciles
<1> QED
  BY <1>1, <1>2, NextReconcilesInv, TypeCorrect, PTL DEF Spec

--------------------------------------------------------------------------------
(***************************************************************************)
(* While calls have never overlapped and nothing has failed, at most one   *)
(* caller is inside the store, and index and entries differ at most in the *)
(* key that call is about.                                                 *)
(***************************************************************************)
StoredKeys == {k \in Keys : Stored(k)}

SerialInv ==
  serial =>
    /\ IndexReadable
    /\ \A c, d \in Callers : ~At(c, "idle") /\ ~At(d, "idle") => c = d
    /\ \A c \in Callers :
         /\ At(c, "read_index") => Revised(c) = StoredKeys
         /\ At(c, "write_index") => call[c].index = StoredKeys
    /\ (\A c \in Callers : call[c].pc \notin {"read_index", "write_index"})
         => Index = StoredKeys

LEMMA NextSerialInv == TypeOK /\ SerialInv /\ [Next]_vars => SerialInv'
<1> SUFFICES ASSUME TypeOK, SerialInv, [Next]_vars, serial' PROVE SerialInv'
  BY DEF SerialInv
<1> USE DEF At
<1>0. /\ call \in [Callers -> Calls]
      /\ \A c \in Callers : call[c] \in Calls /\ WellFormed(call[c])
      /\ keychain \in [AllKeys -> Values \cup {NoEntry, Corrupt} \cup KeyLists]
      /\ keychain[INDEX_KEY] \in {NoEntry, Corrupt} \cup KeyLists
      /\ \A k \in Keys : keychain[k] \in Values \cup {NoEntry}
  BY DEF TypeOK, KeychainOK, CallsOK
<1>1. serial
  BY DEF Next, CallerStep, Begin, SetPassword, DeletePassword, GetPassword,
       ListKeys, ReadIndex, IndexUndecodable, WriteIndex, Return, BackendFails,
       Crash, ExternalDelete, ExternalCorrupt, Tampered, StepOf, Disturbance, vars
<1>2. ASSUME NEW c \in Callers, NEW r \in Requests, Begin(c, r)
      PROVE SerialInv'
  <2>1. Quiescent
    BY <1>2 DEF Begin
  <2>2. /\ call'[c].pc \in {"enter", "err"}
        /\ \A d \in Callers \ {c} : call'[d] = call[d]
        /\ UNCHANGED keychain
    BY <1>0, <1>2 DEF Begin
  <2>3. \A d \in Callers \ {c} : call'[d].pc = "idle"
    BY <2>1, <2>2 DEF Quiescent
  <2>4. Index = StoredKeys
    BY <1>1, <2>1 DEF SerialInv, Quiescent
  <2>5. Index' = Index /\ StoredKeys' = StoredKeys
    BY <2>2 DEF Index, StoredKeys, Stored
  <2> QED
    BY <1>1, <2>2, <2>3, <2>4, <2>5 DEF SerialInv, IndexReadable
<1>3. ASSUME NEW c \in Callers, SetPassword(c) \/ DeletePassword(c)
      PROVE SerialInv'
  <2>1. Op(c) \in {"set", "delete"} /\ call[c].pc = "enter"
    BY <1>3 DEF SetPassword, DeletePassword
  <2>2. Key(c) \in Keys /\ Key(c) # INDEX_KEY
    BY <1>0, <2>1, RequestShape DEF Op, Key, WellFormed, AllKeys
  <2>3. \A d \in Callers \ {c} : call'[d] = call[d] /\ call[d].pc = "idle"
    BY <1>0, <1>1, <1>3, <2>1
    DEF SerialInv, SetPassword, DeletePassword, Goto
  <2>4. call'[c].pc = "read_index" /\ call'[c].req = call[c].req
    BY <1>0, <1>3 DEF SetPassword, DeletePassword, Goto, Calls
  <2>5. keychain'[INDEX_KEY] = keychain[INDEX_KEY]
    BY <1>0, <1>3, <2>2 DEF SetPassword, DeletePassword, AllKeys
  <2>6. Index = StoredKeys
    BY <1>1, <2>1, <2>3 DEF SerialInv
  <2>7. Index' = Index /\ IndexReadable'
    BY <1>1, <2>5 DEF SerialInv, Index, IndexReadable
  <2>8. Revised(c)' = StoredKeys'
    <3>1. CASE SetPassword(c)
      <4>1. Op(c) = "set" /\ call[c].req.value \in Values
        BY <1>0, <2>1, <3>1, RequestShape DEF SetPassword, Op, WellFormed
      <4>2. keychain' = [keychain EXCEPT ![Key(c)] = call[c].req.value]
        BY <3>1 DEF SetPassword
      <4>3. StoredKeys' = StoredKeys \cup {Key(c)}
        BY <1>0, <2>2, <4>1, <4>2, EntryAssumption
        DEF StoredKeys, Stored, AllKeys
      <4> QED
        BY <2>4, <2>6, <2>7, <4>1, <4>3 DEF Revised, Op, Key
    <3>2. CASE DeletePassword(c)
      <4>1. Op(c) = "delete"
        BY <3>2 DEF DeletePassword
      <4>2. keychain' = [keychain EXCEPT ![Key(c)] = NoEntry]
        BY <3>2 DEF DeletePassword
      <4>3. StoredKeys' = StoredKeys \ {Key(c)}
        BY <1>0, <2>2, <4>2 DEF StoredKeys, Stored, AllKeys
      <4> QED
        BY <2>4, <2>6, <2>7, <4>1, <4>3 DEF Revised, Op, Key
    <3> QED
      BY <1>3, <3>1, <3>2
  <2> QED
    BY <2>3, <2>4, <2>7, <2>8 DEF SerialInv
<1>4. ASSUME NEW c \in Callers, GetPassword(c) \/ ListKeys(c) \/ Return(c)
      PROVE SerialInv'
  <2>1. /\ call[c].pc \in {"enter", "ok", "err"}
        /\ call'[c].pc \in {"ok", "idle"}
        /\ \A d \in Callers \ {c} : call'[d] = call[d]
        /\ UNCHANGED keychain
    BY <1>0, <1>4 DEF GetPassword, ListKeys, Return, IdleCall, Calls
  <2>2. \A d \in Callers \ {c} : call[d].pc = "idle"
    BY <1>1, <2>1 DEF SerialInv
  <2>3. Index = StoredKeys
    BY <1>1, <2>1, <2>2 DEF SerialInv
  <2>4. Index' = Index /\ StoredKeys' = StoredKeys
    BY <2>1 DEF Index, StoredKeys, Stored
  <2> QED
    BY <1>1, <2>1, <2>2, <2>3, <2>4 DEF SerialInv, IndexReadable
<1>5. ASSUME NEW c \in Callers, ReadIndex(c) PROVE SerialInv'
  <2>1. /\ call[c].pc = "read_index"
        /\ call'[c].pc = IF Revised(c) = Index THEN "ok" ELSE "write_index"
        /\ call'[c].index = Revised(c)
        /\ \A d \in Callers \ {c} : call'[d] = call[d]
        /\ UNCHANGED keychain
    BY <1>0, <1>5 DEF ReadIndex, Calls
  <2>2. \A d \in Callers \ {c} : call[d].pc = "idle"
    BY <1>1, <2>1 DEF SerialInv
  <2>3. Revised(c) = StoredKeys
    BY <1>1, <2>1 DEF SerialInv
  <2>4. Index' = Index /\ StoredKeys' = StoredKeys
    BY <2>1 DEF Index, StoredKeys, Stored
  <2> QED
    BY <1>1, <2>1, <2>2, <2>3, <2>4 DEF SerialInv, IndexReadable
<1>6. ASSUME NEW c \in Callers, WriteIndex(c) PROVE SerialInv'
  <2>1. /\ call[c].pc = "write_index" /\ call'[c].pc = "ok"
        /\ \A d \in Callers \ {c} : call'[d] = call[d]
    BY <1>0, <1>6 DEF WriteIndex, Goto, Calls
  <2>2. \A d \in Callers \ {c} : call[d].pc = "idle"
    BY <1>1, <2>1 DEF SerialInv
  <2>3. call[c].index = StoredKeys
    BY <1>1, <2>1 DEF SerialInv
  <2>4. keychain'[INDEX_KEY] = [keys |-> call[c].index]
    BY <1>0, <1>6 DEF WriteIndex, AllKeys
  <2>5. keychain'[INDEX_KEY] \in KeyLists
    BY <1>0, <2>4 DEF Calls, KeyLists
  <2>6. Index' = call[c].index /\ IndexReadable'
    BY <2>4, <2>5, EntryAssumption DEF Index, IndexReadable
  <2>7. StoredKeys' = StoredKeys
    BY <1>0, <1>6, KeyAssumption DEF WriteIndex, StoredKeys, Stored, AllKeys
  <2> QED
    BY <2>1, <2>2, <2>3, <2>6, <2>7 DEF SerialInv
<1>7. ASSUME NEW c \in Callers, IndexUndecodable(c) PROVE FALSE
  BY <1>1, <1>7 DEF IndexUndecodable, SerialInv
<1>8. ASSUME NEW c \in Callers, BackendFails(c) \/ Crash(c) PROVE FALSE
  BY <1>8 DEF BackendFails, Crash, Disturbance
<1>9. ASSUME NEW k \in AllKeys, NEW entry, Tampered(k, entry) PROVE FALSE
  BY <1>9 DEF Tampered, Disturbance
<1>10. CASE UNCHANGED vars
  BY <1>10 DEF vars, SerialInv, Index, IndexReadable, StoredKeys, Stored,
       Revised, Op, Key
<1> QED
  BY <1>2, <1>3, <1>4, <1>5, <1>6, <1>7, <1>8, <1>9, <1>10
  DEF Next, CallerStep, ExternalDelete, ExternalCorrupt, AllKeys

(***************************************************************************)
(* Parity with the in-memory store for serial use on a sound keychain.     *)
(***************************************************************************)
THEOREM SerialUseIsExact == Spec => []SerialParity
<1>1. Init => SerialInv
  BY EntryAssumption
  DEF Init, SerialInv, At, IdleCall, Index, IndexReadable, StoredKeys, Stored,
      AllKeys
<1>2. SerialInv => SerialParity
  BY DEF SerialInv, SerialParity, Quiescent, At, StoredKeys
<1> QED
  BY <1>1, <1>2, NextSerialInv, TypeCorrect, PTL DEF Spec

--------------------------------------------------------------------------------
(***************************************************************************)
(* Refinement.  absSecrets and absOps are the abstract variables.          *)
(***************************************************************************)
absSecrets == [k \in Keys |-> keychain[k]]
absOps == [c \in Callers |-> AbstractOp(c)]

(***************************************************************************)
(* A step of caller c moves the abstract call of c and of nobody else.     *)
(***************************************************************************)
LEMMA AbsOpsStep ==
  ASSUME TypeOK, NEW c \in Callers, NEW new,
         call' = [call EXCEPT ![c] = new]
  PROVE  absOps' = [absOps EXCEPT ![c] = AbstractOp(c)']
<1>1. \A d \in Callers \ {c} : call'[d] = call[d]
  BY DEF TypeOK, CallsOK
<1>2. \A d \in Callers \ {c} : AbstractOp(d)' = AbstractOp(d)
  BY <1>1 DEF AbstractOp, Observed, Phase, Op, Key
<1> QED
  BY <1>2 DEF absOps

(***************************************************************************)
(* What the abstract call record of c is, by the stage of the call.        *)
(***************************************************************************)
LEMMA AbstractShape ==
  ASSUME NEW c \in Callers, call[c] \in Calls, WellFormed(call[c])
  PROVE  /\ call[c].pc = "idle" => AbstractOp(c) = Entries!IdleOp
         /\ ~Observed(c) => AbstractOp(c) = Entries!IdleOp
         /\ Observed(c) => AbstractOp(c) =
              [phase |-> Phase(c), req |-> call[c].req, reply |-> call[c].reply]
  BY DEF AbstractOp, Phase, Observed, WellFormed, Entries!IdleOp,
         Entries!NoRequest, NoRequest

LEMMA RefineNext == TypeOK /\ TypeOK' /\ [Next]_vars => [Entries!Next]_(Entries!vars)
<1> SUFFICES ASSUME TypeOK, TypeOK', [Next]_vars
             PROVE Entries!Next \/ UNCHANGED <<absSecrets, absOps>>
  BY DEF Entries!vars, absSecrets, absOps
<1> USE DEF At
<1>0. /\ call \in [Callers -> Calls]
      /\ \A c \in Callers : call[c] \in Calls /\ WellFormed(call[c])
      /\ \A c \in Callers : call'[c] \in Calls /\ WellFormed(call'[c])
      /\ keychain \in [AllKeys -> Values \cup {NoEntry, Corrupt} \cup KeyLists]
      /\ absOps \in [Callers -> {AbstractOp(c) : c \in Callers}]
      /\ \A c \in Callers : absOps[c] = AbstractOp(c)
  BY DEF TypeOK, KeychainOK, CallsOK, absOps
<1>1. ASSUME NEW c \in Callers, NEW r \in Requests, Begin(c, r)
      PROVE Entries!Next \/ UNCHANGED <<absSecrets, absOps>>
  <2>1. /\ call'[c].pc = IF r.key = INDEX_KEY THEN "err" ELSE "enter"
        /\ call'[c].req = r /\ call'[c].reply = NoEntry
        /\ UNCHANGED keychain
        /\ call[c].pc = "idle"
        /\ absOps' = [absOps EXCEPT ![c] = AbstractOp(c)']
    BY <1>0, <1>1, AbsOpsStep DEF Begin
  <2>2. CASE r.op # "list" /\ r.key # INDEX_KEY
    <3>1. AbstractOp(c)' = [phase |-> "pending", req |-> r, reply |-> NoEntry]
      BY <1>0, <2>1, <2>2 DEF AbstractOp, Observed, Phase, Op, Key
    <3>2. absOps[c].phase = "idle"
      BY <1>0, <2>1, AbstractShape DEF Entries!IdleOp
    <3>3. r \in Entries!Requests
      BY <2>2 DEF Requests, Entries!Requests, AllKeys
    <3>4. Entries!Invoke(c, r)
      BY <2>1, <3>1, <3>2 DEF Entries!Invoke, absOps, absSecrets
    <3> QED
      BY <3>3, <3>4 DEF Entries!Next
  <2>3. CASE ~(r.op # "list" /\ r.key # INDEX_KEY)
    <3>1. AbstractOp(c)' = Entries!IdleOp
      BY <1>0, <2>1, <2>3 DEF AbstractOp, Observed, Op, Key, Entries!IdleOp,
           Entries!NoRequest, NoRequest
    <3>2. absOps[c] = Entries!IdleOp
      BY <1>0, <2>1, AbstractShape
    <3> QED
      BY <1>0, <2>1, <3>1, <3>2 DEF absSecrets
  <2> QED
    BY <2>2, <2>3
<1>2. ASSUME NEW c \in Callers, SetPassword(c)
      PROVE Entries!Next
  <2>1. /\ call'[c].pc = "read_index" /\ call'[c].req = call[c].req
        /\ call'[c].reply = NoEntry
        /\ call[c].pc = "enter" /\ call[c].reply = NoEntry
        /\ call[c].req \in Requests /\ call[c].req.key # INDEX_KEY
        /\ call[c].req.op = "set"
        /\ absOps' = [absOps EXCEPT ![c] = AbstractOp(c)']
    BY <1>0, <1>2, AbsOpsStep DEF SetPassword, Goto, Op, Calls, WellFormed
  <2>2. PICK k \in Keys, v \in Values :
          call[c].req = [op |-> "set", key |-> k, value |-> v]
    BY <2>1 DEF Requests, AllKeys
  <2>3. absOps[c] = [phase |-> "pending", req |-> call[c].req, reply |-> NoEntry]
    BY <1>0, <2>1 DEF AbstractOp, Observed, Phase, Op, Key
  <2>4. AbstractOp(c)' =
          [phase |-> "executed", req |-> call[c].req, reply |-> NoEntry]
    BY <2>1 DEF AbstractOp, Observed, Phase, Op, Key
  <2>5. absSecrets' = [absSecrets EXCEPT ![k] = v]
    <3>1. keychain' = [keychain EXCEPT ![k] = v]
      BY <1>2, <2>2 DEF SetPassword, Key
    <3> QED
      BY <1>0, <3>1 DEF absSecrets, AllKeys
  <2>6. absOps' = [absOps EXCEPT ![c] =
          [phase |-> "executed", req |-> call[c].req, reply |-> NoEntry]]
    BY <2>1, <2>4
  <2>7. Entries!Executed(c, call[c].req, NoEntry)
    BY <2>3, <2>6 DEF Entries!Executed, absOps
  <2>8. Entries!Set(c, k, v)
    BY <2>2, <2>5, <2>7 DEF Entries!Set, absSecrets
  <2> QED
    BY <2>8 DEF Entries!Next
<1>3. ASSUME NEW c \in Callers, DeletePassword(c)
      PROVE Entries!Next
  <2>1. /\ call'[c].pc = "read_index" /\ call'[c].req = call[c].req
        /\ call'[c].reply = NoEntry
        /\ call[c].pc = "enter" /\ call[c].reply = NoEntry
        /\ call[c].req \in Requests /\ call[c].req.key # INDEX_KEY
        /\ call[c].req.op = "delete"
        /\ absOps' = [absOps EXCEPT ![c] = AbstractOp(c)']
    BY <1>0, <1>3, AbsOpsStep DEF DeletePassword, Goto, Op, Calls, WellFormed
  <2>2. PICK k \in Keys :
          call[c].req = [op |-> "delete", key |-> k, value |-> NoEntry]
    BY <2>1 DEF Requests, AllKeys
  <2>3. absOps[c] = [phase |-> "pending", req |-> call[c].req, reply |-> NoEntry]
    BY <1>0, <2>1 DEF AbstractOp, Observed, Phase, Op, Key
  <2>4. AbstractOp(c)' =
          [phase |-> "executed", req |-> call[c].req, reply |-> NoEntry]
    BY <2>1 DEF AbstractOp, Observed, Phase, Op, Key
  <2>5. absSecrets' = [absSecrets EXCEPT ![k] = NoEntry]
    <3>1. keychain' = [keychain EXCEPT ![k] = NoEntry]
      BY <1>3, <2>2 DEF DeletePassword, Key
    <3> QED
      BY <1>0, <3>1 DEF absSecrets, AllKeys
  <2>6. Entries!Delete(c, k)
    BY <2>1, <2>2, <2>3, <2>4, <2>5
    DEF Entries!Delete, Entries!Executed, absOps, absSecrets
  <2> QED
    BY <2>2, <2>6 DEF Entries!Next
<1>4. ASSUME NEW c \in Callers, GetPassword(c)
      PROVE Entries!Next
  <2>1. /\ call'[c].pc = "ok" /\ call'[c].req = call[c].req
        /\ call'[c].reply = keychain[Key(c)]
        /\ call[c].pc = "enter" /\ call[c].reply = NoEntry
        /\ call[c].req \in Requests /\ call[c].req.key # INDEX_KEY
        /\ call[c].req.op = "get"
        /\ UNCHANGED keychain
        /\ absOps' = [absOps EXCEPT ![c] = AbstractOp(c)']
    BY <1>0, <1>4, AbsOpsStep DEF GetPassword, Op, Calls, WellFormed
  <2>2. PICK k \in Keys :
          call[c].req = [op |-> "get", key |-> k, value |-> NoEntry]
    BY <2>1 DEF Requests, AllKeys
  <2>3. absOps[c] = [phase |-> "pending", req |-> call[c].req, reply |-> NoEntry]
    BY <1>0, <2>1 DEF AbstractOp, Observed, Phase, Op, Key
  <2>4. AbstractOp(c)' =
          [phase |-> "executed", req |-> call[c].req, reply |-> absSecrets[k]]
    BY <2>1, <2>2 DEF AbstractOp, Observed, Phase, Op, Key, absSecrets
  <2>5. Entries!Get(c, k)
    BY <2>1, <2>2, <2>3, <2>4
    DEF Entries!Get, Entries!Executed, absOps, absSecrets
  <2> QED
    BY <2>2, <2>5 DEF Entries!Next
<1>5. ASSUME NEW c \in Callers,
             ListKeys(c) \/ ReadIndex(c) \/ WriteIndex(c)
      PROVE UNCHANGED <<absSecrets, absOps>>
  <2>1. /\ call'[c].req = call[c].req
        /\ absOps' = [absOps EXCEPT ![c] = AbstractOp(c)']
    BY <1>0, <1>5, AbsOpsStep DEF ListKeys, ReadIndex, WriteIndex, Goto, Calls
  <2>2. UNCHANGED absSecrets
    BY <1>0, <1>5, KeyAssumption
    DEF ListKeys, ReadIndex, WriteIndex, absSecrets, AllKeys
  <2>3. CASE ListKeys(c)
    <3>1. ~Observed(c) /\ ~Observed(c)'
      BY <2>1, <2>3 DEF ListKeys, Observed, Op, Key
    <3> QED
      BY <1>0, <2>1, <2>2, <3>1 DEF AbstractOp
  <2>4. CASE ReadIndex(c) \/ WriteIndex(c)
    <3>1. /\ call[c].pc \in {"read_index", "write_index"}
          /\ call'[c].pc \in {"read_index", "write_index", "ok"}
          /\ call'[c].reply = call[c].reply
      BY <1>0, <2>4 DEF ReadIndex, WriteIndex, Goto, Calls
    <3>2. Phase(c) = "executed" /\ Phase(c)' = "executed"
      BY <3>1 DEF Phase
    <3>3. AbstractOp(c)' = AbstractOp(c)
      BY <2>1, <3>1, <3>2 DEF AbstractOp, Observed, Op, Key
    <3> QED
      BY <1>0, <2>1, <2>2, <3>3
  <2> QED
    BY <1>5, <2>3, <2>4
<1>6. ASSUME NEW c \in Callers, IndexUndecodable(c) \/ BackendFails(c)
      PROVE Entries!Next \/ UNCHANGED <<absSecrets, absOps>>
  <2>1. /\ call[c].pc \in {"enter", "read_index", "write_index"}
        /\ call'[c].pc = "err" /\ call'[c].req = call[c].req
        /\ call[c].reply = NoEntry /\ call'[c].reply = NoEntry
        /\ UNCHANGED keychain
        /\ absOps' = [absOps EXCEPT ![c] = AbstractOp(c)']
    BY <1>0, <1>6, AbsOpsStep
    DEF IndexUndecodable, BackendFails, Goto, Calls, WellFormed
  <2>2. CASE Observed(c)
    <3>1. absOps[c] = [phase |-> Phase(c), req |-> call[c].req, reply |-> NoEntry]
      BY <1>0, <2>1, <2>2 DEF AbstractOp
    <3>2. Phase(c) \in {"pending", "executed"} /\ Phase(c)' = "failed"
      BY <2>1 DEF Phase
    <3>3. AbstractOp(c)' =
            [phase |-> "failed", req |-> call[c].req, reply |-> NoEntry]
      BY <2>1, <2>2, <3>2 DEF AbstractOp, Observed, Op, Key
    <3>4. absOps[c].req = call[c].req
      BY <3>1
    <3>5. absOps' = [absOps EXCEPT ![c] =
            [phase |-> "failed", req |-> absOps[c].req, reply |-> NoEntry]]
      BY <2>1, <3>3, <3>4
    <3>6. absOps[c].phase \in {"pending", "executed"} /\ UNCHANGED absSecrets
      BY <2>1, <3>1, <3>2 DEF absSecrets
    <3>7. Entries!Fail(c)
      BY <3>5, <3>6 DEF Entries!Fail, absOps, absSecrets
    <3> QED
      BY <3>7 DEF Entries!Next
  <2>3. CASE ~Observed(c)
    <3>1. ~Observed(c)'
      BY <2>1, <2>3 DEF Observed, Op, Key
    <3> QED
      BY <1>0, <2>1, <2>3, <3>1 DEF AbstractOp, absSecrets
  <2> QED
    BY <2>2, <2>3
<1>7. ASSUME NEW c \in Callers, Return(c) \/ Crash(c)
      PROVE Entries!Next \/ UNCHANGED <<absSecrets, absOps>>
  <2>1. /\ call[c].pc # "idle"
        /\ call'[c] = IdleCall
        /\ UNCHANGED keychain
        /\ absOps' = [absOps EXCEPT ![c] = AbstractOp(c)']
    BY <1>0, <1>7, AbsOpsStep DEF Return, Crash
  <2>2. AbstractOp(c)' = Entries!IdleOp
    BY <2>1 DEF AbstractOp, Phase, Observed, IdleCall, Entries!IdleOp,
         Entries!NoRequest, NoRequest
  <2>3. CASE Observed(c)
    <3>1. absOps[c].phase = Phase(c) /\ Phase(c) # "idle"
      BY <1>0, <2>1, <2>3 DEF AbstractOp, Phase
    <3>2. Entries!Abandon(c)
      BY <2>1, <2>2, <3>1 DEF Entries!Abandon, absOps, absSecrets
    <3> QED
      BY <3>2 DEF Entries!Next
  <2>4. CASE ~Observed(c)
    <3>1. absOps[c] = Entries!IdleOp
      BY <1>0, <2>4, AbstractShape
    <3> QED
      BY <1>0, <2>1, <2>2, <3>1 DEF absSecrets
  <2> QED
    BY <2>3, <2>4
<1>8. ASSUME NEW k \in AllKeys, ExternalDelete(k)
      PROVE Entries!Next \/ UNCHANGED <<absSecrets, absOps>>
  <2>1. keychain' = [keychain EXCEPT ![k] = NoEntry] /\ UNCHANGED call
    BY <1>8 DEF ExternalDelete, Tampered
  <2>2. UNCHANGED absOps
    BY <2>1 DEF absOps, AbstractOp, Observed, Phase, Op, Key
  <2>3. CASE k \in Keys
    <3>1. absSecrets' = [absSecrets EXCEPT ![k] = NoEntry]
      BY <1>0, <2>1, <2>3 DEF absSecrets, AllKeys
    <3>2. Entries!Withdraw(k)
      BY <2>2, <3>1 DEF Entries!Withdraw, absOps, absSecrets
    <3> QED
      BY <2>3, <3>2 DEF Entries!Next
  <2>4. CASE k = INDEX_KEY
    BY <1>0, <2>1, <2>2, <2>4, KeyAssumption DEF absSecrets, AllKeys
  <2> QED
    BY <2>3, <2>4 DEF AllKeys
<1>9. CASE ExternalCorrupt
  <2>1. keychain' = [keychain EXCEPT ![INDEX_KEY] = Corrupt] /\ UNCHANGED call
    BY <1>9 DEF ExternalCorrupt, Tampered
  <2> QED
    BY <1>0, <2>1, KeyAssumption
    DEF absSecrets, AllKeys, absOps, AbstractOp, Observed, Phase, Op, Key
<1>10. CASE UNCHANGED vars
  BY <1>10 DEF vars, absSecrets, absOps, AbstractOp, Observed, Phase, Op, Key
<1> QED
  BY <1>1, <1>2, <1>3, <1>4, <1>5, <1>6, <1>7, <1>8, <1>9, <1>10
  DEF Next, CallerStep

(***************************************************************************)
(* set, get and delete are atomic under every interleaving and every       *)
(* failure: the keychain store implements the abstract one.                *)
(***************************************************************************)
THEOREM Linearizable == Spec => EntriesLinearizable
<1>1. Init => Entries!Init
  BY DEF Init, Entries!Init, IdleCall, AbstractOp, Observed, Phase, Op, Key,
         Entries!IdleOp, Entries!NoRequest, NoRequest, AllKeys
<1> QED
  BY <1>1, RefineNext, TypeCorrect, PTL
  DEF Spec, EntriesLinearizable, Entries!Spec

================================================================================
