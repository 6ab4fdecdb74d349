------------------------------ MODULE Repositories -----------------------------
(***************************************************************************)
(* The SQLite repositories (crates/persistence/src) as their callers use   *)
(* them: every write goes through write_transaction (sql.rs), which opens  *)
(* an immediate transaction on the connection's thread, runs the checks    *)
(* and statements of the repository in it, commits, and tries again with a *)
(* back-off while the write lock is busy and the retry budget lasts.       *)
(* Callers are tasks of one or several processes (windows) over one file.  *)
(***************************************************************************)
EXTENDS Tables

CONSTANTS
  Callers,     \* tasks that write
  Outsider,    \* a program that takes the write lock without the repositories
  MaxRetries,  \* bound: attempts that fit into WRITE_RETRY_BUDGET
  Faults       \* the disturbances that occur, see FaultKinds

(***************************************************************************)
(* "io": a statement fails; "crash": a process dies between two statements *)
(* (or its future is dropped in the back-off); "outsider": another program *)
(* holds the write lock, for as long as it likes.                          *)
(***************************************************************************)
FaultKinds == {"io", "crash", "outsider"}

ASSUME CallerAssumption ==
  Outsider \notin Callers /\ None \notin Callers \cup {Outsider}
ASSUME RetryAssumption == MaxRetries \in Nat
ASSUME RepositoryFaults == Faults \subseteq FaultKinds

VARIABLES
  db,        \* the committed database
  lock,      \* SQLite's write lock: who holds it, or None
  call,      \* the write each caller has in flight
  declined   \* history: grants whose last committed record is a denial

vars == <<db, lock, call, declined>>

Idle(reply) ==
  [pc |-> "idle", req |-> None, draft |-> None, retries |-> 0, reply |-> reply]
Queued(r) ==
  [pc |-> "queued", req |-> r, draft |-> None, retries |-> 0, reply |-> None]

Init ==
  /\ db = Empty
  /\ lock = None
  /\ call = [c \in Callers |-> Idle(None)]
  /\ declined = {}

At(c, pc) == call[c].pc = pc
InTransaction(c) == call[c].pc \in {"begun", "executed"}
Reply(c, reply) == call' = [call EXCEPT ![c] = Idle(reply)]

--------------------------------------------------------------------------------
Call(c, r) ==
  /\ At(c, "idle")
  /\ call' = [call EXCEPT ![c] = Queued(r)]
  /\ UNCHANGED <<db, lock, declined>>

(***************************************************************************)
(* BEGIN IMMEDIATE, on the connection's thread: the write lock is taken    *)
(* before anything is read.                                                *)
(***************************************************************************)
Begin(c) ==
  /\ At(c, "queued")
  /\ lock = None
  /\ lock' = c
  /\ call' = [call EXCEPT ![c].pc = "begun"]
  /\ UNCHANGED <<db, declined>>

(***************************************************************************)
(* Mutation of Backoff: nobody looks at the budget.                        *)
(***************************************************************************)
BackoffForever(c) ==
  /\ At(c, "queued")
  /\ lock # None
  /\ call' = [call EXCEPT ![c].pc = "backoff"]
  /\ UNCHANGED <<db, lock, declined>>

(***************************************************************************)
(* The lock stays busy for busy_timeout: within the budget the write backs *)
(* off and tries again, past it the caller is told DatabaseLocked.         *)
(***************************************************************************)
Backoff(c) ==
  /\ At(c, "queued")
  /\ lock # None
  /\ call[c].retries < MaxRetries
  /\ call' = [call EXCEPT ![c].pc = "backoff", ![c].retries = @ + 1]
  /\ UNCHANGED <<db, lock, declined>>

Wake(c) ==
  /\ At(c, "backoff")
  /\ call' = [call EXCEPT ![c].pc = "queued"]
  /\ UNCHANGED <<db, lock, declined>>

GiveUp(c) ==
  /\ At(c, "queued")
  /\ lock # None
  /\ Reply(c, "DatabaseLocked")
  /\ UNCHANGED <<db, lock, declined>>

(***************************************************************************)
(* Mutation of Execute: no transaction, every statement commits itself.    *)
(***************************************************************************)
ExecuteInPlace(c) ==
  /\ At(c, "begun")
  /\ Verdict(db, call[c].req) = "Ok"
  /\ call' = [call EXCEPT ![c].pc = "executed",
                          ![c].draft = Effect(db, call[c].req)]
  /\ db' = Effect(db, call[c].req)
  /\ UNCHANGED <<lock, declined>>

(***************************************************************************)
(* The checks of the repository and of SQLite, and the statements; what    *)
(* they write is the transaction's own until it commits.                   *)
(***************************************************************************)
Execute(c) ==
  /\ At(c, "begun")
  /\ Verdict(db, call[c].req) = "Ok"
  /\ call' = [call EXCEPT ![c].pc = "executed",
                          ![c].draft = Effect(db, call[c].req)]
  /\ UNCHANGED <<db, lock, declined>>

(***************************************************************************)
(* Mutation of Refuse: the refused transaction stays open.                 *)
(***************************************************************************)
RefuseKeepsLock(c) ==
  /\ At(c, "begun")
  /\ Verdict(db, call[c].req) # "Ok"
  /\ Reply(c, Verdict(db, call[c].req))
  /\ UNCHANGED <<db, lock, declined>>

(***************************************************************************)
(* An error drops the transaction, which rolls back.                       *)
(***************************************************************************)
Refuse(c) ==
  /\ At(c, "begun")
  /\ Verdict(db, call[c].req) # "Ok"
  /\ Reply(c, Verdict(db, call[c].req))
  /\ lock' = None
  /\ UNCHANGED <<db, declined>>

(***************************************************************************)
(* History: what the grants that are on record said when they were last    *)
(* recorded.                                                               *)
(***************************************************************************)
Record(r) ==
  LET row == [workspace |-> r.workspace, grant |-> r.grant]
  IN IF r.op # "grant_upsert" THEN declined
     ELSE IF r.decision = "deny" THEN declined \cup {row} ELSE declined \ {row}

(***************************************************************************)
(* The commit and the reply, which nobody reads when the caller's future   *)
(* was dropped or its process dies right after: the closure runs on the    *)
(* connection's thread to its end either way.                              *)
(***************************************************************************)
Commit(c) ==
  /\ At(c, "executed")
  /\ db' = call[c].draft
  /\ lock' = None
  /\ \/ Reply(c, "Ok")
     \/ "crash" \in Faults /\ Reply(c, None)
  /\ declined' = Record(call[c].req) \cap call[c].draft.grants

--------------------------------------------------------------------------------
Released(c) == lock' = IF lock = c THEN None ELSE lock

StatementFails(c) ==
  /\ "io" \in Faults
  /\ At(c, "queued") \/ InTransaction(c)
  /\ Reply(c, "IoError")
  /\ Released(c)
  /\ UNCHANGED <<db, declined>>

(***************************************************************************)
(* The process dies, or the caller's future is dropped in the back-off:    *)
(* SQLite rolls back what is not committed and the lock is free.           *)
(***************************************************************************)
Crash(c) ==
  /\ "crash" \in Faults
  /\ ~At(c, "idle")
  /\ Reply(c, None)
  /\ Released(c)
  /\ UNCHANGED <<db, declined>>

OutsiderLocks ==
  /\ "outsider" \in Faults
  /\ lock = None
  /\ lock' = Outsider
  /\ UNCHANGED <<db, call, declined>>

OutsiderUnlocks ==
  /\ lock = Outsider
  /\ lock' = None
  /\ UNCHANGED <<db, call, declined>>

--------------------------------------------------------------------------------
(***************************************************************************)
(* An attempt ends one way or the other after busy_timeout at the latest.  *)
(***************************************************************************)
Attempt(c) == Begin(c) \/ Backoff(c) \/ GiveUp(c)
InTransactionStep(c) == Execute(c) \/ Refuse(c) \/ Commit(c)

CallerStep(c) ==
  \/ Attempt(c) \/ Wake(c) \/ InTransactionStep(c)
  \/ StatementFails(c) \/ Crash(c)

Next ==
  \/ \E c \in Callers : CallerStep(c) \/ \E r \in Requests : Call(c, r)
  \/ OutsiderLocks \/ OutsiderUnlocks

Spec == Init /\ [][Next]_vars

(***************************************************************************)
(* The connection's thread and the caller's timer run; nobody need release *)
(* a lock it holds outside the repositories.                               *)
(***************************************************************************)
Fairness ==
  \A c \in Callers :
    WF_vars(Attempt(c) \/ Wake(c) \/ InTransactionStep(c))

FairSpec == Spec /\ Fairness

--------------------------------------------------------------------------------
(***************************************************************************)
(* Type invariant, with the discipline of the lock: a caller holds it      *)
(* exactly while its transaction is open.                                  *)
(***************************************************************************)
PCs == {"idle", "queued", "backoff", "begun", "executed"}
Replies == {"Ok", "NotFound", "ConflictingWrite", "DatabaseLocked", "IoError"}

Calls ==
  [pc : PCs, req : Requests \cup {None}, draft : Databases \cup {None},
   retries : 0..MaxRetries, reply : Replies \cup {None}]

TypeOK ==
  /\ db \in Databases
  /\ lock \in Callers \cup {Outsider, None}
  /\ call \in [Callers -> Calls]
  /\ declined \subseteq db.grants
  /\ \A c \in Callers :
       /\ At(c, "idle") <=> call[c].req = None
       /\ At(c, "executed") <=> call[c].draft # None
       /\ InTransaction(c) <=> lock = c

(***************************************************************************)
(* Whatever is deleted, moved or refused in whatever order, every row's    *)
(* references name rows that exist: cascades leave no orphan behind.       *)
(***************************************************************************)
Resolved(d) ==
  /\ \A s \in Sessions : d.sessions[s] \in d.workspaces \cup {None}
  /\ \A c \in Chats : Has(d.chats, c) => d.chats[c].workspace \in d.workspaces
  /\ \A t \in Turns : Has(d.turns, t) =>
       /\ Has(d.chats, d.turns[t].chat)
       /\ d.turns[t].parent # None => Has(d.turns, d.turns[t].parent)
  /\ \A a \in Attachments :
       Has(d.attachments, a) => Has(d.turns, d.attachments[a])
  /\ \A row \in d.grants : row.workspace \in d.workspaces
  /\ d.recents \subseteq d.workspaces

ReferencesResolve == Resolved(db)

(***************************************************************************)
(* head_turn_id is not a foreign key, and nothing clears it when turns go: *)
(* still it names a turn of the chat itself ("belongs to another chat",    *)
(* chat.rs set_head_turn), never one that is gone or another chat's.       *)
(***************************************************************************)
HeadsOwned(d) ==
  \A c \in Chats : Has(d.chats, c) /\ d.chats[c].head # None =>
    d.chats[c].head \in TurnsOf(d, c)

HeadIsOwnTurn == HeadsOwned(db)

(***************************************************************************)
(* "Three triggers keep the mirror in sync" (0002_turn_fts.sql:12): search *)
(* finds exactly the turns there are, each under its chat, cascaded        *)
(* deletes included.                                                       *)
(***************************************************************************)
Mirrored(d) ==
  d.indexed = {row \in IndexRows : row.turn \in TurnsOf(d, row.chat)}

IndexMirrors == Mirrored(db)

(***************************************************************************)
(* "Turns are immutable once written" (repository.rs, TurnRepository): as  *)
(* long as a chat exists its transcript only grows at its end, whichever   *)
(* process appends and whatever is written to the chat or around it.       *)
(***************************************************************************)
Extends(old, new) ==
  /\ DOMAIN old \subseteq DOMAIN new
  /\ \A n \in DOMAIN old : new[n] = old[n]
  /\ \A n \in DOMAIN new \ DOMAIN old : \A m \in DOMAIN old : m < n

TranscriptOnlyGrows ==
  [][\A c \in Chats :
       Has(db.chats, c) /\ Has(db'.chats, c)
         => Extends(Transcript(db, c), Transcript(db', c))]_vars

(***************************************************************************)
(* The schema would delete the sessions of a workspace with it; the        *)
(* repository's check keeps that from ever happening: a session goes only  *)
(* by its own delete, also when the two race.                              *)
(***************************************************************************)
SessionsOutlive ==
  [][\A s \in Sessions :
       Has(db.sessions, s) /\ ~Has(db'.sessions, s)
         => \E c \in Callers :
              call[c].req = [op |-> "session_delete", session |-> s]
                /\ At(c, "executed")]_vars

--------------------------------------------------------------------------------
(***************************************************************************)
(* Refinement: a write takes effect at its commit, a refusal at its check. *)
(***************************************************************************)
OpOf(k) ==
  [pending |-> k.pc # "idle", req |-> k.req, reply |-> k.reply]

Ops == [c \in Callers |-> OpOf(call[c])]

Atomic == INSTANCE AtomicRepositories WITH contents <- db, ops <- Ops

(***************************************************************************)
(* Under every interleaving, failure, crash and retry, a write is atomic:  *)
(* it is applied once, at one instant, and then its caller is told Ok;     *)
(* what it is refused for holds at that instant; told of an error, nothing *)
(* was written, and a caller that dies leaves all of its write or nothing. *)
(***************************************************************************)
ImplementsAtomic == Atomic!Spec

(***************************************************************************)
(* A lock that is never released does not hang a caller: every write comes *)
(* back, with DatabaseLocked if need be (the retry budget of sql.rs).      *)
(***************************************************************************)
CallsReturn == \A c \in Callers : ~At(c, "idle") ~> At(c, "idle")

(***************************************************************************)
(* "Allow and Deny are symmetric - both are first-class records" (shared/  *)
(* src/persistence/types.rs): a grant recorded as a denial reads back as   *)
(* one.  It does not: see the run GrantDenied.                             *)
(***************************************************************************)
DeniedReadsAsDenied ==
  \A row \in declined :
    [grant |-> row.grant, decision |-> "deny"]
      \in GrantsOfWorkspace(db, row.workspace)

================================================================================
