------------------------------- MODULE Migration -------------------------------
(***************************************************************************)
(* MigrationRunner (crates/persistence/src/migration.rs), run by every     *)
(* Database::open and by the migrate tool on the one database file that    *)
(* all windows and processes share.  The runner's bookkeeping statements   *)
(* commit one by one; only a migration's body and the update of            *)
(* schema_version share a transaction.  SQLite is modelled by what the     *)
(* runner relies on: one writer at a time, who may give up waiting;        *)
(* readers see the last commit; a transaction is all or nothing; in WAL    *)
(* mode with synchronous=NORMAL a loss of power may undo commits made      *)
(* since the last checkpoint, newest first.                                *)
(***************************************************************************)
EXTENDS Naturals, Sequences, FiniteSetsExt

CONSTANTS
  Openers,    \* processes that open the database
  Versions,   \* numbers of the migration files ever shipped, append-only
  Releases,   \* highest migration known to each binary in use
  NoOne,      \* nobody holds the write lock
  Faults,     \* what may go wrong, see FaultKinds
  MaxStarts   \* bound on the runs of each opener

FaultKinds == {"io", "crash", "power"}

ASSUME VersionAssumption == Versions \subseteq Nat \ {0} /\ Releases \subseteq Nat
ASSUME OpenerAssumption == NoOne \notin Openers
ASSUME FaultAssumption == Faults \subseteq FaultKinds /\ MaxStarts \in Nat

VARIABLES
  db,      \* the committed database
  recent,  \* the states a loss of power may bring back
  writer,  \* the connection that holds SQLite's write lock
  draft,   \* the uncommitted database of the open transaction
  run,     \* progress of each opener
  serial   \* history: no two runners were preparing _meta at a time, so far

vars == <<db, recent, writer, draft, run, serial>>

(***************************************************************************)
(* The database: does table _meta exist, the schema_version of its rows in *)
(* rowid order, and the migrations whose body is in the schema.            *)
(***************************************************************************)
EmptyDb == [meta |-> FALSE, rows |-> <<>>, schema |-> {}]
Version(d) == IF d.rows = <<>> THEN 0 ELSE d.rows[1]

Modes == {"open", "status", "dry_run"}

IdleRun(starts) ==
  [pc |-> "idle", mode |-> "open", newest |-> 0, at |-> 0, starts |-> starts]

Init ==
  /\ db = EmptyDb
  /\ recent = {EmptyDb}
  /\ writer = NoOne
  /\ draft = EmptyDb
  /\ run = [o \in Openers |-> IdleRun(0)]
  /\ serial = TRUE

At(o, pc) == run[o].pc = pc
Goto(o, pc) == run' = [run EXCEPT ![o].pc = pc]
ReadOnly(o) == run[o].mode = "dry_run"

(***************************************************************************)
(* A statement outside the migration transactions commits by itself.       *)
(***************************************************************************)
Commit(d) ==
  /\ db' = d
  /\ recent' = recent \cup {d}

ReadsOnly == UNCHANGED <<db, recent, writer, draft, serial>>

--------------------------------------------------------------------------------
(***************************************************************************)
(* A pass over the database starts: Database::open, or a current_version   *)
(* of the migrate tool, on a read-only connection for up --dry-run.  (The  *)
(* tool's status and --dry-run make two such passes, its up makes one and  *)
(* then opens.)  The directory of migrations is read and validated before  *)
(* any SQL runs.                                                           *)
(***************************************************************************)
Preparing == {"create", "count", "seed"}

Start(o, mode, newest) ==
  /\ At(o, "idle")
  /\ run[o].starts < MaxStarts
  /\ run' = [run EXCEPT ![o] = [pc |-> "create", mode |-> mode,
               newest |-> newest, at |-> 0, starts |-> run[o].starts + 1]]
  /\ serial' = (serial /\ \A p \in Openers : run[p].pc \notin Preparing)
  /\ UNCHANGED <<db, recent, writer, draft>>

(***************************************************************************)
(* ensure_meta_table: CREATE TABLE IF NOT EXISTS, SELECT COUNT, INSERT.    *)
(***************************************************************************)
CreateMeta(o) ==
  /\ At(o, "create")
  /\ IF db.meta
       THEN UNCHANGED <<db, recent>> /\ Goto(o, "count")
       ELSE IF ReadOnly(o)
         THEN UNCHANGED <<db, recent>> /\ Goto(o, "failed")
         ELSE writer = NoOne /\ Commit([db EXCEPT !.meta = TRUE]) /\ Goto(o, "count")
  /\ UNCHANGED <<writer, draft, serial>>

(***************************************************************************)
(* Mutations of CountRows: a second row is taken for a race that will      *)
(* pass; the row is seeded without looking.                                *)
(***************************************************************************)
CountRowsSeeds(o) == At(o, "count") /\ Goto(o, "seed") /\ ReadsOnly

CountRowsRetries(o) ==
  /\ At(o, "count")
  /\ Goto(o, CASE Len(db.rows) = 0 -> "seed"
               [] Len(db.rows) = 1 -> "read"
               [] OTHER -> "create")
  /\ ReadsOnly

(***************************************************************************)
(* Two rows are refused as a corrupt _meta.                                *)
(***************************************************************************)
CountRows(o) ==
  /\ At(o, "count")
  /\ Goto(o, CASE Len(db.rows) = 0 -> "seed"
               [] Len(db.rows) = 1 -> "read"
               [] OTHER -> "failed")
  /\ ReadsOnly

(***************************************************************************)
(* Mutation of SeedRow: the table is emptied first.                        *)
(***************************************************************************)
SeedRowResets(o) ==
  /\ At(o, "seed")
  /\ IF ReadOnly(o)
       THEN UNCHANGED <<db, recent>> /\ Goto(o, "failed")
       ELSE /\ writer = NoOne
            /\ Commit([db EXCEPT !.rows = <<0>>])
            /\ Goto(o, "read")
  /\ UNCHANGED <<writer, draft, serial>>

SeedRow(o) ==
  /\ At(o, "seed")
  /\ IF ReadOnly(o)
       THEN UNCHANGED <<db, recent>> /\ Goto(o, "failed")
       ELSE /\ writer = NoOne
            /\ Commit([db EXCEPT !.rows = Append(@, 0)])
            /\ Goto(o, "read")
  /\ UNCHANGED <<writer, draft, serial>>

(***************************************************************************)
(* read_schema_version takes the first row; a schema newer than the binary *)
(* is refused.  status and --dry-run stop here.                            *)
(***************************************************************************)
ReadVersion(o) ==
  /\ At(o, "read")
  /\ run' = [run EXCEPT
       ![o].pc = IF Version(db) > run[o].newest THEN "failed"
                 ELSE IF run[o].mode = "open" THEN "loop" ELSE "done",
       ![o].at = Version(db)]
  /\ ReadsOnly

--------------------------------------------------------------------------------
(***************************************************************************)
(* The loop over migrations above the version read: in ascending order,    *)
(* each in a transaction of its own.                                       *)
(***************************************************************************)
Pending(o) == {v \in Versions : run[o].at < v /\ v <= run[o].newest}

(***************************************************************************)
(* Mutation of NextVersion: migrations are not sorted.                     *)
(***************************************************************************)
NextVersionUnsorted(o) == Max(Pending(o))

NextVersion(o) == Min(Pending(o))

Opened(o) ==
  /\ At(o, "loop") /\ Pending(o) = {}
  /\ Goto(o, "opened")
  /\ ReadsOnly

(***************************************************************************)
(* Mutation of RunBody: the body commits on its own, the version after it. *)
(***************************************************************************)
RunBodyCommitted(o) ==
  /\ At(o, "loop") /\ Pending(o) # {}
  /\ writer = NoOne
  /\ NextVersion(o) \notin db.schema
  /\ writer' = o
  /\ draft' = [db EXCEPT !.schema = @ \cup {NextVersion(o)}]
  /\ Commit(draft')
  /\ Goto(o, "body")
  /\ UNCHANGED serial

(***************************************************************************)
(* The body's first statement takes the write lock of the deferred         *)
(* transaction.  A body cannot run twice: its CREATEs are unconditional.   *)
(***************************************************************************)
RunBody(o) ==
  /\ At(o, "loop") /\ Pending(o) # {}
  /\ writer = NoOne
  /\ NextVersion(o) \notin db.schema
  /\ writer' = o
  /\ draft' = [db EXCEPT !.schema = @ \cup {NextVersion(o)}]
  /\ Goto(o, "body")
  /\ UNCHANGED <<db, recent, serial>>

BodyAlreadyThere(o) ==
  /\ At(o, "loop") /\ Pending(o) # {}
  /\ writer = NoOne
  /\ NextVersion(o) \in db.schema
  /\ Goto(o, "failed")
  /\ ReadsOnly

UpdateVersion(o) ==
  /\ At(o, "body")
  /\ draft' = [draft EXCEPT !.rows = [i \in DOMAIN @ |-> NextVersion(o)]]
  /\ Goto(o, "booked")
  /\ UNCHANGED <<db, recent, writer, serial>>

CommitMigration(o) ==
  /\ At(o, "booked")
  /\ Commit(draft)
  /\ writer' = NoOne
  /\ run' = [run EXCEPT ![o].pc = "loop", ![o].at = NextVersion(o)]
  /\ UNCHANGED <<draft, serial>>

--------------------------------------------------------------------------------
(***************************************************************************)
(* The write lock is held by another connection for longer than            *)
(* busy_timeout.                                                           *)
(***************************************************************************)
NeedsLock(o) ==
  \/ At(o, "create") /\ ~db.meta /\ ~ReadOnly(o)
  \/ At(o, "seed") /\ ~ReadOnly(o)
  \/ At(o, "loop") /\ Pending(o) # {}

BusyTimeout(o) ==
  /\ NeedsLock(o)
  /\ writer # NoOne
  /\ Goto(o, "failed")
  /\ ReadsOnly

(***************************************************************************)
(* A statement fails (disk full, malformed SQL, unreadable directory): an  *)
(* open transaction is dropped and thereby rolled back.                    *)
(***************************************************************************)
Released(o) == IF writer = o THEN NoOne ELSE writer

(***************************************************************************)
(* Mutation of StatementFails: the transaction is left open.               *)
(***************************************************************************)
StatementFailsOpen(o) ==
  /\ "io" \in Faults
  /\ run[o].pc \notin {"idle", "failed", "done", "opened"}
  /\ Goto(o, "failed")
  /\ UNCHANGED <<db, recent, writer, draft, serial>>

StatementFails(o) ==
  /\ "io" \in Faults
  /\ run[o].pc \notin {"idle", "failed", "done", "opened"}
  /\ Goto(o, "failed")
  /\ writer' = Released(o)
  /\ UNCHANGED <<db, recent, draft, serial>>

(***************************************************************************)
(* The process ends: at leisure, or by a crash in mid-run.                 *)
(***************************************************************************)
Exit(o) ==
  /\ \/ run[o].pc \in {"failed", "done", "opened"}
     \/ "crash" \in Faults /\ ~At(o, "idle")
  /\ run' = [run EXCEPT ![o] = IdleRun(run[o].starts)]
  /\ writer' = Released(o)
  /\ UNCHANGED <<db, recent, draft, serial>>

Checkpoint ==
  /\ writer = NoOne
  /\ recent' = {db}
  /\ UNCHANGED <<db, writer, draft, run, serial>>

PowerLoss ==
  /\ "power" \in Faults
  /\ db' \in recent
  /\ recent' = {db'}
  /\ writer' = NoOne
  /\ run' = [o \in Openers |-> IdleRun(run[o].starts)]
  /\ UNCHANGED <<draft, serial>>

RunnerStep(o) ==
  \/ CreateMeta(o) \/ CountRows(o) \/ SeedRow(o) \/ ReadVersion(o)
  \/ Opened(o) \/ RunBody(o) \/ BodyAlreadyThere(o) \/ UpdateVersion(o)
  \/ CommitMigration(o)
  \/ BusyTimeout(o)

Next ==
  \/ \E o \in Openers :
       \/ \E mode \in Modes, newest \in Releases : Start(o, mode, newest)
       \/ RunnerStep(o)
       \/ StatementFails(o)
       \/ Exit(o)
  \/ Checkpoint
  \/ PowerLoss

(***************************************************************************)
(* A run is one blocking closure on the connection's own thread: it keeps  *)
(* going until it returns.                                                 *)
(***************************************************************************)
Spec == Init /\ [][Next]_vars /\ \A o \in Openers : WF_vars(RunnerStep(o))

--------------------------------------------------------------------------------
Databases ==
  [meta : BOOLEAN, rows : Seq(Versions \cup {0}), schema : SUBSET Versions]

RunPCs ==
  Preparing \cup {"idle", "read", "loop", "body", "booked", "failed", "done",
                  "opened"}

RunRecords ==
  [pc : RunPCs, mode : Modes, newest : Nat, at : Nat, starts : 0 .. MaxStarts]

(***************************************************************************)
(* Type invariant; a runner inside its transaction is the writer and has a *)
(* migration to apply.                                                     *)
(***************************************************************************)
TypeOK ==
  /\ db \in Databases
  /\ db \in recent /\ \A d \in recent : d \in Databases
  /\ writer \in Openers \cup {NoOne}
  /\ draft \in Databases
  /\ run \in [Openers -> RunRecords]
  /\ serial \in BOOLEAN
  /\ \A o \in Openers : run[o].pc \in {"body", "booked"} <=> writer = o
  /\ \A o \in Openers : writer = o => Pending(o) # {}

(***************************************************************************)
(* "a crash between SQL execution and version bookkeeping is impossible"   *)
(* (migration.rs:47-51) and a failure leaves "exactly the version it       *)
(* occupied" (:52-56): in every state another process or a restart after a *)
(* loss of power can find, the schema holds the migrations up to           *)
(* schema_version and no other, however many runners race.                 *)
(***************************************************************************)
VersionTellsSchema ==
  \A d \in recent \cup {db} : d.schema = {v \in Versions : v <= Version(d)}

(***************************************************************************)
(* "safe to hand to repository impls -- the schema is at the latest        *)
(* version" (db.rs:89-91): an open that returned has found or made every   *)
(* migration its binary knows, and only status and --dry-run may see less. *)
(***************************************************************************)
OpenedIsMigrated ==
  \A o \in Openers :
    At(o, "opened") => {v \in Versions : v <= run[o].newest} \subseteq db.schema

(***************************************************************************)
(* "downgrade not supported" (:43-46): nothing ever moves the schema       *)
(* backwards, short of a loss of power that takes every process with it.   *)
(***************************************************************************)
NeverBackwards ==
  [][ /\ db.schema \subseteq db'.schema
      /\ Version(db) <= Version(db')
      \/ \A o \in Openers : run'[o].pc = "idle" ]_vars

(***************************************************************************)
(* _meta carries at most one row (:41-42) as long as no two runners were   *)
(* preparing it at the same time.  When two were, see the run              *)
(* MigrationTwoRows.                                                       *)
(***************************************************************************)
SerialMetaHasOneRow ==
  serial => \A d \in recent \cup {db} : Len(d.rows) <= 1

(***************************************************************************)
(* An open ends, one way or another: it never waits for ever for a lock,   *)
(* whoever dies holding it.                                                *)
(***************************************************************************)
Ended(o) == run[o].pc \in {"idle", "failed", "done", "opened"}

RunsEnd == \A o \in Openers : []<>Ended(o)

(***************************************************************************)
(* "Ensure the _meta table exists and carries exactly one row" (:41-42).   *)
(***************************************************************************)
MetaHasOneRow ==
  \A o \in Openers : run[o].pc \in {"loop", "body", "booked", "opened"}
                       => Len(db.rows) = 1

================================================================================
