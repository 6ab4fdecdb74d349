---------------------------- MODULE Migration_proofs ----------------------------
(***************************************************************************)
(* Proofs about Migration for every set of openers, migrations, releases   *)
(* and faults, and every bound on restarts.                                *)
(***************************************************************************)
EXTENDS Migration, SequenceTheorems, NaturalsInduction, WellFoundedInduction, TLAPS

(***************************************************************************)
(* The next migration is the least one pending.                            *)
(***************************************************************************)
LEMMA LeastElement ==
  ASSUME NEW S \in SUBSET Nat, S # {}
  PROVE  Min(S) \in S /\ \A y \in S : Min(S) <= y
<1>1. PICK x \in S : \A y \in S : ~(<<y, x>> \in OpToRel(<, Nat))
  BY NatLessThanWellFounded, WFMin
<1>2. \A y \in S : <<y, x>> \in Nat \X Nat
  BY Zenon
<1>3. \A y \in S : ~(y < x)
  BY <1>1, <1>2 DEF OpToRel
<1>4. \A y \in S : x <= y
  BY <1>3
<1> QED  BY <1>4, Zenon DEF Min

(***************************************************************************)
(* The inductive invariant.  Read(o): o has read its version, so there is  *)
(* a row to update and the schema is at least as far as o believes.  A     *)
(* draft is one migration ahead of the committed database.                 *)
(***************************************************************************)
Reading(o) == run[o].pc \in {"read", "loop", "body", "booked", "opened"}
Looping(o) == run[o].pc \in {"loop", "body", "booked", "opened"}

Exact(d) == d.schema = {v \in Versions : v <= Version(d)}

DraftBody(o) ==
  /\ Pending(o) # {}
  /\ draft.rows = db.rows
  /\ draft.meta = db.meta
  /\ draft.schema = {v \in Versions : v <= NextVersion(o)}
  /\ Version(db) <= NextVersion(o)

DraftBooked(o) ==
  /\ Pending(o) # {}
  /\ draft.rows # <<>>
  /\ Len(draft.rows) = Len(db.rows)
  /\ Version(draft) = NextVersion(o)
  /\ Exact(draft)
  /\ Version(db) <= NextVersion(o)

RunOK(o) ==
  /\ Reading(o) => db.rows # <<>>
  /\ Looping(o) => run[o].at <= Version(db)
  /\ At(o, "body") => DraftBody(o)
  /\ At(o, "booked") => DraftBooked(o)
  /\ At(o, "opened") => Pending(o) = {}

IInv ==
  /\ TypeOK
  /\ VersionTellsSchema
  /\ \A o \in Openers : RunOK(o)

LEMMA VersionNat == ASSUME NEW d \in Databases PROVE Version(d) \in Nat
<1>1. d.rows \in Seq(Versions \cup {0}) /\ Versions \cup {0} \subseteq Nat
  BY VersionAssumption DEF Databases
<1>2. d.rows # <<>> => d.rows[1] \in Versions \cup {0}
  BY <1>1
<1> QED  BY <1>1, <1>2 DEF Version

LEMMA UpdatedRows ==
  ASSUME NEW d \in Databases, NEW v \in Versions \cup {0}
  PROVE  LET u == [d EXCEPT !.rows = [i \in DOMAIN @ |-> v]]
         IN  /\ u \in Databases
             /\ Len(u.rows) = Len(d.rows)
             /\ d.rows # <<>> => u.rows # <<>> /\ Version(u) = v
<1> DEFINE r == [i \in DOMAIN d.rows |-> v]
<1>1. /\ d.rows \in Seq(Versions \cup {0})
      /\ DOMAIN d.rows = 1 .. Len(d.rows) /\ Len(d.rows) \in Nat
  BY DEF Databases
<1>2. r \in Seq(Versions \cup {0}) /\ Len(r) = Len(d.rows)
  BY <1>1
<1>3. d.rows # <<>> => r # <<>> /\ r[1] = v
  <2>1. d.rows # <<>> => Len(d.rows) > 0
    BY <1>1
  <2> QED  BY <1>1, <1>2, <2>1
<1>4. [d EXCEPT !.rows = [i \in DOMAIN @ |-> v]]
        = [meta |-> d.meta, rows |-> r, schema |-> d.schema]
  BY DEF Databases
<1>5. d.meta \in BOOLEAN /\ d.schema \in SUBSET Versions
  BY DEF Databases
<1> DEFINE u == [meta |-> d.meta, rows |-> r, schema |-> d.schema]
<1> HIDE DEF r
<1>6. u \in Databases
  BY <1>2, <1>5 DEF Databases
<1>7. Len(u.rows) = Len(d.rows)
  BY <1>2
<1>8. d.rows # <<>> => u.rows # <<>> /\ Version(u) = v
  BY <1>3 DEF Version
<1> QED  BY <1>4, <1>6, <1>7, <1>8

LEMMA SeededRows ==
  ASSUME NEW d \in Databases
  PROVE  LET u == [d EXCEPT !.rows = Append(@, 0)]
         IN  /\ u \in Databases
             /\ u.rows # <<>>
             /\ Len(u.rows) = Len(d.rows) + 1
             /\ Version(u) = Version(d)
             /\ u.schema = d.schema
<1> DEFINE r == Append(d.rows, 0)
           u == [meta |-> d.meta, rows |-> r, schema |-> d.schema]
<1>1. d.rows \in Seq(Versions \cup {0}) /\ 0 \in Versions \cup {0}
  BY DEF Databases
<1>2. r \in Seq(Versions \cup {0}) /\ Len(r) = Len(d.rows) + 1
  BY <1>1
<1>3. r # <<>> /\ r[1] = IF d.rows = <<>> THEN 0 ELSE d.rows[1]
  <2>1. r # <<>>
    BY <1>1
  <2>2. CASE d.rows = <<>>
    <3>1. Len(d.rows) = 0
      BY <2>2
    <3>2. r[Len(d.rows) + 1] = 0
      BY <1>1, AppendProperties
    <3> QED  BY <2>1, <2>2, <3>1, <3>2
  <2>3. CASE d.rows # <<>>
    <3>1. 1 \in 1 .. Len(d.rows)
      BY <1>1, <2>3
    <3>2. r[1] = d.rows[1]
      BY <1>1, <3>1, AppendProperties
    <3> QED  BY <2>1, <2>3, <3>2
  <2> QED  BY <2>2, <2>3
<1>4. [d EXCEPT !.rows = Append(@, 0)] = u
  BY SMTT(30) DEF Databases
<1>5. d.meta \in BOOLEAN /\ d.schema \in SUBSET Versions
  BY DEF Databases
<1> HIDE DEF r
<1>6. u \in Databases
  BY <1>2, <1>5 DEF Databases
<1>7. u.rows # <<>> /\ Len(u.rows) = Len(d.rows) + 1 /\ u.schema = d.schema
  BY <1>2, <1>3
<1>8. Version(u) = Version(d)
  BY <1>3 DEF Version
<1> QED  BY <1>4, <1>6, <1>7, <1>8

LEMMA NextVersionPending ==
  ASSUME NEW o \in Openers, Pending(o) # {}
  PROVE  /\ NextVersion(o) \in Versions
         /\ NextVersion(o) \in Nat
         /\ run[o].at < NextVersion(o)
         /\ NextVersion(o) <= run[o].newest
         /\ \A v \in Pending(o) : NextVersion(o) <= v
<1>1. Pending(o) \in SUBSET Nat
  BY VersionAssumption DEF Pending
<1>2. /\ NextVersion(o) \in Pending(o)
      /\ \A v \in Pending(o) : NextVersion(o) <= v
  BY <1>1, LeastElement DEF NextVersion
<1> QED  BY <1>1, <1>2 DEF Pending

(***************************************************************************)
(* Type correctness.  A step of a runner replaces its own record and takes *)
(* or releases the write lock accordingly.                                 *)
(***************************************************************************)
InTransaction == {"body", "booked"}
PendingOf(r) == {v \in Versions : r.at < v /\ v <= r.newest}

Replaces(o, r) == run' = [run EXCEPT ![o] = r]
LockFollows(o, r) ==
  \/ /\ r.pc \in InTransaction /\ PendingOf(r) # {}
     /\ writer \in {o, NoOne} /\ writer' = o
  \/ r.pc \notin InTransaction /\ writer' = IF writer = o THEN NoOne ELSE writer

RunsOK ==
  /\ writer \in Openers \cup {NoOne}
  /\ run \in [Openers -> RunRecords]
  /\ \A o \in Openers : run[o].pc \in InTransaction <=> writer = o
  /\ \A o \in Openers : writer = o => PendingOf(run[o]) # {}

DataOK ==
  /\ db \in Databases
  /\ db \in recent
  /\ \A d \in recent : d \in Databases
  /\ draft \in Databases
  /\ serial \in BOOLEAN

LEMMA TypeSplits == TypeOK <=> RunsOK /\ DataOK
BY DEF TypeOK, RunsOK, DataOK, InTransaction, Pending, PendingOf

LEMMA RunsStep ==
  ASSUME RunsOK, NEW o \in Openers, NEW r \in RunRecords,
         Replaces(o, r), LockFollows(o, r)
  PROVE  RunsOK'
<1>1. /\ run' \in [Openers -> RunRecords]
      /\ run'[o] = r
      /\ \A p \in Openers \ {o} : run'[p] = run[p]
  BY DEF Replaces, RunsOK
<1>2. writer' \in Openers \cup {NoOne}
  BY DEF LockFollows, RunsOK
<1>3. \A p \in Openers : p # NoOne
  BY OpenerAssumption
<1>4. ASSUME NEW p \in Openers
      PROVE  /\ run'[p].pc \in InTransaction <=> writer' = p
             /\ writer' = p => PendingOf(run'[p]) # {}
  <2>1. CASE p = o
    BY <2>1, <1>1, <1>3 DEF LockFollows
  <2>2. CASE p # o
    BY <2>2, <1>1, <1>3 DEF LockFollows, RunsOK
  <2> QED  BY <2>1, <2>2
<1>5. \A p \in Openers : (PendingOf(run[p]))' = PendingOf(run'[p])
  BY DEF PendingOf
<1> QED  BY <1>1, <1>2, <1>4, <1>5 DEF RunsOK

(***************************************************************************)
(* A runner that only moves its program counter, or notes a version too.   *)
(***************************************************************************)
LEMMA GotoReplaces ==
  ASSUME run \in [Openers -> RunRecords], NEW o \in Openers,
         NEW pc \in RunPCs, Goto(o, pc)
  PROVE  LET r == [run[o] EXCEPT !.pc = pc]
         IN  /\ r \in RunRecords /\ Replaces(o, r) /\ r.pc = pc
             /\ r.at = run[o].at /\ r.newest = run[o].newest
             /\ PendingOf(r) = Pending(o)
BY DEF Goto, Replaces, RunRecords, PendingOf, Pending, RunPCs

LEMMA IdleReplaces ==
  ASSUME run \in [Openers -> RunRecords], NEW o \in Openers
  PROVE  LET r == IdleRun(run[o].starts)
         IN  r \in RunRecords /\ r.pc = "idle"
BY DEF IdleRun, RunRecords, RunPCs, Modes

LEMMA TypeInit == Init => TypeOK
<1> SUFFICES ASSUME Init PROVE RunsOK /\ DataOK
  BY TypeSplits
<1>1. IdleRun(0) \in RunRecords /\ IdleRun(0).pc = "idle"
  BY FaultAssumption DEF IdleRun, RunRecords, RunPCs, Modes
<1>2. RunsOK
  BY <1>1, OpenerAssumption DEF Init, RunsOK, InTransaction
<1>3. DataOK
  BY DEF Init, DataOK, EmptyDb, Databases
<1> QED  BY <1>2, <1>3

LEMMA StepInTransaction ==
  ASSUME TypeOK, NEW o \in Openers, run[o].pc \in InTransaction
  PROVE  writer = o /\ Pending(o) # {}
BY DEF TypeOK, InTransaction

LEMMA TypeStep == ASSUME TypeOK, [Next]_vars PROVE TypeOK'
<1>0. RunsOK /\ DataOK
  BY TypeSplits
<1> SUFFICES RunsOK' /\ DataOK'
  BY TypeSplits, PTL
<1> USE DEF At
<1>r. run \in [Openers -> RunRecords]
  BY <1>0 DEF RunsOK
<1>w. \A o \in Openers : run[o].pc \notin InTransaction => writer # o
  BY <1>0 DEF RunsOK
<1>1. CASE UNCHANGED vars
  BY <1>0, <1>1 DEF vars, RunsOK, DataOK, PendingOf
<1>2. ASSUME NEW o \in Openers, NEW mode \in Modes, NEW newest \in Releases,
             Start(o, mode, newest)
      PROVE  RunsOK' /\ DataOK'
  <2> DEFINE r == [pc |-> "create", mode |-> mode, newest |-> newest, at |-> 0,
                   starts |-> run[o].starts + 1]
  <2>1. run[o].starts + 1 \in 0 .. MaxStarts
    BY <1>2, <1>r, FaultAssumption DEF Start, RunRecords
  <2>2. r \in RunRecords
    BY <2>1, VersionAssumption DEF RunRecords, RunPCs, Preparing
  <2>3. Replaces(o, r) /\ UNCHANGED writer
    BY <1>2 DEF Start, Replaces
  <2>4. LockFollows(o, r)
    BY <2>3, <1>w, <1>2 DEF LockFollows, InTransaction, Start
  <2>5. RunsOK'
    BY <1>0, <2>2, <2>3, <2>4, RunsStep
  <2>6. DataOK'
    BY <1>0, <1>2 DEF Start, DataOK
  <2> QED  BY <2>5, <2>6
<1>3. ASSUME NEW o \in Openers, NEW pc \in RunPCs, Goto(o, pc),
             pc \notin InTransaction,
             writer' = IF writer = o THEN NoOne ELSE writer
      PROVE  RunsOK'
  <2> DEFINE r == [run[o] EXCEPT !.pc = pc]
  <2>1. r \in RunRecords /\ Replaces(o, r) /\ r.pc = pc
    BY <1>r, <1>3, GotoReplaces
  <2>2. LockFollows(o, r)
    BY <2>1, <1>3 DEF LockFollows
  <2> QED  BY <1>0, <2>1, <2>2, RunsStep
<1>4. ASSUME NEW o \in Openers, NEW pc \in RunPCs, Goto(o, pc),
             run[o].pc \notin InTransaction, pc \notin InTransaction,
             UNCHANGED writer
      PROVE  RunsOK'
  BY <1>3, <1>4, <1>w
<1>a. ASSUME NEW o \in Openers, NEW pc \in RunPCs, NEW v \in Nat,
             run' = [run EXCEPT ![o].pc = pc, ![o].at = v],
             pc \notin InTransaction,
             writer' = IF writer = o THEN NoOne ELSE writer
      PROVE  RunsOK'
  <2> DEFINE r == [run[o] EXCEPT !.pc = pc, !.at = v]
  <2>1. /\ r \in RunRecords /\ r.pc = pc
        /\ [run EXCEPT ![o].pc = pc, ![o].at = v] = [run EXCEPT ![o] = r]
    BY <1>r DEF RunRecords, RunPCs
  <2>2. Replaces(o, r)
    BY <1>a, <2>1 DEF Replaces
  <2>3. LockFollows(o, r)
    BY <2>1, <1>a DEF LockFollows
  <2> QED  BY <1>0, <2>1, <2>2, <2>3, RunsStep
<1>5. ASSUME NEW o \in Openers, CreateMeta(o) PROVE RunsOK' /\ DataOK'
  <2>a. /\ run[o].pc = "create" /\ UNCHANGED writer
        /\ Goto(o, "count") \/ Goto(o, "failed")
    BY <1>5 DEF CreateMeta
  <2>b. PICK pc \in {"count", "failed"} : Goto(o, pc)
    BY <2>a
  <2>c. pc \in RunPCs /\ pc \notin InTransaction /\ run[o].pc \notin InTransaction
    BY <2>a DEF RunPCs, Preparing, InTransaction
  <2>1. RunsOK'
    BY <1>4, <2>a, <2>b, <2>c
  <2> DEFINE d == [db EXCEPT !.meta = TRUE]
  <2>2. d \in Databases
    BY <1>0 DEF DataOK, Databases
  <2>3. UNCHANGED <<db, recent>> \/ Commit(d)
    BY <1>5 DEF CreateMeta
  <2> HIDE DEF d
  <2>4. DataOK'
    BY <1>0, <1>5, <2>2, <2>3 DEF CreateMeta, Commit, DataOK
  <2> QED  BY <2>1, <2>4
<1>6. ASSUME NEW o \in Openers, CountRows(o) PROVE RunsOK' /\ DataOK'
  <2> DEFINE pc == CASE Len(db.rows) = 0 -> "seed"
                     [] Len(db.rows) = 1 -> "read"
                     [] OTHER -> "failed"
  <2>1. pc \in {"seed", "read", "failed"}
    OBVIOUS
  <2>2. Goto(o, pc) /\ UNCHANGED writer
    BY <1>6 DEF CountRows, ReadsOnly
  <2> HIDE DEF pc
  <2>3. RunsOK'
    BY <1>4, <1>6, <2>1, <2>2 DEF CountRows, RunPCs, Preparing, InTransaction
  <2>4. DataOK'
    BY <1>0, <1>6 DEF CountRows, ReadsOnly, DataOK
  <2> QED  BY <2>3, <2>4
<1>7. ASSUME NEW o \in Openers, SeedRow(o) PROVE RunsOK' /\ DataOK'
  <2>a. /\ run[o].pc = "seed" /\ UNCHANGED writer
        /\ Goto(o, "read") \/ Goto(o, "failed")
    BY <1>7 DEF SeedRow
  <2>b. PICK pc \in {"read", "failed"} : Goto(o, pc)
    BY <2>a
  <2>c. pc \in RunPCs /\ pc \notin InTransaction /\ run[o].pc \notin InTransaction
    BY <2>a DEF RunPCs, Preparing, InTransaction
  <2>1. RunsOK'
    BY <1>4, <2>a, <2>b, <2>c
  <2> DEFINE d == [db EXCEPT !.rows = Append(@, 0)]
  <2>2. d \in Databases
    BY <1>0, SeededRows DEF DataOK
  <2>3. UNCHANGED <<db, recent>> \/ Commit(d)
    <3>1. CASE ReadOnly(o)
      BY <1>7, <3>1, Zenon DEF SeedRow
    <3>2. CASE ~ReadOnly(o)
      BY <1>7, <3>2, SMT DEF SeedRow, Commit
    <3> QED  BY <3>1, <3>2
  <2> HIDE DEF d
  <2>4. DataOK'
    BY <1>0, <1>7, <2>2, <2>3 DEF SeedRow, Commit, DataOK
  <2> QED  BY <2>1, <2>4
<1>8. ASSUME NEW o \in Openers, ReadVersion(o) PROVE RunsOK' /\ DataOK'
  <2>1. Version(db) \in Nat
    BY <1>0, VersionNat DEF DataOK
  <2>2. PICK pc \in {"failed", "loop", "done"} :
          run' = [run EXCEPT ![o].pc = pc, ![o].at = Version(db)]
    BY <1>8 DEF ReadVersion
  <2>3. PICK v \in Nat : v = Version(db)
    BY <2>1
  <2>4. pc \in RunPCs /\ pc \notin InTransaction
    BY DEF RunPCs, InTransaction
  <2>5. writer' = IF writer = o THEN NoOne ELSE writer
    BY <1>8, <1>w DEF ReadVersion, ReadsOnly, InTransaction
  <2>6. RunsOK'
    BY <2>2, <2>3, <2>4, <2>5, <1>a
  <2>7. DataOK'
    BY <1>0, <1>8 DEF ReadVersion, ReadsOnly, DataOK
  <2> QED  BY <2>6, <2>7
<1>9. ASSUME NEW o \in Openers, Opened(o) \/ BodyAlreadyThere(o) \/ BusyTimeout(o)
      PROVE  RunsOK' /\ DataOK'
  <2>1. RunsOK'
    BY <1>4, <1>9 DEF Opened, BodyAlreadyThere, BusyTimeout, NeedsLock, ReadsOnly,
       RunPCs, Preparing, InTransaction
  <2>2. DataOK'
    BY <1>0, <1>9 DEF Opened, BodyAlreadyThere, BusyTimeout, ReadsOnly, DataOK
  <2> QED  BY <2>1, <2>2
<1>10. ASSUME NEW o \in Openers, RunBody(o) PROVE RunsOK' /\ DataOK'
  <2> DEFINE r == [run[o] EXCEPT !.pc = "body"]
  <2>1. /\ r \in RunRecords /\ Replaces(o, r) /\ r.pc = "body"
        /\ PendingOf(r) = Pending(o)
    BY <1>10, <1>r, GotoReplaces DEF RunBody, RunPCs
  <2>2. LockFollows(o, r)
    BY <1>10, <2>1 DEF LockFollows, RunBody, InTransaction
  <2>3. RunsOK'
    BY <1>0, <2>1, <2>2, RunsStep
  <2>4. NextVersion(o) \in Versions
    BY <1>10, NextVersionPending DEF RunBody
  <2>5. [db EXCEPT !.schema = @ \cup {NextVersion(o)}] \in Databases
    BY <1>0, <2>4 DEF DataOK, Databases
  <2>6. DataOK'
    BY <1>0, <1>10, <2>5 DEF RunBody, DataOK
  <2> QED  BY <2>3, <2>6
<1>11. ASSUME NEW o \in Openers, UpdateVersion(o) PROVE RunsOK' /\ DataOK'
  <2> DEFINE r == [run[o] EXCEPT !.pc = "booked"]
  <2>1. /\ r \in RunRecords /\ Replaces(o, r) /\ r.pc = "booked"
        /\ PendingOf(r) = Pending(o)
    BY <1>11, <1>r, GotoReplaces DEF UpdateVersion, RunPCs
  <2>2. writer = o /\ Pending(o) # {}
    BY <1>11, StepInTransaction DEF UpdateVersion, InTransaction
  <2>3. LockFollows(o, r)
    BY <1>11, <2>1, <2>2 DEF LockFollows, UpdateVersion, InTransaction
  <2>4. RunsOK'
    BY <1>0, <2>1, <2>3, RunsStep
  <2>5. NextVersion(o) \in Versions
    BY <2>2, NextVersionPending
  <2>6. draft' \in Databases
    BY <1>0, <1>11, <2>5, UpdatedRows DEF UpdateVersion, DataOK
  <2>7. DataOK'
    BY <1>0, <1>11, <2>6 DEF UpdateVersion, DataOK
  <2> QED  BY <2>4, <2>7
<1>12. ASSUME NEW o \in Openers, CommitMigration(o) PROVE RunsOK' /\ DataOK'
  <2>1. writer = o /\ Pending(o) # {}
    BY <1>12, StepInTransaction DEF CommitMigration, InTransaction
  <2>2. PICK v \in Nat : v = NextVersion(o)
    BY <2>1, NextVersionPending
  <2>3. PICK pc \in {"loop"} :
          run' = [run EXCEPT ![o].pc = pc, ![o].at = v]
    BY <1>12, <2>2 DEF CommitMigration
  <2>4. pc \in RunPCs /\ pc \notin InTransaction
    BY DEF RunPCs, InTransaction
  <2>5. RunsOK'
    BY <1>12, <1>a, <2>1, <2>3, <2>4 DEF CommitMigration
  <2>6. DataOK'
    BY <1>0, <1>12 DEF CommitMigration, Commit, DataOK
  <2> QED  BY <2>5, <2>6
<1>13. ASSUME NEW o \in Openers, StatementFails(o) PROVE RunsOK' /\ DataOK'
  <2>1. RunsOK'
    BY <1>3, <1>13 DEF StatementFails, Released, RunPCs, InTransaction
  <2>2. DataOK'
    BY <1>0, <1>13 DEF StatementFails, DataOK
  <2> QED  BY <2>1, <2>2
<1>14. ASSUME NEW o \in Openers, Exit(o) PROVE RunsOK' /\ DataOK'
  <2> DEFINE r == IdleRun(run[o].starts)
  <2>1. r \in RunRecords /\ r.pc = "idle"
    BY <1>r, IdleReplaces
  <2>2. Replaces(o, r)
    BY <1>14 DEF Exit, Replaces
  <2>3. LockFollows(o, r)
    BY <1>14, <2>1 DEF LockFollows, Exit, Released, InTransaction
  <2>4. RunsOK'
    BY <1>0, <2>1, <2>2, <2>3, RunsStep
  <2>5. DataOK'
    BY <1>0, <1>14 DEF Exit, DataOK
  <2> QED  BY <2>4, <2>5
<1>15. CASE Checkpoint
  BY <1>0, <1>15 DEF Checkpoint, RunsOK, DataOK, PendingOf
<1>16. CASE PowerLoss
  <2>1. \A o \in Openers : /\ IdleRun(run[o].starts) \in RunRecords
                           /\ IdleRun(run[o].starts).pc = "idle"
    BY <1>r, IdleReplaces
  <2>2. \A o \in Openers : o # NoOne
    BY OpenerAssumption
  <2>3. RunsOK'
    BY <1>16, <2>1, <2>2 DEF PowerLoss, RunsOK, InTransaction
  <2>4. DataOK'
    BY <1>0, <1>16 DEF PowerLoss, DataOK
  <2> QED  BY <2>3, <2>4
<1> QED
  BY <1>1, <1>2, <1>5, <1>6, <1>7, <1>8, <1>9, <1>10, <1>11, <1>12, <1>13,
     <1>14, <1>15, <1>16 DEF Next, RunnerStep

(***************************************************************************)
(* Every process sees a well-typed database.                               *)
(***************************************************************************)
THEOREM TypeCorrect == Spec => []TypeOK
<1>1. Init => TypeOK
  BY TypeInit
<1>2. TypeOK /\ [Next]_vars => TypeOK'
  BY TypeStep
<1> QED  BY <1>1, <1>2, PTL DEF Spec

--------------------------------------------------------------------------------
(***************************************************************************)
(* Exactness.  First the database: every commit keeps the schema in step   *)
(* with the version, and only a loss of power takes either back.           *)
(***************************************************************************)
Grows ==
  /\ Version(db) <= Version(db')
  /\ db.rows # <<>> => db'.rows # <<>>

LEMMA CommitExact ==
  ASSUME VersionTellsSchema, NEW d, Exact(d), Commit(d)
  PROVE  VersionTellsSchema'
BY DEF VersionTellsSchema, Exact, Commit, Version

LEMMA SameExact ==
  ASSUME IInv, UNCHANGED db, recent' \subseteq recent \cup {db}
  PROVE  VersionTellsSchema' /\ Grows
<1>1. Version(db) \in Nat
  BY VersionNat DEF IInv, TypeOK
<1> QED  BY <1>1 DEF IInv, VersionTellsSchema, Grows, Version

LEMMA DbStep ==
  ASSUME IInv, [Next]_vars
  PROVE  VersionTellsSchema' /\ (Grows \/ PowerLoss)
<1>0. /\ TypeOK /\ VersionTellsSchema /\ db \in Databases /\ Exact(db)
      /\ Version(db) \in Nat
  BY VersionNat DEF IInv, TypeOK, VersionTellsSchema, Exact
<1>1. ASSUME UNCHANGED <<db, recent>> PROVE VersionTellsSchema' /\ Grows
  BY <1>1, SameExact
<1>2. ASSUME NEW o \in Openers, CreateMeta(o) PROVE VersionTellsSchema' /\ Grows
  <2> DEFINE d == [db EXCEPT !.meta = TRUE]
  <2>1. UNCHANGED <<db, recent>> \/ Commit(d)
    BY <1>2 DEF CreateMeta
  <2>2. d.rows = db.rows /\ d.schema = db.schema
    BY <1>0 DEF Databases
  <2> HIDE DEF d
  <2>3. Exact(d) /\ Version(d) = Version(db)
    BY <1>0, <2>2 DEF Exact, Version
  <2>4. CASE Commit(d)
    BY <1>0, <2>2, <2>3, <2>4, CommitExact DEF Commit, Grows
  <2> QED  BY <2>1, <2>4, <1>1
<1>3. ASSUME NEW o \in Openers, SeedRow(o) PROVE VersionTellsSchema' /\ Grows
  <2> DEFINE d == [db EXCEPT !.rows = Append(@, 0)]
  <2>1. UNCHANGED <<db, recent>> \/ Commit(d)
    <3>1. CASE ReadOnly(o)
      BY <1>3, <3>1, Zenon DEF SeedRow
    <3>2. CASE ~ReadOnly(o)
      BY <1>3, <3>2, SMT DEF SeedRow, Commit
    <3> QED  BY <3>1, <3>2
  <2>2. d.rows # <<>> /\ d.schema = db.schema /\ Version(d) = Version(db)
    BY <1>0, SeededRows
  <2> HIDE DEF d
  <2>3. Exact(d)
    BY <1>0, <2>2 DEF Exact
  <2>4. CASE Commit(d)
    BY <1>0, <2>2, <2>3, <2>4, CommitExact DEF Commit, Grows
  <2> QED  BY <2>1, <2>4, <1>1
<1>4. ASSUME NEW o \in Openers, CommitMigration(o)
      PROVE  VersionTellsSchema' /\ Grows
  <2>1. DraftBooked(o)
    BY <1>4 DEF IInv, RunOK, CommitMigration
  <2>2. Commit(draft)
    BY <1>4 DEF CommitMigration
  <2>3. VersionTellsSchema'
    BY <1>0, <2>1, <2>2, CommitExact DEF DraftBooked
  <2> QED  BY <2>1, <2>2, <2>3 DEF DraftBooked, Commit, Grows
<1>5. ASSUME Checkpoint PROVE VersionTellsSchema' /\ Grows
  BY <1>5, SameExact DEF Checkpoint
<1>6. ASSUME PowerLoss PROVE VersionTellsSchema'
  BY <1>0, <1>6 DEF PowerLoss, VersionTellsSchema, Version
<1>7. ASSUME NEW o \in Openers,
             \/ \E mode \in Modes, newest \in Releases : Start(o, mode, newest)
             \/ CountRows(o) \/ ReadVersion(o) \/ Opened(o) \/ RunBody(o)
             \/ BodyAlreadyThere(o) \/ UpdateVersion(o) \/ BusyTimeout(o)
             \/ StatementFails(o) \/ Exit(o)
      PROVE  UNCHANGED <<db, recent>>
  BY <1>7 DEF Start, CountRows, ReadVersion, Opened, RunBody, BodyAlreadyThere,
     UpdateVersion, BusyTimeout, StatementFails, Exit, ReadsOnly
<1>8. CASE UNCHANGED vars
  BY <1>1, <1>8 DEF vars
<1> QED
  BY <1>1, <1>2, <1>3, <1>4, <1>5, <1>6, <1>7, <1>8 DEF Next, RunnerStep

(***************************************************************************)
(* Then the runners: one whose record does not change is undisturbed by    *)
(* the others, for whom the write lock is barred while it has a draft.     *)
(***************************************************************************)
LEMMA OthersRun ==
  ASSUME IInv, TypeOK', NEW p \in Openers, run'[p] = run[p], Grows,
         run[p].pc \in InTransaction => UNCHANGED <<db, draft>>
  PROVE  RunOK(p)'
<1>1. /\ Version(db) \in Nat /\ Version(db') \in Nat /\ run[p].at \in Nat
      /\ RunOK(p)
  BY VersionNat DEF IInv, TypeOK, RunRecords
<1>2. Pending(p)' = Pending(p)
  BY DEF Pending
<1>3. NextVersion(p)' = NextVersion(p)
  BY <1>2 DEF NextVersion
<1>4. (Reading(p) => db.rows # <<>>)'
  BY <1>1 DEF RunOK, Reading, Grows
<1>5. (Looping(p) => run[p].at <= Version(db))'
  BY <1>1 DEF RunOK, Looping, Grows, Version
<1>6. (At(p, "body") => DraftBody(p))'
  BY <1>1, <1>2, <1>3 DEF RunOK, At, DraftBody, InTransaction, Version
<1>7. (At(p, "booked") => DraftBooked(p))'
  BY <1>1, <1>2, <1>3 DEF RunOK, At, DraftBooked, InTransaction, Version, Exact
<1>8. (At(p, "opened") => Pending(p) = {})'
  BY <1>1, <1>2 DEF RunOK, At
<1> QED  BY <1>4, <1>5, <1>6, <1>7, <1>8 DEF RunOK

(***************************************************************************)
(* A runner that is not past its ReadVersion, or no longer working, has    *)
(* nothing to show.                                                        *)
(***************************************************************************)
LEMMA NotReading ==
  ASSUME NEW p \in Openers,
         run'[p].pc \in {"idle", "create", "count", "seed", "failed", "done"}
  PROVE  RunOK(p)'
BY DEF RunOK, Reading, Looping, At

LEMMA BodyDraft ==
  ASSUME IInv, NEW o \in Openers, RunBody(o)
  PROVE  /\ Pending(o) # {}
         /\ db.rows # <<>>
         /\ draft' = [db EXCEPT !.schema = @ \cup {NextVersion(o)}]
         /\ Version(db) <= NextVersion(o)
         /\ db.schema \cup {NextVersion(o)} = {v \in Versions : v <= NextVersion(o)}
<1> DEFINE n == NextVersion(o)
<1>1. /\ Pending(o) # {} /\ run[o].pc = "loop" /\ n \notin db.schema
      /\ draft' = [db EXCEPT !.schema = @ \cup {n}]
  BY DEF RunBody, At
<1>2. /\ n \in Versions /\ n \in Nat /\ run[o].at < n /\ n <= run[o].newest
      /\ \A v \in Pending(o) : n <= v
  BY <1>1, NextVersionPending
<1>3. /\ Version(db) \in Nat /\ run[o].at \in Nat /\ run[o].newest \in Nat
      /\ db.schema = {v \in Versions : v <= Version(db)}
      /\ run[o].at <= Version(db) /\ db.rows # <<>>
  BY <1>1, VersionNat
     DEF IInv, TypeOK, VersionTellsSchema, RunRecords, RunOK, Looping, Reading
<1>4. Version(db) < n
  BY <1>1, <1>2, <1>3
<1>5. \A v \in Versions : v < n => v <= run[o].at
  BY <1>2, <1>3, VersionAssumption DEF Pending
<1>6. Versions \subseteq Nat
  BY VersionAssumption
<1>7. db.schema \cup {n} = {v \in Versions : v <= n}
  <2>1. ASSUME NEW v \in Versions
        PROVE  v <= n <=> v <= Version(db) \/ v = n
    BY <1>2, <1>3, <1>4, <1>5, <1>6
  <2> QED  BY <2>1, <1>2, <1>3
<1> QED  BY <1>1, <1>3, <1>4, <1>7, <1>2

LEMMA RunStep ==
  ASSUME IInv, TypeOK', [Next]_vars
  PROVE  \A p \in Openers : RunOK(p)'
<1>0. /\ TypeOK /\ db \in Databases /\ Version(db) \in Nat
      /\ run \in [Openers -> RunRecords] /\ draft \in Databases
      /\ \A p \in Openers : RunOK(p) /\ p # NoOne
  BY VersionNat, OpenerAssumption DEF IInv, TypeOK
<1>w. \A p \in Openers : run[p].pc \in InTransaction => writer = p
  BY <1>0 DEF TypeOK, InTransaction
<1>1. CASE PowerLoss
  <2>1. \A p \in Openers : run'[p].pc = "idle"
    BY <1>1 DEF PowerLoss, IdleRun
  <2> QED  BY <2>1, NotReading
<1>g. SUFFICES ASSUME Grows PROVE \A p \in Openers : RunOK(p)'
  BY <1>1, DbStep
<1> DEFINE Keeps(p) == /\ run'[p] = run[p]
                       /\ run[p].pc \in InTransaction => UNCHANGED <<db, draft>>
<1>k. ASSUME NEW p \in Openers, Keeps(p) PROVE RunOK(p)'
  BY <1>k, <1>g, OthersRun
<1> DEFINE Mine(o) ==
      /\ \A p \in Openers \ {o} : run'[p] = run[p]
      /\ writer \in {o, NoOne} \/ UNCHANGED <<db, draft>>
<1>m. ASSUME NEW o \in Openers, Mine(o), RunOK(o)'
      PROVE  \A p \in Openers : RunOK(p)'
  BY <1>0, <1>w, <1>m, <1>k
<1> HIDE DEF Keeps
<1>p. ASSUME NEW o \in Openers, NEW pc \in RunPCs, Goto(o, pc)
      PROVE  /\ run'[o].pc = pc
             /\ \A p \in Openers \ {o} : run'[p] = run[p]
  BY <1>0, <1>p DEF Goto, RunRecords
<1>c. {"count", "read", "failed"} \subseteq RunPCs
  BY DEF RunPCs, Preparing
<1>2. ASSUME NEW o \in Openers, NEW mode \in Modes, NEW newest \in Releases,
             Start(o, mode, newest)
      PROVE  \A p \in Openers : RunOK(p)'
  <2>1. Mine(o) /\ run'[o].pc = "create"
    BY <1>0, <1>2 DEF Start
  <2> QED  BY <2>1, <1>m, NotReading
<1>3. ASSUME NEW o \in Openers, CreateMeta(o)
      PROVE  \A p \in Openers : RunOK(p)'
  <2>a. /\ Goto(o, "count") \/ Goto(o, "failed")
        /\ UNCHANGED db \/ writer = NoOne
        /\ UNCHANGED draft
    BY <1>3 DEF CreateMeta
  <2>1. Mine(o) /\ run'[o].pc \in {"count", "failed"}
    BY <2>a, <1>p, <1>c
  <2> QED  BY <2>1, <1>m, NotReading
<1>4. ASSUME NEW o \in Openers, CountRows(o)
      PROVE  \A p \in Openers : RunOK(p)'
  <2> DEFINE pc == CASE Len(db.rows) = 0 -> "seed"
                     [] Len(db.rows) = 1 -> "read"
                     [] OTHER -> "failed"
  <2>1. Mine(o) /\ run'[o].pc = pc
    BY <1>0, <1>4 DEF CountRows, Goto, ReadsOnly
  <2>2. pc \in {"seed", "read", "failed"} /\ (pc = "read" => Len(db.rows) = 1)
    OBVIOUS
  <2>3. pc = "read" => db'.rows # <<>>
    BY <1>4, <2>2 DEF CountRows, ReadsOnly
  <2> HIDE DEF pc
  <2>4. RunOK(o)'
    BY <2>1, <2>2, <2>3, NotReading DEF RunOK, Looping, At
  <2> QED  BY <2>1, <2>4, <1>m
<1>5. ASSUME NEW o \in Openers, SeedRow(o)
      PROVE  \A p \in Openers : RunOK(p)'
  <2> DEFINE d == [db EXCEPT !.rows = Append(@, 0)]
  <2>a. /\ \/ Goto(o, "failed") /\ UNCHANGED db
           \/ Goto(o, "read") /\ writer = NoOne /\ db' = d
        /\ UNCHANGED draft
    <3>1. CASE ReadOnly(o)
      BY <1>5, <3>1, Zenon DEF SeedRow
    <3>2. CASE ~ReadOnly(o)
      BY <1>5, <3>2, SMT DEF SeedRow, Commit
    <3> QED  BY <3>1, <3>2
  <2> HIDE DEF d
  <2>1. Mine(o) /\ run'[o].pc \in {"read", "failed"}
    BY <2>a, <1>p, <1>c
  <2>2. run'[o].pc = "read" => db' = d
    BY <2>a, <1>p, <1>c
  <2> USE DEF d
  <2>3. run'[o].pc = "read" => db'.rows # <<>>
    BY <1>0, <2>2, SeededRows
  <2>4. RunOK(o)'
    BY <2>1, <2>3, NotReading DEF RunOK, Looping, At
  <2> QED  BY <2>1, <2>4, <1>m
<1>6. ASSUME NEW o \in Openers, ReadVersion(o)
      PROVE  \A p \in Openers : RunOK(p)'
  <2>1. Mine(o) /\ run'[o].pc \in {"failed", "loop", "done"}
        /\ run'[o].at = Version(db)
    BY <1>0, <1>6 DEF ReadVersion, ReadsOnly, RunRecords
  <2>2. UNCHANGED db /\ db.rows # <<>>
    BY <1>0, <1>6 DEF ReadVersion, ReadsOnly, RunOK, Reading, At
  <2>3. Version(db) = Version(db)'
    BY <2>2 DEF Version
  <2>4. RunOK(o)'
    BY <1>0, <2>1, <2>2, <2>3, NotReading DEF RunOK, Reading, Looping, At
  <2> QED  BY <2>1, <2>4, <1>m
<1>7. ASSUME NEW o \in Openers, Opened(o)
      PROVE  \A p \in Openers : RunOK(p)'
  <2>1. /\ Mine(o) /\ run'[o] = [run[o] EXCEPT !.pc = "opened"]
        /\ UNCHANGED db /\ Pending(o) = {} /\ run[o].pc = "loop"
    BY <1>0, <1>7 DEF Opened, Goto, ReadsOnly, At
  <2>2. /\ run'[o].pc = "opened" /\ run'[o].at = run[o].at
        /\ run'[o].newest = run[o].newest
    BY <1>0, <2>1 DEF RunRecords
  <2>3. Pending(o)' = {}
    BY <2>1, <2>2 DEF Pending
  <2>4. RunOK(o)'
    BY <1>0, <2>1, <2>2, <2>3 DEF RunOK, Reading, Looping, At, Version
  <2> QED  BY <2>1, <2>4, <1>m
<1>8. ASSUME NEW o \in Openers, RunBody(o)
      PROVE  \A p \in Openers : RunOK(p)'
  <2>1. /\ Mine(o) /\ run'[o] = [run[o] EXCEPT !.pc = "body"]
        /\ UNCHANGED db /\ run[o].pc = "loop"
    BY <1>0, <1>8 DEF RunBody, Goto, At
  <2>2. /\ run'[o].pc = "body" /\ run'[o].at = run[o].at
        /\ run'[o].newest = run[o].newest
    BY <1>0, <2>1 DEF RunRecords
  <2>3. Pending(o)' = Pending(o)
    BY <2>1, <2>2 DEF Pending
  <2>4. NextVersion(o)' = NextVersion(o)
    BY <2>3 DEF NextVersion
  <2>5. Version(db)' = Version(db)
    BY <2>1 DEF Version
  <2>6. /\ draft'.rows = db.rows /\ draft'.meta = db.meta
        /\ draft'.schema = {v \in Versions : v <= NextVersion(o)}
    BY <1>0, <1>8, BodyDraft DEF Databases
  <2>7. DraftBody(o)'
    BY <1>8, <2>1, <2>3, <2>4, <2>5, <2>6, BodyDraft DEF DraftBody
  <2>8. RunOK(o)'
    BY <1>0, <2>1, <2>2, <2>5, <2>7 DEF RunOK, Reading, Looping, At
  <2> QED  BY <2>1, <2>8, <1>m
<1>9. ASSUME NEW o \in Openers, UpdateVersion(o)
      PROVE  \A p \in Openers : RunOK(p)'
  <2>1. /\ Mine(o) /\ run'[o] = [run[o] EXCEPT !.pc = "booked"]
        /\ UNCHANGED db /\ run[o].pc = "body"
        /\ draft' = [draft EXCEPT !.rows = [i \in DOMAIN @ |-> NextVersion(o)]]
    BY <1>0, <1>9, <1>w DEF UpdateVersion, Goto, At, InTransaction
  <2>2. /\ run'[o].pc = "booked" /\ run'[o].at = run[o].at
        /\ run'[o].newest = run[o].newest
    BY <1>0, <2>1 DEF RunRecords
  <2>3. Pending(o)' = Pending(o)
    BY <2>1, <2>2 DEF Pending
  <2>4. NextVersion(o)' = NextVersion(o)
    BY <2>3 DEF NextVersion
  <2>5. Version(db)' = Version(db)
    BY <2>1 DEF Version
  <2>6. DraftBody(o) /\ db.rows # <<>>
    BY <1>0, <2>1 DEF RunOK, At, Reading
  <2>7. PICK n \in Versions : n = NextVersion(o)
    BY <2>6, NextVersionPending DEF DraftBody
  <2>8. /\ Len(draft'.rows) = Len(draft.rows) /\ draft'.rows # <<>>
        /\ Version(draft') = n
    BY <1>0, <2>1, <2>6, <2>7, UpdatedRows DEF DraftBody
  <2>9. draft'.schema = draft.schema
    BY <1>0, <2>1 DEF Databases
  <2>10. DraftBooked(o)'
    <3>1. Version(draft)' = n
      BY <2>8 DEF Version
    <3>2. Exact(draft)'
      BY <2>6, <2>7, <2>8, <2>9, <3>1 DEF Exact, DraftBody
    <3> QED  BY <2>1, <2>3, <2>4, <2>5, <2>6, <2>7, <2>8, <3>1, <3>2
             DEF DraftBooked, DraftBody
  <2>11. RunOK(o)'
    BY <1>0, <2>1, <2>2, <2>5, <2>6, <2>10 DEF RunOK, Reading, Looping, At
  <2> QED  BY <2>1, <2>11, <1>m
<1>10. ASSUME NEW o \in Openers, CommitMigration(o)
       PROVE  \A p \in Openers : RunOK(p)'
  <2>1. /\ Mine(o) /\ run'[o].pc = "loop" /\ run'[o].at = NextVersion(o)
        /\ db' = draft /\ run[o].pc = "booked"
    BY <1>0, <1>10, <1>w DEF CommitMigration, Commit, At, InTransaction, RunRecords
  <2>2. DraftBooked(o)
    BY <1>0, <2>1 DEF RunOK, At
  <2>3. Version(db)' = NextVersion(o) /\ NextVersion(o) \in Nat
    BY <2>1, <2>2, NextVersionPending DEF DraftBooked, Version
  <2>4. RunOK(o)'
    BY <2>1, <2>2, <2>3 DEF RunOK, Reading, Looping, At, DraftBooked
  <2> QED  BY <2>1, <2>4, <1>m
<1>11. ASSUME NEW o \in Openers,
              BodyAlreadyThere(o) \/ BusyTimeout(o) \/ StatementFails(o)
       PROVE  \A p \in Openers : RunOK(p)'
  <2>a. Goto(o, "failed") /\ UNCHANGED <<db, draft>>
    BY <1>11 DEF BodyAlreadyThere, BusyTimeout, StatementFails, ReadsOnly
  <2>1. Mine(o) /\ run'[o].pc = "failed"
    BY <2>a, <1>p, <1>c
  <2> QED  BY <2>1, <1>m, NotReading
<1>12. ASSUME NEW o \in Openers, Exit(o)
       PROVE  \A p \in Openers : RunOK(p)'
  <2>1. Mine(o) /\ run'[o].pc = "idle"
    BY <1>0, <1>12 DEF Exit, IdleRun
  <2> QED  BY <2>1, <1>m, NotReading
<1>13. CASE Checkpoint \/ UNCHANGED vars
  BY <1>13, <1>k DEF Checkpoint, vars, Keeps
<1> QED
  BY <1>1, <1>2, <1>3, <1>4, <1>5, <1>6, <1>7, <1>8, <1>9, <1>10, <1>11,
     <1>12, <1>13 DEF Next, RunnerStep

LEMMA Initially == Init => IInv
<1> SUFFICES ASSUME Init PROVE IInv
  OBVIOUS
<1>1. TypeOK
  BY TypeInit
<1>2. VersionTellsSchema
  <2>1. recent \cup {db} = {EmptyDb}
    BY DEF Init
  <2>a. EmptyDb.schema = {} /\ EmptyDb.rows = <<>>
    BY DEF EmptyDb
  <2>2. {v \in Versions : v <= 0} = {}
    <3>1. \A v \in Versions : v \in Nat /\ v # 0
      BY VersionAssumption
    <3>2. \A v \in Versions : ~(v <= 0)
      BY <3>1
    <3> QED  BY <3>2
  <2> QED  BY <2>1, <2>a, <2>2 DEF VersionTellsSchema, Version
<1>3. \A o \in Openers : RunOK(o)
  BY DEF Init, RunOK, Reading, Looping, At, IdleRun
<1> QED  BY <1>1, <1>2, <1>3 DEF IInv

LEMMA Inductive == IInv /\ [Next]_vars => IInv'
<1> SUFFICES ASSUME IInv, [Next]_vars PROVE IInv'
  OBVIOUS
<1>1. TypeOK'
  BY TypeStep DEF IInv
<1>2. VersionTellsSchema'
  BY DbStep
<1>3. \A o \in Openers : RunOK(o)'
  BY <1>1, RunStep
<1> QED  BY <1>1, <1>2, <1>3 DEF IInv

(***************************************************************************)
(* However many processes race, fail, crash or lose power, every database  *)
(* state that can be read or come back holds exactly the migrations its    *)
(* schema_version names.                                                   *)
(***************************************************************************)
THEOREM VersionIsExact == Spec => []VersionTellsSchema
<1>1. IInv => VersionTellsSchema
  BY DEF IInv
<1> QED  BY <1>1, Initially, Inductive, PTL DEF Spec

(***************************************************************************)
(* A database handle is handed out only over a schema that holds every     *)
(* migration its binary knows, and stays so as long as it lives.           *)
(***************************************************************************)
THEOREM OpenIsComplete == Spec => []OpenedIsMigrated
<1>1. IInv => OpenedIsMigrated
  <2> SUFFICES ASSUME IInv, NEW o \in Openers, At(o, "opened"),
                      NEW v \in Versions, v <= run[o].newest
               PROVE  v \in db.schema
    BY DEF OpenedIsMigrated
  <2>1. /\ run[o].at <= Version(db) /\ Pending(o) = {}
        /\ run[o].at \in Nat /\ Version(db) \in Nat
        /\ db.schema = {u \in Versions : u <= Version(db)}
    BY VersionNat DEF IInv, TypeOK, RunRecords, VersionTellsSchema, RunOK,
       Looping, At
  <2>2. v <= run[o].at
    BY <2>1, VersionAssumption DEF Pending
  <2> QED  BY <2>1, <2>2, VersionAssumption
<1> QED  BY <1>1, Initially, Inductive, PTL DEF Spec

(***************************************************************************)
(* While any process lives through a step, that step takes neither the     *)
(* schema nor its version backwards.                                       *)
(***************************************************************************)
THEOREM SchemaNeverRegresses == Spec => NeverBackwards
<1>1. IInv /\ IInv' /\ [Next]_vars =>
        [ /\ db.schema \subseteq db'.schema
          /\ Version(db) <= Version(db')
          \/ \A o \in Openers : run'[o].pc = "idle" ]_vars
  <2> SUFFICES ASSUME IInv, IInv', [Next]_vars
               PROVE  \/ /\ db.schema \subseteq db'.schema
                         /\ Version(db) <= Version(db')
                      \/ \A o \in Openers : run'[o].pc = "idle"
    OBVIOUS
  <2>1. CASE PowerLoss
    BY <2>1 DEF PowerLoss, IdleRun
  <2>2. CASE Grows
    <3>1. /\ Version(db) \in Nat /\ Version(db') \in Nat
          /\ db.schema = {v \in Versions : v <= Version(db)}
      BY VersionNat DEF IInv, TypeOK, VersionTellsSchema
    <3>2. db'.schema = {v \in Versions : v <= Version(db')}
      BY DEF IInv, VersionTellsSchema, Version
    <3>3. Version(db) <= Version(db')
      BY <2>2 DEF Grows
    <3>4. \A v \in Versions : v <= Version(db) => v <= Version(db')
      BY <3>1, <3>3, VersionAssumption
    <3> QED  BY <3>1, <3>2, <3>3, <3>4
  <2> QED  BY <2>1, <2>2, DbStep
<1> QED  BY <1>1, Initially, Inductive, PTL DEF Spec, NeverBackwards

--------------------------------------------------------------------------------
(***************************************************************************)
(* One row.  As long as runners prepare _meta one at a time, whoever is    *)
(* about to seed it still finds it empty.                                  *)
(***************************************************************************)
AtMostOneRow(d) == Len(d.rows) <= 1

SerialInv ==
  serial =>
    /\ \A d \in recent \cup {db} : AtMostOneRow(d)
    /\ \A o, p \in Openers :
         run[o].pc \in Preparing /\ run[p].pc \in Preparing => o = p
    /\ \A o \in Openers : run[o].pc = "seed" => db.rows = <<>>

(***************************************************************************)
(* A step of one runner during which the others stand still.               *)
(***************************************************************************)
LEMMA SerialStep ==
  ASSUME SerialInv, NEW o \in Openers,
         \A p \in Openers \ {o} : run'[p] = run[p],
         run'[o].pc \in Preparing => run[o].pc \in Preparing,
         serial' = serial,
         recent' \subseteq recent \cup {db, db'},
         serial => AtMostOneRow(db'),
         db'.rows = db.rows \/ \A p \in Openers \ {o} : run[p].pc # "seed",
         run'[o].pc = "seed" => db'.rows = <<>>
  PROVE  SerialInv'
<1> SUFFICES ASSUME serial'
             PROVE  /\ \A d \in recent' \cup {db'} : AtMostOneRow(d)
                    /\ \A q, p \in Openers :
                         run'[q].pc \in Preparing /\ run'[p].pc \in Preparing
                           => q = p
                    /\ \A q \in Openers : run'[q].pc = "seed" => db'.rows = <<>>
  BY DEF SerialInv, AtMostOneRow
<1>1. \A d \in recent' \cup {db'} : AtMostOneRow(d)
  BY DEF SerialInv
<1>2. \A q \in Openers : run'[q].pc \in Preparing => run[q].pc \in Preparing
  OBVIOUS
<1>3. \A q \in Openers : run'[q].pc = "seed" => db'.rows = <<>>
  BY DEF SerialInv
<1> QED  BY <1>1, <1>2, <1>3 DEF SerialInv

LEMMA SerialInductive ==
  ASSUME IInv, TypeOK', SerialInv, [Next]_vars
  PROVE  SerialInv'
<1>0. /\ TypeOK /\ db \in Databases /\ db \in recent
      /\ run \in [Openers -> RunRecords] /\ draft \in Databases
      /\ \A p \in Openers : RunOK(p)
  BY DEF IInv, TypeOK
<1>d. serial => AtMostOneRow(db)
  BY DEF SerialInv
<1>p. ASSUME NEW o \in Openers, NEW pc \in RunPCs, Goto(o, pc)
      PROVE  /\ run'[o].pc = pc
             /\ \A p \in Openers \ {o} : run'[p] = run[p]
  BY <1>0, <1>p DEF Goto, RunRecords
<1>c. /\ {"count", "read", "failed", "seed", "opened", "body", "booked"}
           \subseteq RunPCs
      /\ {"read", "failed", "opened", "body", "booked", "loop", "idle", "done"}
           \cap Preparing = {}
      /\ {"create", "count", "seed"} = Preparing
  BY DEF RunPCs, Preparing
<1>s. ASSUME NEW o \in Openers,
             \A p \in Openers \ {o} : run'[p] = run[p],
             run'[o].pc \notin Preparing,
             UNCHANGED <<serial, db, recent>>
      PROVE  SerialInv'
  BY <1>s, <1>d, <1>c, SerialStep
<1>2. ASSUME NEW o \in Openers, NEW mode \in Modes, NEW newest \in Releases,
             Start(o, mode, newest)
      PROVE  SerialInv'
  <2>1. /\ \A p \in Openers \ {o} : run'[p] = run[p]
        /\ run'[o].pc = "create"
        /\ serial' => serial /\ \A p \in Openers : run[p].pc \notin Preparing
        /\ UNCHANGED <<db, recent>>
    BY <1>0, <1>2 DEF Start
  <2>2. \A p \in Openers : p # o => run'[p] = run[p]
    BY <2>1
  <2>3. serial' => \A d \in recent' \cup {db'} : AtMostOneRow(d)
    BY <2>1 DEF SerialInv
  <2>4. serial' => \A q, p \in Openers :
          run'[q].pc \in Preparing /\ run'[p].pc \in Preparing => q = p
    BY <2>1, <2>2
  <2>5. serial' => \A q \in Openers : run'[q].pc = "seed" => db'.rows = <<>>
    BY <2>1, <2>2, <1>c
  <2> QED  BY <2>3, <2>4, <2>5 DEF SerialInv, AtMostOneRow
<1>3. ASSUME NEW o \in Openers, CreateMeta(o) PROVE SerialInv'
  <2> DEFINE e == [db EXCEPT !.meta = TRUE]
  <2>1. /\ run[o].pc = "create"
        /\ Goto(o, "count") \/ Goto(o, "failed")
        /\ UNCHANGED <<db, recent>> \/ Commit(e)
        /\ UNCHANGED serial
    BY <1>3 DEF CreateMeta, At
  <2>2. e.rows = db.rows
    BY <1>0 DEF Databases
  <2> HIDE DEF e
  <2>3. db'.rows = db.rows /\ recent' \subseteq recent \cup {db, db'}
    BY <2>1, <2>2 DEF Commit
  <2>4. /\ \A p \in Openers \ {o} : run'[p] = run[p]
        /\ run'[o].pc \in {"count", "failed"}
    BY <2>1, <1>p, <1>c
  <2> QED  BY <2>1, <2>3, <2>4, <1>c, <1>d, SerialStep DEF AtMostOneRow
<1>4. ASSUME NEW o \in Openers, CountRows(o) PROVE SerialInv'
  <2> DEFINE pc == CASE Len(db.rows) = 0 -> "seed"
                     [] Len(db.rows) = 1 -> "read"
                     [] OTHER -> "failed"
  <2>1. run[o].pc = "count" /\ Goto(o, pc) /\ UNCHANGED <<db, recent, serial>>
    BY <1>4 DEF CountRows, ReadsOnly, At
  <2>2. pc \in {"seed", "read", "failed"} /\ (pc = "seed" => Len(db.rows) = 0)
    OBVIOUS
  <2>3. pc = "seed" => db.rows = <<>>
    BY <1>0, <2>2 DEF Databases
  <2> HIDE DEF pc
  <2>4. run'[o].pc = pc /\ \A p \in Openers \ {o} : run'[p] = run[p]
    BY <2>1, <2>2, <1>p, <1>c
  <2> QED  BY <2>1, <2>3, <2>4, <1>c, <1>d, SerialStep
<1>5. ASSUME NEW o \in Openers, SeedRow(o) PROVE SerialInv'
  <2> DEFINE e == [db EXCEPT !.rows = Append(@, 0)]
  <2>1. /\ run[o].pc = "seed"
        /\ \/ Goto(o, "failed") /\ UNCHANGED <<db, recent>>
           \/ Goto(o, "read") /\ Commit(e)
        /\ UNCHANGED serial
    <3>1. CASE ReadOnly(o)
      BY <1>5, <3>1, Zenon DEF SeedRow, At
    <3>2. CASE ~ReadOnly(o)
      BY <1>5, <3>2, SMT DEF SeedRow, Commit, At
    <3> QED  BY <3>1, <3>2
  <2>2. Len(e.rows) = Len(db.rows) + 1
    BY <1>0, SeededRows
  <2> HIDE DEF e
  <2>3. /\ run'[o].pc \in {"read", "failed"}
        /\ \A p \in Openers \ {o} : run'[p] = run[p]
    BY <2>1, <1>p, <1>c
  <2>4. serial => Len(db.rows) = 0
    BY <2>1 DEF SerialInv
  <2>5. serial => AtMostOneRow(db')
    BY <1>d, <2>1, <2>2, <2>4 DEF Commit, AtMostOneRow
  <2>6. serial => \A p \in Openers \ {o} : run[p].pc # "seed"
    BY <2>1, <1>c DEF SerialInv
  <2>7. recent' \subseteq recent \cup {db, db'}
    BY <2>1 DEF Commit
  <2>8. CASE serial
    BY <2>1, <2>3, <2>5, <2>6, <2>7, <2>8, <1>c, SerialStep
  <2>9. CASE ~serial
    BY <2>1, <2>9 DEF SerialInv
  <2> QED  BY <2>8, <2>9
<1>6. ASSUME NEW o \in Openers, ReadVersion(o) PROVE SerialInv'
  <2>1. /\ \A p \in Openers \ {o} : run'[p] = run[p]
        /\ run'[o].pc \in {"failed", "loop", "done"}
        /\ UNCHANGED <<serial, db, recent>>
    BY <1>0, <1>6 DEF ReadVersion, ReadsOnly, RunRecords
  <2> QED  BY <2>1, <1>s, <1>c
<1>7. ASSUME NEW o \in Openers,
             \/ Opened(o) \/ RunBody(o) \/ BodyAlreadyThere(o)
             \/ UpdateVersion(o) \/ BusyTimeout(o) \/ StatementFails(o)
      PROVE  SerialInv'
  <2>1. /\ UNCHANGED <<serial, db, recent>>
        /\ \/ Goto(o, "opened") \/ Goto(o, "body") \/ Goto(o, "booked")
           \/ Goto(o, "failed")
    BY <1>7 DEF Opened, RunBody, BodyAlreadyThere, UpdateVersion, BusyTimeout,
       StatementFails, ReadsOnly
  <2>2. PICK pc \in {"opened", "body", "booked", "failed"} : Goto(o, pc)
    BY <2>1
  <2>3. run'[o].pc = pc /\ \A p \in Openers \ {o} : run'[p] = run[p]
    BY <2>2, <1>p, <1>c
  <2> QED  BY <2>1, <2>3, <1>s, <1>c
<1>8. ASSUME NEW o \in Openers, CommitMigration(o) PROVE SerialInv'
  <2>1. /\ run[o].pc = "booked" /\ run'[o].pc = "loop"
        /\ \A p \in Openers \ {o} : run'[p] = run[p]
        /\ db' = draft /\ recent' = recent \cup {draft} /\ UNCHANGED serial
    BY <1>0, <1>8 DEF CommitMigration, Commit, At, RunRecords
  <2>2. Len(draft.rows) = Len(db.rows) /\ db.rows # <<>>
    BY <1>0, <2>1 DEF RunOK, At, DraftBooked, Reading
  <2>3. serial => \A p \in Openers \ {o} : run[p].pc # "seed"
    BY <2>2 DEF SerialInv
  <2>4. serial => AtMostOneRow(db')
    BY <2>1, <2>2, <1>d DEF AtMostOneRow
  <2>5. CASE serial
    BY <2>1, <2>3, <2>4, <2>5, <1>c, SerialStep
  <2>6. CASE ~serial
    BY <2>1, <2>6 DEF SerialInv
  <2> QED  BY <2>5, <2>6
<1>9. ASSUME NEW o \in Openers, Exit(o) PROVE SerialInv'
  <2>1. /\ \A p \in Openers \ {o} : run'[p] = run[p]
        /\ run'[o].pc = "idle"
        /\ UNCHANGED <<serial, db, recent>>
    BY <1>0, <1>9 DEF Exit, IdleRun
  <2> QED  BY <2>1, <1>s, <1>c
<1>10. CASE Checkpoint \/ UNCHANGED vars
  <2>1. UNCHANGED <<serial, db, run>> /\ recent' \subseteq recent
    BY <1>0, <1>10 DEF Checkpoint, vars
  <2> QED  BY <2>1 DEF SerialInv
<1>11. CASE PowerLoss
  <2>1. /\ UNCHANGED serial /\ db' \in recent /\ recent' \subseteq recent
        /\ \A p \in Openers : run'[p].pc = "idle"
    BY <1>11 DEF PowerLoss, IdleRun
  <2> QED  BY <2>1, <1>c DEF SerialInv
<1> QED
  BY <1>2, <1>3, <1>4, <1>5, <1>6, <1>7, <1>8, <1>9, <1>10, <1>11
     DEF Next, RunnerStep

(***************************************************************************)
(* _meta never has a second row while the preparations of the runners do   *)
(* not overlap.                                                            *)
(***************************************************************************)
THEOREM OneRowWhenSerial == Spec => []SerialMetaHasOneRow
<1>1. Init => SerialInv
  <2> SUFFICES ASSUME Init PROVE SerialInv
    OBVIOUS
  <2>1. recent \cup {db} = {EmptyDb}
    BY DEF Init
  <2>2. Len(EmptyDb.rows) <= 1
    BY DEF EmptyDb
  <2>3. \A o \in Openers : run[o].pc = "idle"
    BY DEF Init, IdleRun
  <2> QED  BY <2>1, <2>2, <2>3 DEF SerialInv, AtMostOneRow, Preparing
<1>2. IInv /\ IInv' /\ SerialInv /\ [Next]_vars => SerialInv'
  BY SerialInductive DEF IInv
<1>3. SerialInv => SerialMetaHasOneRow
  BY DEF SerialInv, SerialMetaHasOneRow, AtMostOneRow
<1> QED  BY <1>1, <1>2, <1>3, Initially, Inductive, PTL DEF Spec

================================================================================
