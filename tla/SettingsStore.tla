----------------------------- MODULE SettingsStore -----------------------------
(***************************************************************************)
(* SettingsStore (crates/persistence/src/settings_store.rs): the owner of  *)
(* settings.toml inside one process.  Tasks edit the settings through an   *)
(* async lock and a temp-file-and-rename write on the blocking pool; a     *)
(* watcher thread re-reads the file whenever it changes on disk, and does  *)
(* so without that lock; other programs write the file too.  The model     *)
(* follows every step at which another actor can be seen or can interfere, *)
(* through cancellation of an edit, death of the process and loss of       *)
(* power.                                                                  *)
(*                                                                         *)
(* A Settings value is the set of changes it contains: edit e adds e to    *)
(* the draft, an external write w adds w to what the file holds.           *)
(***************************************************************************)
EXTENDS Naturals

CONSTANTS
  Edits,         \* calls of edit, each made at most once
  Writes,        \* writes of the file by other programs, each at most once, none an edit
  NoEdit,        \* nobody holds the write lock
  Disturbances   \* what else may happen: "fail", "cancel", "kill", "power"


VARIABLES
  file,      \* what a reader of settings.toml finds
  stable,    \* what it may find after a loss of power
  store,     \* life of the store in this process
  snapshot,  \* the in-memory Settings
  holder,    \* the edit that holds write_lock
  edit,      \* progress of each edit
  events,    \* the watcher has an unexamined event for the file
  reload,    \* progress of the watcher thread's perform_reload
  unused,    \* external writes still to come (bounds the model)
  onDisk,    \* history: settings the file has held, and the default
  raced,     \* history: a reload finished inside an edit's publication window
  gap,       \* history: the file changed between load's read and its watcher
  calm       \* history: acknowledged edits have met no interference so far

vars == <<file, stable, store, snapshot, holder, edit, events, reload, unused,
          onDisk, raced, gap, calm>>

Tags == Edits \cup Writes
Settings == SUBSET Tags
Default == {}

(***************************************************************************)
(* File contents: a Settings value, no file, or bytes that do not parse.   *)
(***************************************************************************)
Toml(s) == [kind |-> "toml", settings |-> s]
Absent == [kind |-> "absent", settings |-> {}]
Garbage == [kind |-> "garbage", settings |-> {}]
Contents == {Toml(s) : s \in Settings} \cup {Absent, Garbage}

Parses(c) == c.kind = "toml"

NewEdit == [pc |-> "new", draft |-> {}, synced |-> FALSE, overtaken |-> FALSE,
            orphan |-> FALSE]
IdleReload == [pc |-> "idle", text |-> {}]

Init ==
  /\ file \in {Absent, Toml({})}
  /\ stable = {file}
  /\ store = "down"
  /\ snapshot = Default
  /\ holder = NoEdit
  /\ edit = [e \in Edits |-> NewEdit]
  /\ events = FALSE
  /\ reload = IdleReload
  /\ unused = Writes
  /\ onDisk = {Default}
  /\ raced = FALSE
  /\ gap = FALSE
  /\ calm = TRUE

InFlight == {"drafted", "synced", "renamed", "committed"}
Running(e) == edit[e].pc \in InFlight
At(e, pc) == edit[e].pc = pc
Goto(e, pc) == edit' = [edit EXCEPT ![e].pc = pc]

(***************************************************************************)
(* Mutation of Replaced: the watcher watches the file and not its parent   *)
(* directory, so a file that is renamed into place goes unnoticed.         *)
(***************************************************************************)
ReplacedUnnoticed(content) ==
  /\ file' = content
  /\ events' = events
  /\ gap' = (gap \/ store = "loading")
  /\ onDisk' = IF Parses(content) THEN onDisk \cup {content.settings} ELSE onDisk

(***************************************************************************)
(* The file is replaced: the watcher, if it is installed, gets an event;   *)
(* a load that has read the file but not yet installed it, none.           *)
(***************************************************************************)
Replaced(content) ==
  /\ file' = content
  /\ events' = (events \/ store = "up")
  /\ gap' = (gap \/ store = "loading")
  /\ onDisk' = IF Parses(content) THEN onDisk \cup {content.settings} ELSE onDisk

--------------------------------------------------------------------------------
(***************************************************************************)
(* load_with_options: read the file, then install the watcher.             *)
(***************************************************************************)
LoadRead ==
  /\ store = "down"
  /\ file # Garbage
  /\ store' = "loading"
  /\ snapshot' = IF Parses(file) THEN file.settings ELSE Default
  /\ raced' = FALSE
  /\ gap' = FALSE
  /\ UNCHANGED <<file, stable, holder, edit, events, reload, unused, onDisk,
                 calm>>

SpawnWatcher ==
  /\ store = "loading"
  /\ store' = "up"
  /\ UNCHANGED <<file, stable, snapshot, holder, edit, events, reload, unused,
                 onDisk, raced, gap, calm>>

(***************************************************************************)
(* Drop: the watcher goes first, then the driver thread is joined, so a    *)
(* reload under way is finished and queued events are discarded.           *)
(***************************************************************************)
Close ==
  /\ store = "up"
  /\ holder = NoEdit
  /\ reload.pc = "idle"
  /\ store' = "down"
  /\ events' = FALSE
  /\ UNCHANGED <<file, stable, snapshot, holder, edit, reload, unused, onDisk,
                 raced, gap, calm>>

--------------------------------------------------------------------------------
(***************************************************************************)
(* Mutations of EditBegin: the lock is not awaited; the draft is published *)
(* before it is written.                                                   *)
(***************************************************************************)
EditBeginUnlocked(e) ==
  /\ store = "up"
  /\ At(e, "new")
  /\ holder' = e
  /\ edit' = [edit EXCEPT ![e].pc = "drafted", ![e].draft = snapshot \cup {e}]
  /\ UNCHANGED <<file, stable, store, snapshot, events, reload, unused, onDisk,
                 raced, gap, calm>>

EditBeginPublished(e) ==
  /\ store = "up"
  /\ At(e, "new")
  /\ holder = NoEdit
  /\ holder' = e
  /\ edit' = [edit EXCEPT ![e].pc = "drafted", ![e].draft = snapshot \cup {e}]
  /\ snapshot' = snapshot \cup {e}
  /\ UNCHANGED <<file, stable, store, events, reload, unused, onDisk, raced, gap,
                 calm>>

(***************************************************************************)
(* edit: lock, draft, write, publish.                                      *)
(***************************************************************************)
EditBegin(e) ==
  /\ store = "up"
  /\ At(e, "new")
  /\ holder = NoEdit
  /\ holder' = e
  /\ edit' = [edit EXCEPT ![e].pc = "drafted", ![e].draft = snapshot \cup {e}]
  /\ UNCHANGED <<file, stable, store, snapshot, events, reload, unused, onDisk,
                 raced, gap, calm>>

(***************************************************************************)
(* Mutation of WriteTemp: no fsync before the rename.                      *)
(***************************************************************************)
WriteTempUnsynced(e) ==
  /\ At(e, "drafted")
  /\ Goto(e, "synced")
  /\ UNCHANGED <<file, stable, store, snapshot, holder, events, reload, unused,
                 onDisk, raced, gap, calm>>

(***************************************************************************)
(* write_atomically, first half: the temp file is written and fsynced.     *)
(***************************************************************************)
WriteTemp(e) ==
  /\ At(e, "drafted")
  /\ edit' = [edit EXCEPT ![e].pc = "synced", ![e].synced = TRUE]
  /\ UNCHANGED <<file, stable, store, snapshot, holder, events, reload, unused,
                 onDisk, raced, gap, calm>>

(***************************************************************************)
(* Second half: the temp file is renamed over the target.  Until the       *)
(* directory is synced a loss of power may still show the old entry; data  *)
(* pages that were not synced come back as garbage.                        *)
(***************************************************************************)
Rename(e) ==
  /\ At(e, "synced")
  /\ Replaced(Toml(edit[e].draft))
  /\ stable' = stable \cup {IF edit[e].synced THEN file' ELSE Garbage}
  /\ Goto(e, "renamed")
  /\ UNCHANGED <<store, snapshot, holder, reload, unused, raced, calm>>

(***************************************************************************)
(* The parent directory is fsynced, which some file systems refuse.        *)
(***************************************************************************)
SyncDir(e) ==
  /\ At(e, "renamed")
  /\ stable' \in {stable, {file}}
  /\ Goto(e, "committed")
  /\ UNCHANGED <<file, store, snapshot, holder, events, reload, unused, onDisk,
                 raced, gap, calm>>

(***************************************************************************)
(* The snapshot is published and the lock released; the edit is            *)
(* acknowledged.                                                           *)
(***************************************************************************)
Publish(e) ==
  /\ At(e, "committed")
  /\ ~edit[e].orphan
  /\ snapshot' = edit[e].draft
  /\ holder' = NoEdit
  /\ Goto(e, "acked")
  /\ raced' = (raced \/ edit[e].overtaken)
  /\ UNCHANGED <<file, stable, store, events, reload, unused, onDisk, gap, calm>>

(***************************************************************************)
(* Mutation of EditFails: the lock outlives the failed edit.               *)
(***************************************************************************)
EditFailsLocked(e) ==
  /\ "fail" \in Disturbances
  /\ edit[e].pc \in {"drafted", "synced"}
  /\ Goto(e, "gone")
  /\ UNCHANGED <<file, stable, store, snapshot, holder, events, reload, unused,
                 onDisk, raced, gap, calm>>

(***************************************************************************)
(* Serialisation, the temp file or the rename fails: edit returns the      *)
(* error and its lock guard is dropped.                                    *)
(***************************************************************************)
EditFails(e) ==
  /\ "fail" \in Disturbances
  /\ edit[e].pc \in {"drafted", "synced"}
  /\ holder' = IF holder = e THEN NoEdit ELSE holder
  /\ Goto(e, "gone")
  /\ UNCHANGED <<file, stable, store, snapshot, events, reload, unused, onDisk,
                 raced, gap, calm>>

(***************************************************************************)
(* The task that awaits edit is cancelled.  Its lock guard is dropped, but *)
(* the write on the blocking pool runs on.                                 *)
(***************************************************************************)
Cancel(e) ==
  /\ "cancel" \in Disturbances
  /\ Running(e) /\ ~edit[e].orphan
  /\ holder' = NoEdit
  /\ edit' = [edit EXCEPT ![e].orphan = TRUE]
  /\ calm' = FALSE
  /\ UNCHANGED <<file, stable, store, snapshot, events, reload, unused, onDisk,
                 raced, gap>>

OrphanEnds(e) ==
  /\ At(e, "committed") /\ edit[e].orphan
  /\ Goto(e, "gone")
  /\ UNCHANGED <<file, stable, store, snapshot, holder, events, reload, unused,
                 onDisk, raced, gap, calm>>

--------------------------------------------------------------------------------
(***************************************************************************)
(* watcher_driver_loop: the debounce window has closed, one reload runs.   *)
(***************************************************************************)
StartReload ==
  /\ store = "up"
  /\ events
  /\ reload.pc = "idle"
  /\ events' = FALSE
  /\ reload' = [pc |-> "read", text |-> {}]
  /\ UNCHANGED <<file, stable, store, snapshot, holder, edit, unused, onDisk,
                 raced, gap, calm>>

(***************************************************************************)
(* perform_reload: an absent or malformed file leaves everything as it is. *)
(***************************************************************************)
ReloadRead ==
  /\ reload.pc = "read"
  /\ reload' = IF Parses(file) THEN [pc |-> "compare", text |-> file.settings]
                               ELSE IdleReload
  /\ UNCHANGED <<file, stable, store, snapshot, holder, edit, events, unused,
                 onDisk, raced, gap, calm>>

(***************************************************************************)
(* An edit whose file is in place and whose snapshot is not yet published  *)
(* is overtaken by a reload that finishes.                                 *)
(***************************************************************************)
Overtake ==
  edit' = [e \in Edits |-> [edit[e] EXCEPT !.overtaken =
             @ \/ edit[e].pc \in {"renamed", "committed"}]]

ReloadUnchanged ==
  /\ reload.pc = "compare"
  /\ reload.text = snapshot
  /\ reload' = IdleReload
  /\ Overtake
  /\ UNCHANGED <<file, stable, store, snapshot, holder, events, unused, onDisk,
                 raced, gap, calm>>

ReloadDiffers ==
  /\ reload.pc = "compare"
  /\ reload.text # snapshot
  /\ reload' = [reload EXCEPT !.pc = "publish"]
  /\ UNCHANGED <<file, stable, store, snapshot, holder, edit, events, unused,
                 onDisk, raced, gap, calm>>

(***************************************************************************)
(* Mutation of ReloadPublish: the events that came during the reload are   *)
(* drained with it.                                                        *)
(***************************************************************************)
ReloadPublishDrains ==
  /\ reload.pc = "publish"
  /\ snapshot' = reload.text
  /\ reload' = IdleReload
  /\ events' = FALSE
  /\ Overtake
  /\ calm' = (calm /\ file = Toml(reload.text))
  /\ UNCHANGED <<file, stable, store, holder, unused, onDisk, raced, gap>>

(***************************************************************************)
(* The re-read value replaces the snapshot and is broadcast.  When the     *)
(* file has moved on since it was read, this is an old value.              *)
(***************************************************************************)
ReloadPublish ==
  /\ reload.pc = "publish"
  /\ snapshot' = reload.text
  /\ reload' = IdleReload
  /\ Overtake
  /\ calm' = (calm /\ file = Toml(reload.text))
  /\ UNCHANGED <<file, stable, store, holder, events, unused, onDisk, raced, gap>>

--------------------------------------------------------------------------------
(***************************************************************************)
(* Another program changes the file: a valid save on top of what it holds, *)
(* a save that does not parse, or a removal.                               *)
(***************************************************************************)
ExternalWrite(w) ==
  /\ w \in unused
  /\ unused' = unused \ {w}
  /\ \E content \in {Toml(file.settings \cup {w}), Garbage, Absent} :
       Replaced(content) /\ stable' = {content}
  /\ calm' = FALSE
  /\ UNCHANGED <<store, snapshot, holder, edit, reload, raced>>

(***************************************************************************)
(* The process dies and with it everything in memory, writes on the        *)
(* blocking pool included.                                                 *)
(***************************************************************************)
ProcessGone ==
  /\ store' = "down"
  /\ snapshot' = Default
  /\ holder' = NoEdit
  /\ edit' = [e \in Edits |-> IF Running(e) THEN [edit[e] EXCEPT !.pc = "gone"]
                                            ELSE edit[e]]
  /\ events' = FALSE
  /\ reload' = IdleReload

Kill ==
  /\ "kill" \in Disturbances
  /\ store # "down"
  /\ ProcessGone
  /\ UNCHANGED <<file, stable, unused, onDisk, raced, gap, calm>>

PowerLoss ==
  /\ "power" \in Disturbances
  /\ ProcessGone
  /\ file' \in stable
  /\ stable' = {file'}
  /\ calm' = (calm /\ file' = file)
  /\ UNCHANGED <<unused, onDisk, raced, gap>>

EditStep(e) ==
  \/ WriteTemp(e) \/ Rename(e) \/ SyncDir(e) \/ Publish(e) \/ OrphanEnds(e)

DriverStep ==
  \/ StartReload \/ ReloadRead
  \/ ReloadUnchanged \/ ReloadDiffers \/ ReloadPublish

Next ==
  \/ LoadRead \/ SpawnWatcher \/ Close
  \/ \E e \in Edits : EditBegin(e) \/ EditStep(e) \/ EditFails(e) \/ Cancel(e)
  \/ DriverStep
  \/ \E w \in Writes : ExternalWrite(w)
  \/ Kill \/ PowerLoss

(***************************************************************************)
(* The watcher thread and a write handed to the blocking pool keep         *)
(* running; a task that awaits its edit is polled again.  Nothing obliges  *)
(* anyone to start an edit, to load a store or to write the file.          *)
(***************************************************************************)
Fairness ==
  /\ WF_vars(DriverStep)
  /\ \A e \in Edits : WF_vars(EditStep(e))

Spec == Init /\ [][Next]_vars /\ Fairness

(***************************************************************************)
(* What the proofs need of the constants.                                  *)
(***************************************************************************)
NoEditIsNone == NoEdit \notin Edits

--------------------------------------------------------------------------------
EditRecords ==
  [pc : {"new", "acked", "gone"} \cup InFlight, draft : Settings,
   synced : BOOLEAN, overtaken : BOOLEAN, orphan : BOOLEAN]

(***************************************************************************)
(* Type invariant, with mutual exclusion of edits: an edit that is neither *)
(* cancelled nor finished holds the lock.                                  *)
(***************************************************************************)
TypeOK ==
  /\ file \in Contents
  /\ stable \subseteq Contents
  /\ store \in {"down", "loading", "up"}
  /\ snapshot \in Settings
  /\ holder \in Edits \cup {NoEdit}
  /\ edit \in [Edits -> EditRecords]
  /\ events \in BOOLEAN
  /\ reload \in [pc : {"idle", "read", "compare", "publish"}, text : Settings]
  /\ unused \subseteq Writes
  /\ onDisk \subseteq Settings
  /\ {raced, gap, calm} \subseteq BOOLEAN
  /\ \A e \in Edits : Running(e) /\ ~edit[e].orphan <=> holder = e

(***************************************************************************)
(* "a mid-write process kill can never leave the target file partially     *)
(* written" (settings_store.rs:20-22), a power cut included: unless some   *)
(* other program wrote garbage, all a restart can find is a settings value *)
(* the file has held, or the absence it started from.                      *)
(***************************************************************************)
RestartFindsWholeFile ==
  unused = Writes =>
    \A c \in stable \cup {file} : c = Absent \/ (Parses(c) /\ c.settings \in onDisk)

(***************************************************************************)
(* "Only publish in-memory after the on-disk write succeeded" (:576): what *)
(* readers see is a value the file has held, whoever published it, and so  *)
(* is what the watcher is about to publish.                                *)
(***************************************************************************)
PublishedWasOnDisk == snapshot \in onDisk /\ reload.text \in onDisk

(***************************************************************************)
(* Edits serialise (:367-370): with no other program, no cancellation, no  *)
(* power cut, and no reload publishing a text the file has moved on from,  *)
(* an acknowledged edit stays in the file and, while the store is up, in   *)
(* the snapshot.                                                           *)
(***************************************************************************)
CalmEditsSurvive ==
  calm => \A e \in Edits : At(e, "acked") =>
            /\ e \in file.settings
            /\ store = "up" => e \in snapshot

(***************************************************************************)
(* The snapshot is the source of truth (:516-517): once no event and no    *)
(* reload is outstanding it equals the file, whatever edits are doing,     *)
(* unless an edit's publication was overtaken by a reload or the file      *)
(* changed before the watcher was installed -- the only two ways to go     *)
(* stale for good.                                                         *)
(***************************************************************************)
Settled == store = "up" /\ ~events /\ reload.pc = "idle"

SnapshotFresh ==
  Settled /\ Parses(file) /\ ~raced /\ ~gap => snapshot = file.settings

(***************************************************************************)
(* Every change on disk is eventually reflected (:977-979): once edits and *)
(* external writes have ceased, the snapshot of a store that is up agrees  *)
(* with the file for good, with the exceptions of SnapshotFresh.           *)
(***************************************************************************)
Converges ==
  <>[](store = "up" /\ Parses(file) /\ ~raced /\ ~gap
         => snapshot = file.settings)

(***************************************************************************)
(* "Two sequential edits both land" (:853-854).  They need not: see the    *)
(* run SettingsLostEdit.                                                   *)
(***************************************************************************)
AckedEditsSurvive ==
  \A e \in Edits : At(e, "acked") => e \in file.settings

================================================================================
