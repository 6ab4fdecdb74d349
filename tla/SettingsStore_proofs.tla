------------------------- MODULE SettingsStore_proofs -------------------------
(***************************************************************************)
(* Proofs about SettingsStore for every set of edits and external writes   *)
(* and whatever disturbances occur.                                        *)
(***************************************************************************)
EXTENDS SettingsStore, TLAPS

LEMMA ContentsType ==
  ASSUME NEW c \in Contents
  PROVE  /\ c.settings \in Settings
         /\ Parses(c) => c = Toml(c.settings)
         /\ ~Parses(c) => c.settings = {}
  BY DEF Contents, Toml, Absent, Garbage, Parses, Settings

LEMMA TomlType ==
  ASSUME NEW s \in Settings
  PROVE  Toml(s) \in Contents /\ Parses(Toml(s)) /\ Toml(s).settings = s
  BY DEF Contents, Toml, Parses

LEMMA NotTomlType ==
  /\ {Absent, Garbage} \subseteq Contents
  /\ \A c \in {Absent, Garbage} : ~Parses(c) /\ c.settings = {}
  BY DEF Contents, Absent, Garbage, Parses

(***************************************************************************)
(* Types, and the lock: an edit that runs and is not cancelled holds it.   *)
(* For the lock to stay with one edit, none may begin as an orphan.        *)
(***************************************************************************)
TypeInv == TypeOK /\ \A e \in Edits : At(e, "new") => ~edit[e].orphan

LEMMA TypeInit == NoEditIsNone /\ Init => TypeInv
<1> SUFFICES ASSUME NoEditIsNone, Init PROVE TypeInv
  OBVIOUS
<1>1. NewEdit \in EditRecords
  BY DEF NewEdit, EditRecords, Settings
<1>2. file \in Contents
  BY TomlType, NotTomlType DEF Init, Settings
<1>3. \A e \in Edits : ~Running(e) /\ holder # e
  BY DEF Init, NewEdit, Running, InFlight, NoEditIsNone
<1>4. TypeOK
  BY <1>1, <1>2, <1>3 DEF Init, TypeOK, IdleReload, Settings, Default
<1> QED  BY <1>4 DEF Init, TypeInv, NewEdit

(***************************************************************************)
(* What the steps that touch every edit, or more than an edit's place, do  *)
(* to each.                                                                *)
(***************************************************************************)
LEMMA BeginEffect ==
  ASSUME TypeOK, NEW e \in Edits, EditBegin(e)
  PROVE  /\ edit' \in [Edits -> EditRecords]
         /\ edit'[e].pc = "drafted" /\ edit'[e].draft = snapshot \cup {e}
         /\ edit'[e].orphan = edit[e].orphan
         /\ \A d \in Edits \ {e} : edit'[d] = edit[d]
<1> DEFINE new == [edit[e] EXCEPT !.pc = "drafted", !.draft = snapshot \cup {e}]
<1>1. edit[e] \in EditRecords /\ edit \in [Edits -> EditRecords]
  BY DEF TypeOK
<1>2. snapshot \cup {e} \in Settings
  BY DEF TypeOK, Settings, Tags
<1>3. edit' = [edit EXCEPT ![e] = new]
  BY <1>1 DEF EditBegin
<1>4. /\ new \in EditRecords
      /\ new.pc = "drafted" /\ new.draft = snapshot \cup {e} /\ new.orphan = edit[e].orphan
  BY <1>1, <1>2 DEF EditRecords, InFlight
<1> QED  BY <1>1, <1>3, <1>4

LEMMA OvertakeEffect ==
  ASSUME TypeOK, Overtake
  PROVE  /\ edit' \in [Edits -> EditRecords]
         /\ \A e \in Edits :
              /\ edit'[e].pc = edit[e].pc /\ edit'[e].draft = edit[e].draft
              /\ edit'[e].synced = edit[e].synced /\ edit'[e].orphan = edit[e].orphan
              /\ edit[e].pc \in {"renamed", "committed"} => edit'[e].overtaken
<1>1. ASSUME NEW e \in Edits
      PROVE  /\ edit'[e] \in EditRecords
             /\ edit'[e].pc = edit[e].pc /\ edit'[e].draft = edit[e].draft
             /\ edit'[e].synced = edit[e].synced /\ edit'[e].orphan = edit[e].orphan
             /\ edit[e].pc \in {"renamed", "committed"} => edit'[e].overtaken
  <2> DEFINE overtaken == edit[e].overtaken \/ edit[e].pc \in {"renamed", "committed"}
  <2>1. edit'[e] = [edit[e] EXCEPT !.overtaken = overtaken]
    BY DEF Overtake
  <2>2. edit[e] \in EditRecords /\ overtaken \in BOOLEAN
    BY DEF TypeOK
  <2>3. edit[e].pc \in {"renamed", "committed"} => overtaken
    OBVIOUS
  <2> HIDE DEF overtaken
  <2> QED  BY <2>1, <2>2, <2>3 DEF EditRecords
<1>2. edit' = [e \in Edits |-> edit'[e]]
  BY DEF Overtake
<1> QED  BY <1>1, <1>2

LEMMA GoneEffect ==
  ASSUME TypeOK, ProcessGone
  PROVE  /\ edit' \in [Edits -> EditRecords]
         /\ \A e \in Edits :
              /\ edit'[e].pc = IF edit[e].pc \in InFlight THEN "gone" ELSE edit[e].pc
              /\ edit'[e].draft = edit[e].draft
              /\ edit'[e].synced = edit[e].synced /\ edit'[e].orphan = edit[e].orphan
<1>1. ASSUME NEW e \in Edits
      PROVE  /\ edit'[e] \in EditRecords
             /\ edit'[e].pc = IF edit[e].pc \in InFlight THEN "gone" ELSE edit[e].pc
             /\ edit'[e].draft = edit[e].draft
             /\ edit'[e].synced = edit[e].synced /\ edit'[e].orphan = edit[e].orphan
  <2>1. edit'[e] = IF edit[e].pc \in InFlight THEN [edit[e] EXCEPT !.pc = "gone"] ELSE edit[e]
    BY DEF ProcessGone, Running
  <2>2. edit[e] \in EditRecords
    BY DEF TypeOK
  <2> QED  BY <2>1, <2>2 DEF EditRecords
<1>2. edit' = [e \in Edits |-> edit'[e]]
  BY DEF ProcessGone
<1> QED  BY <1>1, <1>2

LEMMA ReplacedType ==
  ASSUME TypeOK, NEW content \in Contents, Replaced(content)
  PROVE  file' \in Contents /\ events' \in BOOLEAN /\ gap' \in BOOLEAN /\ onDisk' \subseteq Settings
  BY ContentsType DEF TypeOK, Replaced

LEMMA TypeStep == ASSUME NoEditIsNone, TypeInv, [Next]_vars PROVE TypeInv'
<1> USE DEF NoEditIsNone, TypeInv, Running, InFlight, At, Goto
<1>1. CASE LoadRead
  BY <1>1, ContentsType DEF TypeOK, LoadRead, Default, Settings
<1>2. CASE SpawnWatcher
  BY <1>2 DEF TypeOK, SpawnWatcher
<1>3. CASE Close
  BY <1>3 DEF TypeOK, Close
<1>4. ASSUME NEW e \in Edits, EditBegin(e) PROVE TypeInv'
  BY <1>4, BeginEffect DEF TypeOK, EditBegin
<1>5. ASSUME NEW e \in Edits, WriteTemp(e) PROVE TypeInv'
  BY <1>5, ZenonT(60) DEF TypeOK, WriteTemp, EditRecords
<1>6. ASSUME NEW e \in Edits, Rename(e) PROVE TypeInv'
  <2>1. Toml(edit[e].draft) \in Contents
    BY TomlType DEF TypeOK, EditRecords
  <2>2. stable' \subseteq Contents
    BY <1>6, <2>1, NotTomlType DEF Rename, Replaced, TypeOK
  <2> QED  BY <1>6, <2>1, <2>2, ReplacedType DEF TypeOK, Rename, EditRecords
<1>7. ASSUME NEW e \in Edits, SyncDir(e) PROVE TypeInv'
  BY <1>7 DEF TypeOK, SyncDir, EditRecords
<1>8. ASSUME NEW e \in Edits, Publish(e) PROVE TypeInv'
  BY <1>8 DEF TypeOK, Publish, EditRecords
<1>9. ASSUME NEW e \in Edits, OrphanEnds(e) PROVE TypeInv'
  BY <1>9 DEF TypeOK, OrphanEnds, EditRecords
<1>10. ASSUME NEW e \in Edits, EditFails(e) PROVE TypeInv'
  BY <1>10 DEF TypeOK, EditFails, EditRecords
<1>11. ASSUME NEW e \in Edits, Cancel(e) PROVE TypeInv'
  BY <1>11 DEF TypeOK, Cancel, EditRecords
<1>12. CASE StartReload
  BY <1>12 DEF TypeOK, StartReload, Settings
<1>13. CASE ReloadRead
  BY <1>13, ContentsType DEF TypeOK, ReloadRead, IdleReload, Settings
<1>14. CASE ReloadUnchanged
  BY <1>14, OvertakeEffect DEF TypeOK, ReloadUnchanged, IdleReload, Settings
<1>15. CASE ReloadDiffers
  BY <1>15 DEF TypeOK, ReloadDiffers
<1>16. CASE ReloadPublish
  BY <1>16, OvertakeEffect DEF TypeOK, ReloadPublish, IdleReload, Settings
<1>17. ASSUME NEW w \in Writes, ExternalWrite(w) PROVE TypeInv'
  <2>1. PICK content \in {Toml(file.settings \cup {w}), Garbage, Absent} :
          Replaced(content) /\ stable' = {content}
    BY <1>17 DEF ExternalWrite
  <2>2. file.settings \cup {w} \in Settings
    BY ContentsType DEF TypeOK, Settings, Tags
  <2>3. content \in Contents
    BY <2>2, TomlType, NotTomlType
  <2> QED  BY <1>17, <2>1, <2>3, ReplacedType DEF TypeOK, ExternalWrite
<1>18. CASE Kill
  <2>1. ProcessGone
    BY <1>18 DEF Kill
  <2>2. \A e \in Edits : ~Running(e)' /\ holder' # e /\ (At(e, "new")' => At(e, "new"))
    BY <2>1, GoneEffect DEF ProcessGone
  <2>3. /\ reload' \in [pc : {"idle", "read", "compare", "publish"}, text : Settings]
        /\ snapshot' \in Settings /\ holder' = NoEdit /\ store' = "down" /\ events' = FALSE
    BY <2>1 DEF ProcessGone, Default, IdleReload, Settings
  <2>4. edit' \in [Edits -> EditRecords] /\ \A e \in Edits : edit'[e].orphan = edit[e].orphan
    BY <2>1, GoneEffect
  <2> HIDE DEF Running
  <2> QED  BY <1>18, <2>2, <2>3, <2>4 DEF TypeOK, Kill
<1>19. CASE PowerLoss
  <2>1. ProcessGone
    BY <1>19 DEF PowerLoss
  <2>2. \A e \in Edits : ~Running(e)' /\ holder' # e /\ (At(e, "new")' => At(e, "new"))
    BY <2>1, GoneEffect DEF ProcessGone
  <2>3. /\ reload' \in [pc : {"idle", "read", "compare", "publish"}, text : Settings]
        /\ snapshot' \in Settings /\ holder' = NoEdit /\ store' = "down" /\ events' = FALSE
    BY <2>1 DEF ProcessGone, Default, IdleReload, Settings
  <2>4. edit' \in [Edits -> EditRecords] /\ \A e \in Edits : edit'[e].orphan = edit[e].orphan
    BY <2>1, GoneEffect
  <2> HIDE DEF Running
  <2> QED  BY <1>19, <2>2, <2>3, <2>4 DEF TypeOK, PowerLoss
<1>20. CASE UNCHANGED vars
  BY <1>20 DEF TypeOK, vars
<1> QED
  BY <1>1, <1>2, <1>3, <1>4, <1>5, <1>6, <1>7, <1>8, <1>9, <1>10, <1>11, <1>12, <1>13, <1>14,
     <1>15, <1>16, <1>17, <1>18, <1>19, <1>20 DEF Next, EditStep, DriverStep

-------------------------------------------------------------------------------
(***************************************************************************)
(* What is on disk.  A draft is renamed into place after its temp file was *)
(* synced, so that all a restart may find has been in the file, and what   *)
(* is published comes from there.                                          *)
(***************************************************************************)
InPlace(e) == edit[e].pc \in {"renamed", "committed"}

DiskInv ==
  /\ Default \in onDisk
  /\ \A c \in stable \cup {file} : Parses(c) => c.settings \in onDisk
  /\ unused = Writes => \A c \in stable \cup {file} : c = Absent \/ Parses(c)
  /\ \A e \in Edits : At(e, "synced") => edit[e].synced
  /\ \A e \in Edits : InPlace(e) => edit[e].draft \in onDisk
  /\ snapshot \in onDisk /\ reload.text \in onDisk

LEMMA DiskInit == Init => DiskInv
<1> SUFFICES ASSUME Init PROVE DiskInv
  OBVIOUS
<1>1. \A c \in {Absent, Toml({})} : c = Absent \/ (Parses(c) /\ c.settings = {})
  BY DEF Toml, Parses
<1>2. ~Parses(Absent)
  BY NotTomlType
<1> QED  BY <1>1, <1>2 DEF Init, DiskInv, Default, NewEdit, IdleReload, At, InPlace

(***************************************************************************)
(* The file changes to something a reader may find.                        *)
(***************************************************************************)
LEMMA ReplacedRecords ==
  ASSUME NEW content, Replaced(content)
  PROVE  /\ file' = content /\ onDisk \subseteq onDisk'
         /\ Parses(content) => content.settings \in onDisk'
  BY DEF Replaced

LEMMA DiskStep ==
  ASSUME NoEditIsNone, TypeInv, TypeInv', DiskInv, [Next]_vars
  PROVE  DiskInv'
<1> USE DEF TypeInv, TypeOK, DiskInv, At, Goto, InPlace
<1>1. CASE LoadRead
  BY <1>1 DEF LoadRead
<1>2. CASE SpawnWatcher \/ Close
  BY <1>2 DEF SpawnWatcher, Close
<1>4. ASSUME NEW e \in Edits, EditBegin(e) PROVE DiskInv'
  BY <1>4, BeginEffect DEF EditBegin
<1>5. ASSUME NEW e \in Edits, WriteTemp(e) PROVE DiskInv'
  BY <1>5 DEF WriteTemp, EditRecords
<1>6. ASSUME NEW e \in Edits, Rename(e) PROVE DiskInv'
  <2>1. /\ file' = Toml(edit[e].draft) /\ onDisk \subseteq onDisk'
        /\ Parses(file') /\ file'.settings = edit[e].draft /\ edit[e].draft \in onDisk'
    BY <1>6, ReplacedRecords, TomlType DEF Rename, EditRecords
  <2>2. stable' = stable \cup {file'}
    BY <1>6 DEF Rename
  <2> QED  BY <1>6, <2>1, <2>2 DEF Rename, EditRecords
<1>7. ASSUME NEW e \in Edits, SyncDir(e) PROVE DiskInv'
  BY <1>7 DEF SyncDir, EditRecords
<1>8. ASSUME NEW e \in Edits, Publish(e) PROVE DiskInv'
  BY <1>8 DEF Publish, EditRecords
<1>9. ASSUME NEW e \in Edits, OrphanEnds(e) \/ EditFails(e) PROVE DiskInv'
  BY <1>9 DEF OrphanEnds, EditFails, EditRecords
<1>11. ASSUME NEW e \in Edits, Cancel(e) PROVE DiskInv'
  BY <1>11 DEF Cancel, EditRecords
<1>12. CASE StartReload
  BY <1>12 DEF StartReload, Default
<1>13. CASE ReloadRead
  BY <1>13 DEF ReloadRead, IdleReload, Default
<1>14. CASE ReloadUnchanged
  BY <1>14, OvertakeEffect DEF ReloadUnchanged, IdleReload, Default
<1>15. CASE ReloadDiffers
  BY <1>15 DEF ReloadDiffers
<1>16. CASE ReloadPublish
  BY <1>16, OvertakeEffect DEF ReloadPublish, IdleReload, Default
<1>17. ASSUME NEW w \in Writes, ExternalWrite(w) PROVE DiskInv'
  <2>1. PICK content \in {Toml(file.settings \cup {w}), Garbage, Absent} :
          Replaced(content) /\ stable' = {content}
    BY <1>17 DEF ExternalWrite
  <2>2. unused' # Writes
    BY <1>17 DEF ExternalWrite
  <2> QED  BY <1>17, <2>1, <2>2, ReplacedRecords DEF ExternalWrite
<1>18. CASE Kill
  BY <1>18, GoneEffect DEF Kill, ProcessGone, IdleReload, Default
<1>19. CASE PowerLoss
  BY <1>19, GoneEffect DEF PowerLoss, ProcessGone, IdleReload, Default
<1>20. CASE UNCHANGED vars
  BY <1>20 DEF vars
<1> QED
  BY <1>1, <1>2, <1>4, <1>5, <1>6, <1>7, <1>8, <1>9, <1>11, <1>12, <1>13, <1>14, <1>15, <1>16,
     <1>17, <1>18, <1>19, <1>20 DEF Next, EditStep, DriverStep

-------------------------------------------------------------------------------
(***************************************************************************)
(* As long as nobody interferes, the one edit that runs has every          *)
(* acknowledged edit in its draft, and so has the file, and the snapshot   *)
(* once it is loaded.                                                      *)
(***************************************************************************)
Acked == {e \in Edits : At(e, "acked")}

CalmInv ==
  calm =>
    /\ \A e \in Edits : ~edit[e].orphan
    /\ Acked \subseteq file.settings
    /\ store # "down" => Acked \subseteq snapshot
    /\ \A e \in Edits : Running(e) => Acked \cup {e} \subseteq edit[e].draft
    /\ \A e \in Edits : InPlace(e) => file = Toml(edit[e].draft)

LEMMA CalmInit == Init => CalmInv
<1> SUFFICES ASSUME Init PROVE CalmInv
  OBVIOUS
<1>1. Acked = {}
  BY DEF Init, Acked, At, NewEdit
<1> QED  BY <1>1 DEF Init, CalmInv, NewEdit, Running, InFlight, InPlace

LEMMA CalmStep ==
  ASSUME NoEditIsNone, TypeInv, TypeInv', CalmInv, [Next]_vars
  PROVE  CalmInv'
<1> SUFFICES ASSUME calm, calm' PROVE CalmInv'
  <2>1. ~calm => ~calm'
    BY DEF Next, vars, LoadRead, SpawnWatcher, Close, EditBegin, EditStep, EditFails, Cancel,
           WriteTemp, Rename, SyncDir, Publish, OrphanEnds, DriverStep, StartReload, ReloadRead,
           ReloadUnchanged, ReloadDiffers, ReloadPublish, ExternalWrite, Kill, PowerLoss
  <2> QED  BY <2>1 DEF CalmInv
<1> USE DEF TypeInv, TypeOK, CalmInv, Acked, At, Goto, InPlace, Running, InFlight, NoEditIsNone
<1>1. CASE LoadRead
  BY <1>1, ContentsType DEF LoadRead, Default
<1>2. CASE SpawnWatcher \/ Close
  BY <1>2 DEF SpawnWatcher, Close
<1>4. ASSUME NEW e \in Edits, EditBegin(e) PROVE CalmInv'
  <2>1. Acked' = Acked /\ Acked \subseteq snapshot
    BY <1>4, BeginEffect DEF EditBegin
  <2>2. ASSUME NEW d \in Edits
        PROVE  /\ ~edit'[d].orphan
               /\ Running(d)' => Acked \cup {d} \subseteq edit'[d].draft
               /\ InPlace(d)' => file = Toml(edit'[d].draft)
    <3>1. CASE d = e
      BY <1>4, <2>1, <3>1, BeginEffect
    <3>2. CASE d # e
      BY <1>4, <2>1, <3>2, BeginEffect
    <3> QED  BY <3>1, <3>2
  <2> HIDE DEF Acked
  <2> QED  BY <1>4, <2>1, <2>2 DEF EditBegin
<1>5. ASSUME NEW e \in Edits, WriteTemp(e) PROVE CalmInv'
  BY <1>5 DEF WriteTemp, EditRecords
<1>6. ASSUME NEW e \in Edits, Rename(e) PROVE CalmInv'
  <2>1. file' = Toml(edit[e].draft) /\ file'.settings = edit[e].draft
    BY <1>6, TomlType DEF Rename, Replaced, EditRecords
  <2> QED  BY <1>6, <2>1 DEF Rename, EditRecords
<1>7. ASSUME NEW e \in Edits, SyncDir(e) PROVE CalmInv'
  BY <1>7 DEF SyncDir, EditRecords
<1>8. ASSUME NEW e \in Edits, Publish(e) PROVE CalmInv'
  <2>1. file = Toml(edit[e].draft) /\ file.settings = edit[e].draft
    BY <1>8, TomlType DEF Publish, EditRecords
  <2> QED  BY <1>8, <2>1 DEF Publish, EditRecords
<1>9. ASSUME NEW e \in Edits, OrphanEnds(e) \/ EditFails(e) PROVE CalmInv'
  BY <1>9 DEF OrphanEnds, EditFails, EditRecords
<1>11. ASSUME NEW e \in Edits, Cancel(e) PROVE CalmInv'
  BY <1>11 DEF Cancel
<1>12. CASE StartReload \/ ReloadRead \/ ReloadDiffers
  BY <1>12 DEF StartReload, ReloadRead, ReloadDiffers
<1>14. CASE ReloadUnchanged
  BY <1>14, OvertakeEffect DEF ReloadUnchanged
<1>16. CASE ReloadPublish
  <2>1. file.settings = reload.text
    BY <1>16, TomlType DEF ReloadPublish
  <2> QED  BY <1>16, <2>1, OvertakeEffect DEF ReloadPublish
<1>17. ASSUME NEW w \in Writes, ExternalWrite(w) PROVE CalmInv'
  BY <1>17 DEF ExternalWrite
<1>18. CASE Kill
  BY <1>18, GoneEffect DEF Kill, ProcessGone
<1>19. CASE PowerLoss
  BY <1>19, GoneEffect DEF PowerLoss, ProcessGone
<1>20. CASE UNCHANGED vars
  BY <1>20 DEF vars
<1> QED
  BY <1>1, <1>2, <1>4, <1>5, <1>6, <1>7, <1>8, <1>9, <1>11, <1>12, <1>14, <1>16, <1>17, <1>18,
     <1>19, <1>20 DEF Next, EditStep, DriverStep

-------------------------------------------------------------------------------
(***************************************************************************)
(* When the snapshot is stale, something is under way that will refresh    *)
(* it: an event, or a reload, which has read what the file holds unless    *)
(* another event has come in since.  An edit that has renamed its file and *)
(* has not been overtaken left such an event behind.                       *)
(***************************************************************************)
UnderWay == events \/ reload.pc # "idle"

FreshInv ==
  /\ holder # NoEdit \/ reload.pc # "idle" => store = "up"
  /\ reload.pc \in {"compare", "publish"} =>
       events \/ (Parses(file) /\ reload.text = file.settings)
  /\ \A e \in Edits :
       InPlace(e) /\ ~edit[e].orphan /\ ~edit[e].overtaken /\ Parses(file) => UnderWay
  /\ store = "loading" /\ Parses(file) /\ ~gap => snapshot = file.settings
  /\ store = "up" /\ Parses(file) /\ ~raced /\ ~gap => snapshot = file.settings \/ UnderWay

LEMMA FreshInit == Init => FreshInv
  BY DEF Init, FreshInv, NewEdit, IdleReload, InPlace

(***************************************************************************)
(* While the store is up the watcher is told that the file has changed.    *)
(***************************************************************************)
LEMMA ReplacedTells ==
  ASSUME NoEditIsNone, TypeInv, FreshInv, NEW content, Replaced(content)
  PROVE  /\ \A e \in Edits : InPlace(e) /\ ~edit[e].orphan => events'
         /\ store = "up" => events'
         /\ reload.pc # "idle" => events'
         /\ store = "loading" => gap'
<1>1. \A e \in Edits : InPlace(e) /\ ~edit[e].orphan => holder = e /\ holder \in Edits
  BY DEF TypeInv, TypeOK, InPlace, Running, InFlight
<1> QED  BY <1>1 DEF Replaced, FreshInv, NoEditIsNone

LEMMA FreshStep ==
  ASSUME NoEditIsNone, TypeInv, TypeInv', FreshInv, [Next]_vars
  PROVE  FreshInv'
<1> USE DEF TypeInv, TypeOK, FreshInv, UnderWay, InPlace, At, Goto, Running, InFlight, NoEditIsNone
<1>1. CASE LoadRead
  BY <1>1 DEF LoadRead
<1>2. CASE SpawnWatcher
  BY <1>2 DEF SpawnWatcher
<1>3. CASE Close
  BY <1>3 DEF Close
<1>4. ASSUME NEW e \in Edits, EditBegin(e) PROVE FreshInv'
  BY <1>4, BeginEffect DEF EditBegin
<1>5. ASSUME NEW e \in Edits, WriteTemp(e) PROVE FreshInv'
  BY <1>5 DEF WriteTemp, EditRecords
<1>6. ASSUME NEW e \in Edits, Rename(e) PROVE FreshInv'
  <2>1. Replaced(Toml(edit[e].draft)) /\ UNCHANGED <<store, snapshot, holder, reload, raced>>
    BY <1>6 DEF Rename
  <2>2. \A d \in Edits : InPlace(d)' /\ ~edit'[d].orphan =>
          (InPlace(d) \/ d = e) /\ ~edit[d].orphan
    BY <1>6 DEF Rename, EditRecords
  <2>3. ~edit[e].orphan => store = "up"
    BY <1>6 DEF Rename
  <2> HIDE DEF InPlace, TypeInv, Running
  <2>4. store = "up" \/ reload.pc # "idle" => events'
    BY <2>1, ReplacedTells
  <2>5. \A d \in Edits : InPlace(d)' /\ ~edit'[d].orphan => events'
    BY <2>1, <2>2, <2>3, <2>4, ReplacedTells
  <2>6. store = "loading" => gap'
    BY <2>1, ReplacedTells
  <2> QED  BY <2>1, <2>4, <2>5, <2>6
<1>7. ASSUME NEW e \in Edits, SyncDir(e) PROVE FreshInv'
  BY <1>7 DEF SyncDir, EditRecords
<1>8. ASSUME NEW e \in Edits, Publish(e) PROVE FreshInv'
  BY <1>8 DEF Publish, EditRecords
<1>9. ASSUME NEW e \in Edits, OrphanEnds(e) PROVE FreshInv'
  BY <1>9 DEF OrphanEnds, EditRecords
<1>10. ASSUME NEW e \in Edits, EditFails(e) PROVE FreshInv'
  BY <1>10 DEF EditFails, EditRecords
<1>11. ASSUME NEW e \in Edits, Cancel(e) PROVE FreshInv'
  BY <1>11 DEF Cancel, EditRecords
<1>12. CASE StartReload
  BY <1>12 DEF StartReload
<1>13. CASE ReloadRead
  BY <1>13 DEF ReloadRead, IdleReload
<1>14. CASE ReloadUnchanged
  BY <1>14, OvertakeEffect DEF ReloadUnchanged, IdleReload
<1>15. CASE ReloadDiffers
  BY <1>15 DEF ReloadDiffers
<1>16. CASE ReloadPublish
  BY <1>16, OvertakeEffect DEF ReloadPublish, IdleReload
<1>17. ASSUME NEW w \in Writes, ExternalWrite(w) PROVE FreshInv'
  <2>1. PICK content : Replaced(content)
    BY <1>17 DEF ExternalWrite
  <2>2. UNCHANGED <<store, snapshot, holder, edit, reload, raced>>
    BY <1>17 DEF ExternalWrite
  <2>3. \A e \in Edits : InPlace(e)' /\ ~edit'[e].orphan => InPlace(e) /\ ~edit[e].orphan
    BY <2>2
  <2> HIDE DEF InPlace, TypeInv, Running
  <2>4. store = "up" \/ reload.pc # "idle" => events'
    BY <2>1, ReplacedTells
  <2>5. \A e \in Edits : InPlace(e)' /\ ~edit'[e].orphan => events'
    BY <2>1, <2>3, ReplacedTells
  <2>6. store = "loading" => gap'
    BY <2>1, ReplacedTells
  <2> QED  BY <2>2, <2>4, <2>5, <2>6
<1>18. CASE Kill
  BY <1>18, GoneEffect DEF Kill, ProcessGone, IdleReload
<1>19. CASE PowerLoss
  BY <1>19, GoneEffect DEF PowerLoss, ProcessGone, IdleReload
<1>20. CASE UNCHANGED vars
  BY <1>20 DEF vars
<1> QED
  BY <1>1, <1>2, <1>3, <1>4, <1>5, <1>6, <1>7, <1>8, <1>9, <1>10, <1>11, <1>12, <1>13, <1>14,
     <1>15, <1>16, <1>17, <1>18, <1>19, <1>20 DEF Next, EditStep, DriverStep

-------------------------------------------------------------------------------
(***************************************************************************)
(* The inductive invariant of the store, and the properties it implies.    *)
(***************************************************************************)
IInv == TypeInv /\ DiskInv /\ CalmInv /\ FreshInv

LEMMA InitIInv == NoEditIsNone /\ Init => IInv
  BY TypeInit, DiskInit, CalmInit, FreshInit DEF IInv

LEMMA StepIInv == ASSUME NoEditIsNone, IInv, [Next]_vars PROVE IInv'
<1>1. TypeInv'
  BY TypeStep DEF IInv
<1> QED  BY <1>1, DiskStep, CalmStep, FreshStep DEF IInv

LEMMA IInvImplies ==
  IInv => /\ TypeOK /\ RestartFindsWholeFile /\ PublishedWasOnDisk
          /\ CalmEditsSurvive /\ SnapshotFresh
<1> SUFFICES ASSUME IInv PROVE /\ TypeOK /\ RestartFindsWholeFile /\ PublishedWasOnDisk
                               /\ CalmEditsSurvive /\ SnapshotFresh
  OBVIOUS
<1>1. RestartFindsWholeFile
  BY DEF IInv, DiskInv, RestartFindsWholeFile
<1>2. PublishedWasOnDisk
  BY DEF IInv, DiskInv, PublishedWasOnDisk
<1>3. CalmEditsSurvive
  BY DEF IInv, CalmInv, CalmEditsSurvive, Acked
<1>4. SnapshotFresh
  BY DEF IInv, FreshInv, SnapshotFresh, Settled, UnderWay
<1> QED  BY <1>1, <1>2, <1>3, <1>4 DEF IInv, TypeInv

THEOREM StoreInvariant == ASSUME NoEditIsNone PROVE Spec => []IInv
<1>1. Init => IInv
  BY InitIInv
<1>2. IInv /\ [Next]_vars => IInv'
  BY StepIInv
<1> QED  BY <1>1, <1>2, PTL DEF Spec

(***************************************************************************)
(* The types of the store, and the lock: an edit that is neither cancelled *)
(* nor finished holds it, so that two never run (edit's write_lock).       *)
(***************************************************************************)
THEOREM TypeCorrect == ASSUME NoEditIsNone PROVE Spec => []TypeOK
  BY StoreInvariant, IInvImplies, PTL

(***************************************************************************)
(* A restart finds a whole file, also after a power cut between any two    *)
(* steps of write_atomically.                                              *)
(***************************************************************************)
THEOREM RestartCorrect == ASSUME NoEditIsNone PROVE Spec => []RestartFindsWholeFile
  BY StoreInvariant, IInvImplies, PTL

(***************************************************************************)
(* Nothing is published that was not on disk before (edit,                 *)
(* perform_reload).                                                        *)
(***************************************************************************)
THEOREM PublishedCorrect == ASSUME NoEditIsNone PROVE Spec => []PublishedWasOnDisk
  BY StoreInvariant, IInvImplies, PTL

(***************************************************************************)
(* Undisturbed, an acknowledged edit stays, through reloads of its own     *)
(* writes, failures of other edits and deaths of the process.              *)
(***************************************************************************)
THEOREM CalmCorrect == ASSUME NoEditIsNone PROVE Spec => []CalmEditsSurvive
  BY StoreInvariant, IInvImplies, PTL

(***************************************************************************)
(* A snapshot that no event and no reload is about to refresh is the       *)
(* file's, the two windows apart that SnapshotFresh names.                 *)
(***************************************************************************)
THEOREM SnapshotCorrect == ASSUME NoEditIsNone PROVE Spec => []SnapshotFresh
  BY StoreInvariant, IInvImplies, PTL
===============================================================================
