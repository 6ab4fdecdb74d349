----------------------------- MODULE ThemeStore -----------------------------
(***************************************************************************)
(* The theme store (theme/src/lib.rs) and the per-window theme cache       *)
(* (theme/src/iced_bridge.rs).  `new` reads the directory of custom themes *)
(* and then starts a watcher; the watcher's driver thread reads the whole  *)
(* directory again after every change, publishes the themes and the        *)
(* diagnostics one after the other, and tells subscribers what changed,    *)
(* theme by theme.  set_active_theme is called from another thread and     *)
(* shares the active theme with the driver under a lock that neither holds *)
(* from its read to its write or from its write to its message.            *)
(*                                                                         *)
(* A theme is an identifier and a look (all of its other fields).          *)
(* Identifiers are numbers in the alphabetical order of the slugs, which   *)
(* is the order of the announcements.  Directories that cannot be listed   *)
(* read as empty in the code and are not distinguished from empty ones.    *)
(***************************************************************************)
EXTENDS Naturals, FiniteSets

CONSTANTS
  File, Id, Look, Bundled, None, NoFile, Broken,
  Initially, \* the directories a run may start with
  Saved,     \* what other programs save in it
  MaxSaves, MaxSets

ASSUME IdAssumption == Id \subseteq Nat /\ Bundled \subseteq Id
ASSUME DistinctAssumption == None \notin Id \cup Look /\ NoFile # Broken
ASSUME BoundsAssumption == MaxSaves \in Nat /\ MaxSets \in Nat

VARIABLES
  dir,         \* the directory: what each .toml file holds
  event,       \* a change of the directory the driver has not yet taken up
  custom,      \* ThemeStore::custom: the look of each custom theme
  diagnostics, \* ThemeStore::diagnostics: the files that did not parse
  active,      \* ThemeStore::active_theme
  watcher,     \* "unset" inside `new`, "on", "failed", "closing", "closed"
  pc,          \* where the driver thread is
  unread,      \* files listed and not read yet
  old,         \* the themes before this reload
  new,         \* the themes read so far
  broken,      \* the files of this reload that did not parse
  left,        \* identifiers still to be announced
  mirror,      \* a subscriber that fetches each theme it is told of
  toldActive,  \* the payload of the last ActiveThemeChanged
  inbox,       \* ActiveThemeChanged messages the window has not handled
  window,      \* WindowThemeState, and the step of its refresh
  sending,     \* what set_active_theme has written and not sent: a set of at most one
  chosen,      \* history: the last choice, or None once its theme is deleted
  raced,       \* history: a choice met the driver between read and message
  unknown,     \* history: the last choice named no custom theme
  blind,       \* history: a custom theme of the active id appeared
  gap,         \* history: the directory changed before it was watched
  saves, sets

disk   == <<dir, event, gap, saves>>
themes == <<custom, diagnostics>>
scan   == <<unread, old, new, broken, left>>
client == <<mirror, toldActive>>
screen == <<inbox, window>>
user   == <<sending, chosen, raced, unknown, sets>>
vars   == <<disk, themes, active, watcher, pc, scan, client, screen, user, blind>>

Theme    == [id : Id, look : Look]
Contents == Theme \cup {NoFile, Broken}
Choice   == Id \cup {None}
Dirs     == [File -> Contents]
Looks    == [Id -> Look \cup {None}]
NoThemes == [id \in Id |-> None]
ASSUME DirAssumption == Initially \subseteq Dirs /\ Saved \subseteq Contents

Present(d) == {f \in File : d[f] # NoFile}

-----------------------------------------------------------------------------
(***************************************************************************)
(* ThemeStore::get and list: a custom theme hides the bundled one of its   *)
(* identifier.  What a window shows for an active theme and a map of       *)
(* custom themes; an unknown theme gives the fallback.                     *)
(***************************************************************************)
Shown(is, of) == [is |-> is, of |-> of]
Fallback == Shown("fallback", None)

Get(themesRead, id) ==
  IF id \in Id /\ themesRead[id] # None THEN Shown("custom", themesRead[id])
  ELSE IF id \in Bundled THEN Shown("bundled", id) ELSE Fallback

(***************************************************************************)
(* `new` before it reads: load_custom has listed the directory.            *)
(***************************************************************************)
Init ==
  /\ dir \in Initially
  /\ event = FALSE /\ gap = FALSE /\ saves = 0
  /\ custom = NoThemes /\ diagnostics = {} /\ active = None
  /\ watcher = "unset" /\ pc = "reading"
  /\ unread = Present(dir) /\ old = NoThemes /\ new = NoThemes
  /\ broken = {} /\ left = {}
  /\ mirror = NoThemes /\ toldActive = None
  /\ inbox = 0 /\ window = [at |-> "calm", id |-> None, shown |-> Fallback]
  /\ sending = {} /\ chosen = None /\ raced = FALSE /\ unknown = FALSE
  /\ sets = 0 /\ blind = FALSE

(***************************************************************************)
(* Another program saves, breaks or removes a theme file.  An editor that  *)
(* truncates the file first is two saves, the first one Broken.            *)
(***************************************************************************)
Save(f, content) ==
  /\ saves < MaxSaves /\ dir[f] # content
  /\ dir' = [dir EXCEPT ![f] = content]
  /\ saves' = saves + 1
  /\ event' = (event \/ watcher = "on")
  /\ gap' = (gap \/ watcher = "unset")
  /\ UNCHANGED <<themes, active, watcher, pc, scan, client, screen, user, blind>>

-----------------------------------------------------------------------------
(***************************************************************************)
(* The driver takes an event, lets the debounce window swallow the ones    *)
(* that follow, copies the themes it has and lists the directory.          *)
(***************************************************************************)
StartReload ==
  /\ pc = "idle" /\ event
  /\ event' = FALSE /\ gap' = FALSE
  /\ pc' = "reading"
  /\ unread' = Present(dir) /\ old' = custom
  /\ UNCHANGED <<dir, saves, themes, active, watcher, new, broken, left, client, screen,
                 user, blind>>

(***************************************************************************)
(* load_custom reads and parses one listed file, in directory order, which *)
(* is any order.  A file gone meanwhile is a diagnostic like a broken one; *)
(* of two files with one identifier the later one wins.                    *)
(***************************************************************************)
ReadFile(f) ==
  /\ pc = "reading" /\ f \in unread
  /\ unread' = unread \ {f}
  /\ IF dir[f] \in Theme
     THEN new' = [new EXCEPT ![dir[f].id] = dir[f].look] /\ UNCHANGED broken
     ELSE broken' = broken \cup {f} /\ UNCHANGED new
  /\ UNCHANGED <<disk, themes, active, watcher, pc, old, left, client, screen,
                 user, blind>>

(***************************************************************************)
(* `new` has read the directory: the store's fields get their first        *)
(* values, and spawn_theme_watcher starts the watcher or fails, after      *)
(* which the store never reads the directory again.  The subscriber and    *)
(* the window start from the store as it is then.                          *)
(***************************************************************************)
Load ==
  /\ pc = "reading" /\ unread = {} /\ watcher = "unset"
  /\ custom' = new /\ diagnostics' = broken /\ mirror' = new
  /\ new' = NoThemes /\ broken' = {} /\ pc' = "idle"
  /\ UNCHANGED <<disk, active, watcher, unread, old, left, toldActive, screen, user,
                 blind>>

StartWatcher ==
  /\ pc = "idle" /\ watcher = "unset"
  /\ watcher' \in {"on", "failed"}
  /\ UNCHANGED <<disk, themes, active, pc, scan, client, screen, user, blind>>

(***************************************************************************)
(* reload_themes replaces the themes, then, under another lock, the        *)
(* diagnostics, and works out what to announce.                            *)
(***************************************************************************)
Publish ==
  /\ pc = "reading" /\ unread = {} /\ watcher # "unset"
  /\ custom' = new
  /\ blind' = (blind \/ (active \in Id /\ old[active] = None /\ new[active] # None))
  /\ pc' = "published"
  /\ UNCHANGED <<disk, diagnostics, active, watcher, scan, client, screen, user>>

(***************************************************************************)
(* Mutation of PublishDiagnostics: themes that stay under their identifier *)
(* are not compared.                                                       *)
(***************************************************************************)
PublishDiagnosticsByName ==
  /\ pc = "published"
  /\ diagnostics' = broken
  /\ left' = {id \in Id : (old[id] = None) # (new[id] = None)}
  /\ pc' = "announcing"
  /\ UNCHANGED <<disk, custom, active, watcher, unread, old, new, broken, client,
                 screen, user, blind>>

PublishDiagnostics ==
  /\ pc = "published"
  /\ diagnostics' = broken
  /\ left' = {id \in Id : old[id] # new[id]}
  /\ pc' = "announcing"
  /\ UNCHANGED <<disk, custom, active, watcher, unread, old, new, broken, client,
                 screen, user, blind>>

(***************************************************************************)
(* The announcements in their order: created, reloaded, deleted, each      *)
(* alphabetically.                                                         *)
(***************************************************************************)
Rank(id) == IF old[id] = None THEN 0 ELSE IF new[id] # None THEN 1 ELSE 2
First(id) ==
  /\ id \in left
  /\ \A other \in left :
       Rank(id) < Rank(other) \/ (Rank(id) = Rank(other) /\ id <= other)

(***************************************************************************)
(* The driver sends Created, Reloaded or Deleted.  After Reloaded and      *)
(* Deleted it looks at the active theme.                                   *)
(***************************************************************************)
Announce(id) ==
  /\ pc = "announcing" /\ First(id)
  /\ mirror' = [mirror EXCEPT ![id] = custom[id]]
  /\ IF Rank(id) = 0 THEN left' = left \ {id} /\ UNCHANGED pc
                     ELSE pc' = "checking" /\ UNCHANGED left
  /\ UNCHANGED <<disk, themes, active, watcher, unread, old, new, broken,
                 toldActive, screen, user, blind>>

(***************************************************************************)
(* Mutation of CheckActive: whatever theme is active counts as the deleted *)
(* one.                                                                    *)
(***************************************************************************)
CheckActiveAny(id) ==
  /\ pc = "checking" /\ First(id)
  /\ pc' = IF Rank(id) = 1 THEN "retelling" ELSE "resetting"
  /\ raced' = (raced \/ sending # {})
  /\ UNCHANGED <<disk, themes, active, watcher, scan, client, screen, sending, chosen,
                 unknown, sets, blind>>

(***************************************************************************)
(* It reads the active theme and releases the lock again.                  *)
(***************************************************************************)
CheckActive(id) ==
  /\ pc = "checking" /\ First(id)
  /\ IF active = id
     THEN /\ pc' = IF Rank(id) = 1 THEN "retelling" ELSE "resetting"
          /\ raced' = (raced \/ sending # {})
          /\ chosen' = IF Rank(id) = 1 THEN chosen ELSE None
          /\ UNCHANGED left
     ELSE /\ pc' = "announcing" /\ left' = left \ {id}
          /\ UNCHANGED <<raced, chosen>>
  /\ UNCHANGED <<disk, themes, active, watcher, unread, old, new, broken, client,
                 screen, sending, unknown, sets, blind>>

(***************************************************************************)
(* Mutation of RetellActive: a reloaded active theme is announced as       *)
(* Reloaded only.                                                          *)
(***************************************************************************)
RetellActiveSilently(id) ==
  /\ pc = "retelling" /\ First(id)
  /\ pc' = "announcing" /\ left' = left \ {id}
  /\ UNCHANGED <<disk, themes, active, watcher, unread, old, new, broken, client,
                 screen, user, blind>>

(***************************************************************************)
(* A reloaded theme that was active: ActiveThemeChanged is sent again.     *)
(***************************************************************************)
RetellActive(id) ==
  /\ pc = "retelling" /\ First(id)
  /\ toldActive' = id /\ inbox' = inbox + 1
  /\ pc' = "announcing" /\ left' = left \ {id}
  /\ UNCHANGED <<disk, themes, active, watcher, unread, old, new, broken, mirror,
                 window, user, blind>>

(***************************************************************************)
(* A deleted theme that was active: the active theme becomes None, and     *)
(* after that subscribers are told.                                        *)
(***************************************************************************)
ResetActive ==
  /\ pc = "resetting"
  /\ active' = None
  /\ pc' = "telling"
  /\ UNCHANGED <<disk, themes, watcher, scan, client, screen, user, blind>>

TellReset(id) ==
  /\ pc = "telling" /\ First(id)
  /\ toldActive' = None /\ inbox' = inbox + 1
  /\ pc' = "announcing" /\ left' = left \ {id}
  /\ UNCHANGED <<disk, themes, active, watcher, unread, old, new, broken, mirror,
                 window, user, blind>>

(***************************************************************************)
(* Mutation of EndReload: events that arrived during the reload are        *)
(* discarded with it.                                                      *)
(***************************************************************************)
EndReloadDrains ==
  /\ pc = "announcing" /\ left = {}
  /\ event' = FALSE
  /\ pc' = "idle" /\ old' = NoThemes /\ new' = NoThemes /\ broken' = {}
  /\ UNCHANGED <<dir, gap, saves, themes, active, watcher, unread, left, client, screen,
                 user, blind>>

EndReload ==
  /\ pc = "announcing" /\ left = {}
  /\ pc' = "idle" /\ old' = NoThemes /\ new' = NoThemes /\ broken' = {}
  /\ UNCHANGED <<disk, themes, active, watcher, unread, left, client, screen, user,
                 blind>>

-----------------------------------------------------------------------------
(***************************************************************************)
(* set_active_theme: writes whatever it is given, unchecked, and sends it  *)
(* after the lock is released.                                             *)
(***************************************************************************)
Serving == watcher \in {"on", "failed"}

SetActive(id) ==
  /\ Serving /\ sending = {} /\ sets < MaxSets
  /\ active' = id /\ chosen' = id
  /\ sending' = {id} /\ sets' = sets + 1
  /\ raced' = (raced \/ pc \in {"resetting", "telling", "retelling"})
  /\ unknown' = (id \in Id /\ custom[id] = None)
  /\ UNCHANGED <<disk, themes, watcher, pc, scan, client, screen, blind>>

SendActive(id) ==
  /\ id \in sending
  /\ sending' = {}
  /\ toldActive' = id /\ inbox' = inbox + 1
  /\ UNCHANGED <<disk, themes, active, watcher, pc, scan, mirror, window, chosen,
                 raced, unknown, sets, blind>>

(***************************************************************************)
(* WindowThemeState::apply_theme_change on an ActiveThemeChanged: the      *)
(* message's payload is ignored, the window asks the store for the active  *)
(* theme and then for its look.  The other messages change nothing.        *)
(***************************************************************************)
Refresh ==
  /\ Serving /\ window.at = "calm" /\ inbox > 0
  /\ inbox' = inbox - 1
  /\ window' = [window EXCEPT !.at = "asked", !.id = active]
  /\ UNCHANGED <<disk, themes, active, watcher, pc, scan, client, user, blind>>

Redraw ==
  /\ window.at = "asked"
  /\ window' = [at |-> "calm", id |-> None, shown |-> Get(custom, window.id)]
  /\ blind' = FALSE
  /\ UNCHANGED <<disk, themes, active, watcher, pc, scan, client, inbox, user>>

(***************************************************************************)
(* Dropping the store: the watcher goes, which ends the driver's wait and  *)
(* discards the event it was debouncing; a reload under way is finished,   *)
(* and drop joins the thread.                                              *)
(***************************************************************************)
Drop ==
  /\ Serving /\ sending = {} /\ window.at = "calm"
  /\ watcher' = "closing" /\ event' = FALSE
  /\ UNCHANGED <<dir, gap, saves, themes, active, pc, scan, client, screen, user,
                 blind>>

(***************************************************************************)
(* Mutation of Joined: the thread is joined before the watcher is dropped, *)
(* and waits for an event.                                                 *)
(***************************************************************************)
JoinedFirst ==
  /\ watcher = "closing" /\ pc = "idle" /\ event
  /\ watcher' = "closed"
  /\ UNCHANGED <<disk, themes, active, pc, scan, client, screen, user, blind>>

Joined ==
  /\ watcher = "closing" /\ pc = "idle"
  /\ watcher' = "closed"
  /\ UNCHANGED <<disk, themes, active, pc, scan, client, screen, user, blind>>

-----------------------------------------------------------------------------
Driver ==
  \/ StartReload \/ \E f \in File : ReadFile(f)
  \/ Load \/ StartWatcher \/ Publish \/ PublishDiagnostics
  \/ \E id \in Id : Announce(id) \/ CheckActive(id) \/ RetellActive(id) \/ TellReset(id)
  \/ ResetActive \/ EndReload \/ Joined

Next ==
  \/ Driver
  \/ \E f \in File, content \in Saved : Save(f, content)
  \/ \E id \in Choice : SetActive(id) \/ SendActive(id)
  \/ Refresh \/ Redraw \/ Drop

(***************************************************************************)
(* The threads run: the driver, a setter inside set_active_theme, and the  *)
(* window's loop.  Nobody has to save a file, choose a theme or drop the   *)
(* store.                                                                  *)
(***************************************************************************)
Fairness ==
  WF_vars(Driver) /\ WF_vars(\E id \in Choice : SendActive(id)) /\ WF_vars(Refresh \/ Redraw)

Spec == Init /\ [][Next]_vars /\ Fairness

-----------------------------------------------------------------------------
TypeOK ==
  /\ dir \in Dirs
  /\ custom \in Looks /\ diagnostics \subseteq File /\ active \in Choice
  /\ watcher \in {"unset", "on", "failed", "closing", "closed"}
  /\ pc \in {"reading", "idle", "published", "announcing", "checking", "retelling",
             "resetting", "telling"}
  /\ unread \subseteq File /\ broken \subseteq File /\ left \subseteq Id
  /\ old \in Looks /\ new \in Looks /\ mirror \in Looks
  /\ toldActive \in Choice /\ chosen \in Choice
  /\ inbox \in Nat
  /\ window \in [at : {"calm", "asked"}, id : Choice,
                  shown : [is : {"custom", "bundled", "fallback"}, of : Look \cup Choice]]
  /\ sending \subseteq Choice /\ {raced, unknown, blind, gap, event} \subseteq BOOLEAN
  /\ saves \in 0..MaxSaves /\ sets \in 0..MaxSets

(***************************************************************************)
(* A subscriber that fetches every theme it is told of holds exactly the   *)
(* store's custom themes once a reload is over: reload_themes forgets no   *)
(* identifier that appeared, changed or went away.                         *)
(***************************************************************************)
MirrorIsExact == pc = "idle" /\ watcher # "unset" => mirror = custom

(***************************************************************************)
(* Unless set_active_theme ran while the driver was between its look at    *)
(* the active theme and its message, the last choice is the active theme   *)
(* and the last message says so; a deletion of the chosen theme, and       *)
(* nothing else, takes it back.                                            *)
(***************************************************************************)
ChoiceSurvives ==
  ~raced /\ sending = {} /\ pc \notin {"resetting", "telling"}
    => active = chosen /\ (Serving => toldActive = active)

(***************************************************************************)
(* With every message handled a window shows the look of the active theme, *)
(* whatever the interleaving of driver, setter and window, and that is no  *)
(* fallback unless nothing or an unknown identifier was chosen: a deleted  *)
(* theme does not stay active (reload_themes, apply_theme_change).         *)
(* The one exception is in the code: a custom theme that appears under the *)
(* identifier of the active one is announced as Created only, and the      *)
(* window keeps the bundled look or the fallback.                          *)
(***************************************************************************)
WindowFollows ==
  pc = "idle" /\ Serving /\ sending = {} /\ inbox = 0 /\ window.at = "calm" /\ ~blind
    => /\ window.shown = Get(custom, active)
       /\ window.shown = Fallback => unknown \/ active = None

(***************************************************************************)
(* The watcher catches up: when saves end, themes and diagnostics agree    *)
(* with the files, unless no watcher runs or the directory changed between *)
(* the first read and the start of the watcher and not since.              *)
(***************************************************************************)
Agrees ==
  /\ diagnostics = {f \in File : dir[f] = Broken}
  /\ \A id \in Id :
       IF custom[id] = None THEN \A f \in File : dir[f] \in Theme => dir[f].id # id
       ELSE [id |-> id, look |-> custom[id]] \in {dir[f] : f \in File}
CatchesUp == <>[](watcher # "on" \/ gap \/ Agrees)

(***************************************************************************)
(* Dropping the store ends: the driver never needs what drop holds.        *)
(***************************************************************************)
DropReturns == watcher = "closing" ~> watcher = "closed"
=============================================================================
