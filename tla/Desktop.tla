------------------------------- MODULE Desktop -------------------------------
(***************************************************************************)
(* The parts behind the desktop shell: the settings store, the theme       *)
(* store, the system's appearance, the notification spine, log files, the  *)
(* command registry, the agent ledger, and the texts that users write (key *)
(* bindings, theme files and colours, network patterns).  The parts share  *)
(* no state; a behaviour explores one of them, `part` says which, and the  *)
(* variables of the others keep their first values.                        *)
(***************************************************************************)
EXTENDS ThemeStore, Sequences

CONSTANTS
  Edits, Writes, NoEdit, Disturbances,                       \* the settings store
  Thread, Capacity, Retention, LogFiles, Millis,             \* log files and dumps
  MaxDays, MaxStarts, MaxLogged,
  MaxChanges,                                                \* the appearance
  Recorder, Severities, LogCapacity, ChannelCapacity,        \* notifications
  MaxNotices,
  CommandId, Handler, Texts, CommandScopes, Filters,         \* commands
  Char, Numbered, Padded, MaxRegistrations,
  MaxU32, MaxClock, Deltas, Budgets, Policies,               \* the agent ledger
  Port, Hosts,                                               \* patterns
  UiTokens, SyntaxTokens, TerminalTokens, Wide,              \* theme files
  Written   \* what users write: a function from the kind of a text to a set of texts

VARIABLES
  part,
  file, stable, store, snapshot, holder, edit, fileEvents, reload, unused, onDisk, overtaken,
  loadGap, calm,
  today, logDir, process, cutoff, unpruned, starts, recent, total, last, flushing, panics, dumps,
  crashed,
  system, changes, appearance, polling, settings, resolved, subscribed, mail, painted, missed,
  log, told, writing, recorded, consumer, next, lagged, state,
  entries, pressed, registrations,
  budget, usage, policy, tool,
  question \* of the part "texts": a set of at most one

fileVars == <<file, stable, store, snapshot, holder, edit, fileEvents, reload, unused, onDisk,
              overtaken, loadGap, calm>>
logVars  == <<today, logDir, process, cutoff, unpruned, starts, recent, total, last, flushing,
              panics, dumps, crashed>>
appearanceVars == <<system, changes, appearance, polling, settings, resolved, subscribed, mail,
                    painted, missed>>
noticeVars     == <<log, told, writing, recorded, consumer, next, lagged, state>>
commandVars    == <<entries, pressed, registrations>>
agentVars      == <<budget, usage, policy, tool>>
allVars == <<part, vars, fileVars, logVars, appearanceVars, noticeVars, commandVars, agentVars,
             question>>

ASSUME StoreAssumption  == NoEdit \notin Edits
ASSUME LogAssumption    == Capacity \in Nat \ {0}
ASSUME NoticeAssumption == LogCapacity \in Nat /\ ChannelCapacity \in Nat

Files == INSTANCE SettingsStore WITH
  events <- fileEvents, raced <- overtaken, gap <- loadGap
Logs == INSTANCE FileLogging WITH
  Initially <- LogFiles, MaxEvents <- MaxLogged, dir <- logDir, writing <- flushing
Appearances == INSTANCE ActiveTheme WITH active <- resolved, inbox <- mail
Notices    == INSTANCE Notifications WITH MaxEvents <- MaxNotices
Commands   == INSTANCE Commands WITH NoHandler <- None
Agents     == INSTANCE Agents
Keys       == INSTANCE KeyBindings
Policy     == INSTANCE Sandbox
ThemeFiles == INSTANCE ThemeFile

ASSUME LedgerAssumption == Agents!Typed

(***************************************************************************)
(* Texts are sequences of tokens.  A command's default binding is a        *)
(* KeyBinding, so what it is written as is one; a host is never empty, and *)
(* has neither a wildcard nor a colon.                                     *)
(***************************************************************************)
ASSUME TextAssumption ==
  /\ Keys!Lexical /\ ThemeFiles!Lexical
  /\ \A text \in UNION Texts :
       text \in Seq(STRING) /\ text # <<>> /\ Keys!Parse(text).error = "none"
  /\ \A texts \in Texts : \A text \in texts : texts = {text}
  /\ Port \cap {"Any", "error", "*", ":"} = {}
  /\ \A host \in Hosts : /\ host \in Seq(STRING) /\ host # <<>>
                         /\ \A i \in DOMAIN host : host[i] \notin {"*", ":"}
  /\ DOMAIN Written = {"keys", "color", "theme", "pattern"}
  /\ \A text \in Written["keys"] : text \in Seq(STRING) /\ text # <<>>
  /\ Written["color"] \subseteq ThemeFiles!ColorText
  /\ Written["theme"] \subseteq ThemeFiles!ThemeText
  /\ Written["pattern"] \subseteq Seq(STRING)

-----------------------------------------------------------------------------
(***************************************************************************)
(* Parts that are not explored stand still: the store is closed and nobody *)
(* polls, so that no fairness asks for a step of theirs.                   *)
(***************************************************************************)
ThemesIdle ==
  /\ dir = [f \in File |-> NoFile] /\ event = FALSE /\ gap = FALSE /\ saves = 0
  /\ custom = NoThemes /\ diagnostics = {} /\ active = None
  /\ watcher = "closed" /\ pc = "idle"
  /\ unread = {} /\ old = NoThemes /\ new = NoThemes /\ broken = {} /\ left = {}
  /\ mirror = NoThemes /\ toldActive = None
  /\ inbox = 0 /\ window = [at |-> "calm", id |-> None, shown |-> Fallback]
  /\ sending = {} /\ chosen = None /\ raced = FALSE /\ unknown = FALSE
  /\ sets = 0 /\ blind = FALSE

AppearancesIdle ==
  /\ system = "Light" /\ appearance = system /\ changes = 0
  /\ polling = [at |-> "never", detected |-> "Light"]
  /\ settings = [mode |-> "Dark", light |-> "day", dark |-> "night"]
  /\ resolved = {} /\ painted = {} /\ subscribed = FALSE /\ missed = FALSE /\ mail = <<>>

AgentsIdle ==
  /\ budget = CHOOSE b \in Budgets : TRUE
  /\ policy = CHOOSE p \in Policies : TRUE
  /\ usage = [input |-> 0, output |-> 0, cached |-> 0, turn_count |-> 0, tool_call_count |-> 0,
              started_at |-> 0, last_event_at |-> 0]
  /\ Agents!Init

DesktopInit ==
  /\ Files!Init /\ Logs!Init /\ Notices!Init /\ Commands!Init /\ question = {}
  /\ part = "settings" \/ file = Files!Absent
  /\ part = "logs" \/ logDir = {}
  /\ \/ part = "themes" /\ Init /\ AppearancesIdle /\ AgentsIdle
     \/ part = "appearance" /\ Appearances!Init /\ ThemesIdle /\ AgentsIdle
     \/ part = "agents" /\ Agents!Init /\ ThemesIdle /\ AppearancesIdle
     \/ /\ part \in {"settings", "logs", "notices", "commands", "texts"}
        /\ ThemesIdle /\ AppearancesIdle /\ AgentsIdle

(***************************************************************************)
(* A user writes a text; kind tells what it is.                            *)
(***************************************************************************)
Write ==
  /\ question = {}
  /\ \E kind \in DOMAIN Written : \E text \in Written[kind] :
       question' = {[kind |-> kind, text |-> {text}]}

DesktopNext ==
  /\ UNCHANGED part
  /\ \/ /\ part = "settings" /\ Files!Next
        /\ UNCHANGED <<vars, logVars, appearanceVars, noticeVars, commandVars, agentVars,
                       question>>
     \/ /\ part = "logs" /\ Logs!Next
        /\ UNCHANGED <<vars, fileVars, appearanceVars, noticeVars, commandVars, agentVars,
                       question>>
     \/ /\ part = "themes" /\ Next
        /\ UNCHANGED <<fileVars, logVars, appearanceVars, noticeVars, commandVars, agentVars,
                       question>>
     \/ /\ part = "appearance" /\ Appearances!Next
        /\ UNCHANGED <<vars, fileVars, logVars, noticeVars, commandVars, agentVars, question>>
     \/ /\ part = "notices" /\ Notices!Next
        /\ UNCHANGED <<vars, fileVars, logVars, appearanceVars, commandVars, agentVars, question>>
     \/ /\ part = "commands" /\ Commands!Next
        /\ UNCHANGED <<vars, fileVars, logVars, appearanceVars, noticeVars, agentVars, question>>
     \/ /\ part = "agents" /\ Agents!Next
        /\ UNCHANGED <<vars, fileVars, logVars, appearanceVars, noticeVars, commandVars, question>>
     \/ /\ part = "texts" /\ Write
        /\ UNCHANGED <<vars, fileVars, logVars, appearanceVars, noticeVars, commandVars, agentVars>>

DesktopSpec ==
  /\ DesktopInit /\ [][DesktopNext]_allVars
  /\ Fairness /\ Appearances!Fairness /\ Files!Fairness

-----------------------------------------------------------------------------
(***************************************************************************)
(* The settings file and its store (edit, perform_reload, load): a restart *)
(* finds a whole file, only what was on disk is published, edits survive   *)
(* while nobody interferes, the snapshot is fresh when all is quiet, and   *)
(* it becomes so.                                                          *)
(***************************************************************************)
RestartFindsWholeFile == Files!RestartFindsWholeFile
PublishedWasOnDisk    == Files!PublishedWasOnDisk
CalmEditsSurvive      == Files!CalmEditsSurvive
SnapshotFresh         == Files!SnapshotFresh
Converges             == Files!Converges

(***************************************************************************)
(* A crash dump holds the last event of the thread that panicked           *)
(* (write_redacted, CrashDumpWriter).                                      *)
(***************************************************************************)
DumpTellsTheEnd == Logs!DumpTellsTheEnd

(***************************************************************************)
(* The painted theme follows the system's appearance (poll_update,         *)
(* apply_system_appearance).                                               *)
(***************************************************************************)
Follows == Appearances!Follows

(***************************************************************************)
(* The home panel holds what the log holds (record, the consumer's new and *)
(* sync_next).                                                             *)
(***************************************************************************)
PanelHoldsLog == Notices!PanelHoldsLog

(***************************************************************************)
(* The key shown for a command runs it (lookup_by_keybinding, parse and    *)
(* Display of a binding).                                                  *)
(***************************************************************************)
HintsWork == Commands!HintsWork

(***************************************************************************)
(* A loop that is out of budget stays so (is_exhausted, the saturating     *)
(* counters).                                                              *)
(***************************************************************************)
ExhaustionSticks == Agents!ExhaustionSticks

(***************************************************************************)
(* What users write means what it says.  Bindings and colours are read     *)
(* back as they are stored, and a theme file is refused for a fault it has *)
(* (KeyBinding::parse, parse_color, parse_theme); a network pattern lets   *)
(* through what it spells and nothing else (NetworkPattern::parse,         *)
(* matches), and a more trusting mode asks no more often.                  *)
(***************************************************************************)
TextsMeanWhatTheySay ==
  \A q \in question : \A text \in q.text :
    /\ q.kind = "keys" => Keys!ReadsBack(text)
    /\ q.kind = "color" => ThemeFiles!ColorsReadBack(text)
    /\ q.kind = "theme" => ThemeFiles!FaultsAreNamed(text)
    /\ q.kind = "pattern" =>
         \A host \in Hosts, port \in Port : Policy!MeansItsSpellings(text, host, port)
    /\ \A class \in Policy!SafetyClass, op \in Policy!Operation :
         /\ Policy!TrustIsMonotone("Guarded", "Fast", class, op)
         /\ Policy!TrustIsMonotone("Fast", "Yolo", class, op)
=============================================================================
