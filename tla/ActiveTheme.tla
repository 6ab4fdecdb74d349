----------------------------- MODULE ActiveTheme -----------------------------
(***************************************************************************)
(* Following the system's appearance (shared/src/settings.rs): the thread  *)
(* that polls it, the source it updates, and a shell that builds an        *)
(* ActiveThemeResolver, subscribes, and applies what it receives.  The     *)
(* resolver has a copy of the settings and is never told of new ones.      *)
(***************************************************************************)
EXTENDS Naturals, Sequences

CONSTANTS MaxChanges \* how often the system's appearance changes

Appearance == {"Light", "Dark"}
ThemeMode  == {"Light", "Dark", "System"}
Theme      == {"day", "night"}

VARIABLES
  system,     \* the appearance the operating system would report
  changes,
  appearance, \* PollingSystemAppearanceSource::appearance
  polling,    \* the poll thread: "asleep", or the detected appearance it is about to write or tell
  settings,   \* of the resolver: mode and the two slots
  active,     \* ActiveThemeResolver::active_theme_id; {} before it is built
  subscribed,
  inbox,      \* the shell's receiver
  painted,    \* what the shell has painted: the resolved theme, then every change it is handed
  missed      \* history: a change was told before the shell subscribed, and none since

vars == <<system, changes, appearance, polling, settings, active, subscribed, inbox, painted,
          missed>>

Asleep == [at |-> "asleep", detected |-> "Dark"]

TypeOK ==
  /\ {system, appearance} \subseteq Appearance
  /\ changes \in 0..MaxChanges
  /\ polling \in [at : {"asleep", "detected", "written"}, detected : Appearance]
  /\ settings \in [mode : ThemeMode, light : Theme, dark : Theme]
  /\ active \in SUBSET Theme /\ painted \in SUBSET Theme
  /\ subscribed \in BOOLEAN /\ missed \in BOOLEAN
  /\ inbox \in Seq(Appearance)

(***************************************************************************)
(* NativeSystemAppearanceSource::new detects once before the thread starts.*)
(***************************************************************************)
Init ==
  /\ system \in Appearance
  /\ appearance = system
  /\ changes = 0
  /\ polling = Asleep
  /\ settings \in [mode : ThemeMode, light : Theme, dark : Theme]
  /\ active = {} /\ painted = {}
  /\ subscribed = FALSE /\ missed = FALSE
  /\ inbox = <<>>

(***************************************************************************)
(* detect_system_appearance maps what it cannot tell to dark, so a failed  *)
(* detection is a change to dark here.                                     *)
(***************************************************************************)
SystemChanges ==
  /\ changes < MaxChanges /\ changes' = changes + 1
  /\ system' \in Appearance \ {system}
  /\ UNCHANGED <<appearance, polling, settings, active, subscribed, inbox, painted, missed>>

-----------------------------------------------------------------------------
(***************************************************************************)
(* resolve_theme_id: the slot of the mode, or in system mode of the        *)
(* appearance.                                                             *)
(***************************************************************************)
ResolveThemeId(now) ==
  IF (IF settings.mode = "System" THEN now ELSE settings.mode) = "Light"
  THEN settings.light ELSE settings.dark

(***************************************************************************)
(* The poll thread: detect, then poll_update, which writes the appearance  *)
(* under one lock and tells the subscribers under another.                 *)
(***************************************************************************)
Detect ==
  /\ polling.at = "asleep"
  /\ polling' = [at |-> "detected", detected |-> system]
  /\ UNCHANGED <<system, changes, appearance, settings, active, subscribed, inbox, painted, missed>>

PollUpdate ==
  /\ polling.at = "detected"
  /\ appearance' = polling.detected
  /\ polling' = IF appearance = polling.detected THEN Asleep ELSE [polling EXCEPT !.at = "written"]
  /\ UNCHANGED <<system, changes, settings, active, subscribed, inbox, painted, missed>>

Tell ==
  /\ polling.at = "written"
  /\ inbox' = IF subscribed THEN Append(inbox, polling.detected) ELSE inbox
  /\ missed' = (~subscribed /\ active \notin {{}, {ResolveThemeId(polling.detected)}})
  /\ polling' = Asleep
  /\ UNCHANGED <<system, changes, appearance, settings, active, subscribed, painted>>

-----------------------------------------------------------------------------
(***************************************************************************)
(* The shell: ActiveThemeResolver::new, subscribe_system_appearance.       *)
(***************************************************************************)
Resolve ==
  /\ active = {}
  /\ active' = {ResolveThemeId(appearance)}
  /\ painted' = active'
  /\ UNCHANGED <<system, changes, appearance, polling, settings, subscribed, inbox, missed>>

Subscribe ==
  /\ active # {} /\ ~subscribed
  /\ subscribed' = TRUE
  /\ UNCHANGED <<system, changes, appearance, polling, settings, active, inbox, painted, missed>>

(***************************************************************************)
(* Mutation of ApplySystemAppearance: the change is handed out and not     *)
(* remembered.                                                             *)
(***************************************************************************)
ApplySystemAppearanceForgets ==
  LET next == ResolveThemeId(Head(inbox))
  IN /\ inbox # <<>> /\ inbox' = Tail(inbox)
     /\ painted' = IF settings.mode # "System" \/ active = {next} THEN painted ELSE {next}
     /\ UNCHANGED <<system, changes, appearance, polling, settings, active, subscribed, missed>>

(***************************************************************************)
(* recv and apply_system_appearance: nothing in a fixed mode or when the   *)
(* theme stays, otherwise the change is remembered and handed out.         *)
(***************************************************************************)
ApplySystemAppearance ==
  LET next == ResolveThemeId(Head(inbox))
      changed == settings.mode = "System" /\ active # {next}
  IN /\ inbox # <<>> /\ inbox' = Tail(inbox)
     /\ active' = IF changed THEN {next} ELSE active
     /\ painted' = IF changed THEN {next} ELSE painted
     /\ UNCHANGED <<system, changes, appearance, polling, settings, subscribed, missed>>

Next ==
  \/ SystemChanges
  \/ Detect \/ PollUpdate \/ Tell
  \/ Resolve \/ Subscribe \/ ApplySystemAppearance

(***************************************************************************)
(* The thread polls for ever, and the shell receives what it subscribed to.*)
(***************************************************************************)
Fairness ==
  /\ WF_vars(Detect \/ PollUpdate \/ Tell)
  /\ WF_vars(ApplySystemAppearance)

Spec == Init /\ [][Next]_vars /\ Fairness

-----------------------------------------------------------------------------
(***************************************************************************)
(* The shell follows the system: once the appearance stays, the painted    *)
(* theme is the one the settings name for it, although the source writes   *)
(* and tells under two locks.  One window is left: a change told between   *)
(* the resolver's reading and the subscription is missed until the next.   *)
(***************************************************************************)
Follows == <>[](subscribed /\ ~missed => painted = {ResolveThemeId(system)})
=============================================================================
