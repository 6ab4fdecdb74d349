\* The parts behind the desktop shell, one by one: two edits, an external write and every
\* disturbance of the settings file, two threads that log three events and panic, two theme
\* files saved twice and two choices, three changes of appearance, three notifications of
\* two recorders, two registrations of two commands, an agent ledger whose counters end at
\* 3, and texts.
SPECIFICATION DesktopSpec
CONSTANTS
  f1 = f1
  f2 = f2
  plain = plain
  bold = bold
  File = {f1, f2}
  Id <- MCId
  Look = {plain, bold}
  Bundled <- MCBundled
  None = None
  NoFile = NoFile
  Broken = Broken
  Initially <- MCInitially
  Saved <- MCSaved
  MaxSaves = 2
  MaxSets = 2
  Edits = {e1, e2}
  Writes = {w1}
  NoEdit = NoEdit
  Disturbances = {"fail", "cancel", "kill", "power"}
  Thread = {t1, t2}
  Capacity = 2
  Retention = 1
  LogFiles <- MCLogFiles
  Millis = {1, 2}
  MaxDays = 1
  MaxStarts = 1
  MaxLogged = 3
  MaxChanges = 3
  Recorder = {r1, r2}
  Severities = {"Medium", "Critical"}
  LogCapacity = 2
  ChannelCapacity = 2
  MaxNotices = 3
  CommandId = {c1, c2}
  Handler = {h1, h2}
  Texts <- MCTexts
  CommandScopes <- MCScopes
  Filters <- MCFilters
  Char <- MCChar
  Numbered <- MCNumbered
  Padded = {"f05"}
  MaxRegistrations = 2
  MaxU32 = 3
  MaxClock = 1
  Deltas <- MCDeltas
  Budgets <- MCBudgets
  Policies <- MCPolicies
  Port = {"443"}
  Hosts <- MCHosts
  UiTokens <- MCUiTokens
  SyntaxTokens <- MCSyntaxTokens
  TerminalTokens <- MCTerminalTokens
  Wide = "W"
  Written <- MCWritten
CHECK_DEADLOCK FALSE
INVARIANTS MirrorIsExact ChoiceSurvives WindowFollows PanelHoldsLog  
  RestartFindsWholeFile PublishedWasOnDisk CalmEditsSurvive SnapshotFresh 
PROPERTIES CatchesUp DropReturns Follows ExhaustionSticks Converges
