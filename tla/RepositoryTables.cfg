\* One caller writes rows of every table but sessions.
SPECIFICATION Spec
CONSTANTS
  Workspaces = {w1, w2}
  Sessions = {}
  Chats = {h1, h2}
  Turns = {t1, t2}
  Attachments = {a1}
  Grants = {g1}
  None = None
  Callers = {c1}
  Outsider = Outsider
  MaxRetries = 0
  Faults = {}
SYMMETRY Symmetry
INVARIANTS ReferencesResolve HeadIsOwnTurn IndexMirrors
PROPERTIES TranscriptOnlyGrows
