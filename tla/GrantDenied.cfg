SPECIFICATION Spec
CONSTANTS
  Workspaces = {w1}
  Sessions = {}
  Chats = {}
  Turns = {}
  Attachments = {}
  Grants = {g1}
  None = None
  Callers = {c1}
  Outsider = Outsider
  MaxRetries = 0
  Faults = {}
INVARIANT DeniedReadsAsDenied
