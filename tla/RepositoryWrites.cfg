\* Two callers race for the lock with an outsider, failures and crashes.
SPECIFICATION FairSpec
CONSTANTS
  Workspaces = {w1}
  Sessions = {s1}
  Chats = {h1}
  Turns = {t1}
  Attachments = {}
  Grants = {}
  None = None
  Callers = {c1, c2}
  Outsider = Outsider
  MaxRetries = 1
  Faults = {"io", "crash", "outsider"}
PROPERTIES SessionsOutlive ImplementsAtomic CallsReturn
