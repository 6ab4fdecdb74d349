\* Two callers share a keychain that fails, is tampered with, and crashes.
SPECIFICATION Spec
CONSTANTS
  Callers = {c1, c2}
  Keys = {k1, k2}
  Values = {v1, v2}
  INDEX_KEY = INDEX_KEY
  NoEntry = NoEntry
  Corrupt = Corrupt
  Faults = {"backend", "crash", "external"}
SYMMETRY Symmetry
INVARIANTS IndexNamesAcceptedKeys Reconciles SerialParity
PROPERTY EntriesLinearizable
