\* Two callers, no disturbance: two concurrent sets lose an index entry.
SPECIFICATION Spec
CONSTANTS
  Callers = {c1, c2}
  Keys = {k1, k2}
  Values = {v1}
  INDEX_KEY = INDEX_KEY
  NoEntry = NoEntry
  Corrupt = Corrupt
  Faults = {}
INVARIANT ListIsComplete
