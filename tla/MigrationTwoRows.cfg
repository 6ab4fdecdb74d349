\* Two windows open a fresh database, nothing fails: _meta gets two rows.
SPECIFICATION Spec
CONSTANTS
  Openers = {o1, o2}
  Versions = {1}
  Releases = {1}
  NoOne = NoOne
  Faults = {}
  MaxStarts = 1
SYMMETRY Symmetry
INVARIANT MetaHasOneRow
