\* Two openers, two releases of the binary, every fault.
SPECIFICATION Spec
CONSTANTS
  Openers = {o1, o2}
  Versions = {1, 2}
  Releases = {1, 2}
  NoOne = NoOne
  Faults = {"io", "crash", "power"}
  MaxStarts = 2
INVARIANTS VersionTellsSchema OpenedIsMigrated SerialMetaHasOneRow
PROPERTIES NeverBackwards RunsEnd
