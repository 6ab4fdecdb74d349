\* Three edits, nobody else, no disturbance: a reload undoes an edit.
SPECIFICATION Spec
CONSTANTS
  Edits = {e1, e2, e3}
  Writes = {}
  NoEdit = NoEdit
  Disturbances = {}
SYMMETRY Symmetry
INVARIANT AckedEditsSurvive
