\* Two requests, no editor, no stop, on a column whose job type has two permits (mixes, sprites).
CONSTANTS
  j1 = j1
  j2 = j2
  j3 = j3
  e1 = e1
  e2 = e2
  Jobs = {j1, j2}
  Edits = {}
  Cap = 2
  MaxStops = 0
  MaxFaults = 0
SPECIFICATION Spec
PROPERTIES LiveJobLosesNothing
CHECK_DEADLOCK FALSE
