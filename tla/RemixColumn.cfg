\* Three requests and two saves on a column whose job type has one permit (rmbgs, upscales).
CONSTANTS
  j1 = j1
  j2 = j2
  j3 = j3
  e1 = e1
  e2 = e2
  Jobs = {j1, j2, j3}
  Edits = {e1, e2}
  Cap = 1
  MaxStops = 1
  MaxFaults = 1
SPECIFICATION Spec
SYMMETRY Symmetry
INVARIANTS TypeOK AckedIsStored
PROPERTIES LiveJobLosesNothing DeleteSparesOlderJobs
CHECK_DEADLOCK FALSE
