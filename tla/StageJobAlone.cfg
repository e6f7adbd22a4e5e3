\* One run with one database error.
CONSTANTS
  b1 = b1
  b2 = b2
  s1 = s1
  s2 = s2
  k1 = k1
  k2 = k2
  Batches = {b1, b2}
  Sheets = {s1, s2}
  Keys = {k1, k2}
  CropsOf <- MCCropsOf
  SheetCap = 1
  MaxJobs = 1
  MaxFaults = 1
  MaxPatches = 0
  MaxAborts = 0
SPECIFICATION Spec
PROPERTIES SheetFailsAlone
CHECK_DEADLOCK FALSE
