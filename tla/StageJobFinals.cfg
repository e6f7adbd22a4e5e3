\* Three runs without any database error: what force_resweep does to the final flags.
CONSTANTS
  b1 = b1
  b2 = b2
  s1 = s1
  s2 = s2
  k1 = k1
  k2 = k2
  Batches = {b1, b2}
  Sheets = {s1, s2}
  Keys = {k1, k2}
  CropsOf <- MCCropsOf
  SheetCap = 1
  MaxJobs = 3
  MaxFaults = 0
  MaxPatches = 0
  MaxAborts = 0
SPECIFICATION Spec
INVARIANTS ExactlyOneFinal
CHECK_DEADLOCK FALSE
