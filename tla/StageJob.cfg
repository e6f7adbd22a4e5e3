\* Three runs over two batches, with two database errors, one editor write and one abort.
CONSTANTS
  b1 = b1
  b2 = b2
  s1 = s1
  s2 = s2
  k1 = k1
  k2 = k2
  Batches = {b1, b2}
  Sheets = {s1, s2}
  Keys = {k1, k2}
  CropsOf <- MCCropsOf
  SheetCap = 1
  MaxJobs = 3
  MaxFaults = 2
  MaxPatches = 1
  MaxAborts = 1
SPECIFICATION Spec
INVARIANTS TypeOK TallyMatchesMarks OneFinalPerKey CancelSticks
PROPERTIES NoWorkAfterCancel ReportedIsStored UntouchedUnlessDone
CHECK_DEADLOCK FALSE
