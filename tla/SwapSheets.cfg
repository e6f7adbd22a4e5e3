\* One run of each kind with two database errors.
CONSTANTS
  s1 = s1
  s2 = s2
  k1 = k1
  k2 = k2
  k3 = k3
  t1 = t1
  t2 = t2
  t3 = t3
  Whole = Whole
  Sheets = {s1, s2}
  Keys = {k1, k2, k3}
  Targets = {t1, t2, t3}
  Located = {t1, t2}
  CropsOf <- MCCropsOf
  Elsewhere = {k1}
  Tagged <- MCTagged
  MaxTargets = 2
  SheetCap = 1
  CropCap = 1
  MaxFaults = 2
  Width = 32
  Height = 36
  Pad = 3
  MinBox = 4
  MaxCrops = 3
  Layouts <- MCLayouts
  Drifts <- MCDrifts
SPECIFICATION Spec
INVARIANTS TypeOK OneSelectedFinal PiecesOfSheets
PROPERTIES StoredIffDone ProgressTold
CHECK_DEADLOCK FALSE
