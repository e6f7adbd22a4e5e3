\* Two jobs of a cap-1 type under fairness (no symmetry: liveness).
CONSTANTS
  j1 = j1
  j2 = j2
  rmbg = rmbg
  Jobs <- MCJobs
  Types <- MCTypes
  TypeOf <- MCTypeOf
  SemCap <- MCSemCap
  MaxReports = 0
  MaxFaults = 0
  MaxShutdowns = 1
  MaxCrashes = 1
  Cancellable = {j1}
SPECIFICATION FairSpec
PROPERTIES JobsSettle WaitersServed
CHECK_DEADLOCK FALSE
