\* One job, no fault and no stop: the reaper and the worker alone.
CONSTANTS
  j1 = j1
  j2 = j2
  rmbg = rmbg
  Jobs = {j1}
  Types <- MCTypes
  TypeOf <- MCTypeOf
  SemCap <- MCSemCap
  Cancellable = {}
  MaxReports = 0
  MaxFaults = 0
  MaxShutdowns = 0
  MaxCrashes = 0
SPECIFICATION Spec
INVARIANTS HookFiresOnce
CHECK_DEADLOCK FALSE
