\* Two jobs of a cap-1 type (remix_rmbg): the second waits behind the first.
CONSTANTS
  j1 = j1
  j2 = j2
  rmbg = rmbg
  Jobs <- MCJobs
  Types <- MCTypes
  TypeOf <- MCTypeOf
  SemCap <- MCSemCap
  MaxReports = 1
  MaxFaults = 1
  MaxShutdowns = 1
  MaxCrashes = 1
  Cancellable <- MCJobs
SPECIFICATION Spec
SYMMETRY Symmetry
INVARIANTS TypeOK PermitsBalance CancelledHasCause RunningHasWorker HookHearsVerdict
PROPERTIES EnterOnlyByStart HookBeforeStatus RefinesJobSpec
CHECK_DEADLOCK FALSE
