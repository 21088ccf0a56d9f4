SPECIFICATION Spec
CONSTANTS
  j1 = j1
  j2 = j2
  j3 = j3
  Jobs = {j1, j2, j3}
  Hosts = {h1}
  NoHost = NoHost
  UserOps = {"KILL"}
  InitHold = {j3}
  Deps <- J3Deps
  TypeDep <- FailedDep
  ReschedOnFailure = {}
  PreWrapper = {}
  WrapperBased = {j1, j2}
  SuspensionTimeout = {}
  ReschedulingInterval = {}
  Dispose = FALSE
  DISPATCH_CHUNK = 1
  MAX_RUNNING_RESOURCE = 3
  MAX_RUNNING_USER = 3
  SchedulerCrash = FALSE
  HistoryFaults = {"FILE"}
  MaxEntries = 1
  MaxRecords = 1
SYMMETRY JobSymmetry
INVARIANT DepsRespected
