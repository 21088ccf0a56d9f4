SPECIFICATION Spec
CONSTANTS
  j1 = j1
  j2 = j2
  j3 = j3
  Jobs = {j1}
  Hosts = {h1, h2}
  NoHost = NoHost
  UserOps = {"HOLD", "RELEASE", "KILL_HARD"}
  InitHold = {}
  Deps <- NoDeps
  TypeDep <- AnyDep
  ReschedOnFailure = {}
  PreWrapper = {}
  WrapperBased = {}
  SuspensionTimeout = {}
  ReschedulingInterval = {}
  Dispose = FALSE
  DISPATCH_CHUNK = 1
  MAX_RUNNING_RESOURCE = 2
  MAX_RUNNING_USER = 2
  SchedulerCrash = TRUE
  HistoryFaults = {}
  MaxEntries = 1
  MaxRecords = 2
SYMMETRY HostSymmetry
INVARIANT TypeOK
INVARIANT NotLost
