SPECIFICATION RSpec
CONSTANTS
  j1 = j1
  j2 = j2
  Jobs = {j1, j2}
  Hosts = {h1, h2}
  NoHost = NoHost
  UserOps = {}
  InitHold = {j2}
  Deps <- J2Deps
  TypeDep <- AnyDep
  ReschedOnFailure = {}
  PreWrapper = {}
  WrapperBased = {}
  SuspensionTimeout = {}
  ReschedulingInterval = {j1}
  Dispose = FALSE
  DISPATCH_CHUNK = 1
  MAX_RUNNING_RESOURCE = 2
  MAX_RUNNING_USER = 2
  SchedulerCrash = FALSE
  HistoryFaults = {}
  MaxEntries = 1
  MaxRecords = 2
  MaxCrashes = 2
SYMMETRY HostSymmetry
INVARIANT Recoverable
INVARIANT NotStranded
INVARIANT StillCharged
INVARIANT DepsRespected
