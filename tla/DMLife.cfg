SPECIFICATION Spec
CONSTANTS
  j1 = j1
  j2 = j2
  j3 = j3
  Jobs = {j1, j2}
  Hosts = {h1}
  NoHost = NoHost
  UserOps = {"STOP"}
  InitHold = {}
  Deps <- NoDeps
  TypeDep <- AnyDep
  ReschedOnFailure = {j1}
  PreWrapper = {j1}
  WrapperBased = {j1}
  SuspensionTimeout = {}
  ReschedulingInterval = {}
  Dispose = TRUE
  DISPATCH_CHUNK = 1
  MAX_RUNNING_RESOURCE = 2
  MAX_RUNNING_USER = 2
  SchedulerCrash = FALSE
  HistoryFaults = {}
  MaxEntries = 1
  MaxRecords = 2
INVARIANT AllReturned
INVARIANT UserReturned
