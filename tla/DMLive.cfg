SPECIFICATION FairSpec
CONSTANTS
  j1 = j1
  j2 = j2
  j3 = j3
  Jobs = {j1, j2}
  Hosts = {h1}
  NoHost = NoHost
  UserOps = {"WAIT"}
  InitHold = {}
  Deps <- NoDeps
  TypeDep <- AnyDep
  ReschedOnFailure = {}
  PreWrapper = {j1}
  WrapperBased = {}
  SuspensionTimeout = {}
  ReschedulingInterval = {}
  Dispose = FALSE
  DISPATCH_CHUNK = 1
  MAX_RUNNING_RESOURCE = 2
  MAX_RUNNING_USER = 1
  SchedulerCrash = FALSE
  HistoryFaults = {}
  MaxEntries = 1
  MaxRecords = 1
PROPERTY JobsEnd
PROPERTY WaitersTold
