SPECIFICATION Spec
CONSTANTS
  j1 = j1
  j2 = j2
  j3 = j3
  Jobs = {j1}
  Hosts = {h1, h2}
  NoHost = NoHost
  UserOps = {"RESCHEDULE", "STOP", "RESUME"}
  InitHold = {}
  Deps <- NoDeps
  TypeDep <- AnyDep
  ReschedOnFailure = {}
  PreWrapper = {}
  WrapperBased = {j1}
  SuspensionTimeout = {j1}
  ReschedulingInterval = {j1}
  Dispose = FALSE
  DISPATCH_CHUNK = 1
  MAX_RUNNING_RESOURCE = 2
  MAX_RUNNING_USER = 2
  SchedulerCrash = FALSE
  HistoryFaults = {"MAD"}
  MaxEntries = 2
  MaxRecords = 2
INVARIANT HistoryExists
INVARIANT OneRun
INVARIANT SlotsCharged
