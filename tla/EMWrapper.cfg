SPECIFICATION Spec
CONSTANTS
  j1 = j1
  h1 = h1
  Jobs = {j1}
  Hosts = {h1}
  NoHost = NoHost
  number_of_retries = 3
  PreWrapper = {}
  Requests = {}
  Garbage = {0}
  Faults = {"SUBMIT", "RSL", "UNKNOWN"}
  MaxRecords = 2
  MaxPolls = 1
  MaxQueue = 1
  Timely = TRUE
  MaxCrashes = 0
  MaxRuns = 7
INVARIANT TypeOK
INVARIANT OneRun
INVARIANT SlotFreedOnce
INVARIANT CountersReturned
PROPERTY ServiceSpec
CHECK_DEADLOCK FALSE
