SPECIFICATION FairSpec
CONSTANTS
  j1 = j1
  h1 = h1
  Jobs = {j1}
  Hosts = {h1}
  NoHost = NoHost
  number_of_retries = 1
  PreWrapper = {}
  Requests = {"STOP"}
  Garbage = {0}
  Faults = {"CRASH", "CANCEL", "RECOVER"}
  MaxRecords = 1
  MaxPolls = 1
  MaxQueue = 1
  Timely = TRUE
  MaxCrashes = 1
  MaxRuns = 5
PROPERTY CancelEnds
PROPERTY WrapperEnds
CHECK_DEADLOCK FALSE
