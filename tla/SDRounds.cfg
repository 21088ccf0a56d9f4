SPECIFICATION Spec
CONSTANTS
  j1 = j1
  j2 = j2
  j3 = j3
  j4 = j4
  h1 = h1
  h2 = h2
  u1 = u1
  u2 = u2
  a1 = a1
  Jobs = {j1, j2, j3, j4}
  Hosts = {h1, h2}
  NoHost = NoHost
  UserIds = {1, 2}
  ArrayOf <- Array
  NoArray = NoArray
  Urgent = {}
  Rank <- Ranks
  DISPATCH_CHUNK = 0
  MAX_RUNNING_USER = 0
  MAX_RUNNING_RESOURCE = 0
  Capacity <- Slots
  Priority <- Priorities
  max_active_im_queries = 2
  Monitored0 = {h1, h2}
  MaxEvents = 4
  Owner <- Owners
  Submissions <- Requests
  NoUser = NoUser
  NoSubmission = NoSubmission
  Prompt = TRUE
INVARIANT TypeOK
INVARIANT NoOvercommit
INVARIANT Listed
INVARIANT OneRound
INVARIANT OneQuery
CHECK_DEADLOCK FALSE
CONSTRAINT Small
