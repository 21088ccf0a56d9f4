SPECIFICATION Spec
CONSTANTS
  c1 = c1
  c2 = c2
  j1 = j1
  j2 = j2
  Clients = {c1, c2}
  NoClient = NoClient
  Jobs = {j1, j2}
  Started <- One
  Fds = {1, 2}
  Admins = {}
  Strangers = {}
  Dispose = TRUE
  Prompt = TRUE
  APIs <- Roles
  MaxCalls <- Calls
  SESSION_JOBS = 2
CONSTRAINT Small
INVARIANT TypeOK
INVARIANT OneAnswer
INVARIANT AnswerMine
INVARIANT AnswerTrue
INVARIANT Told
INVARIANT WaitingCounted
CHECK_DEADLOCK FALSE
