SPECIFICATION Spec
CONSTANTS
  h1 = h1
  h2 = h2
  Hosts = {h1, h2}
  NoHost = NoHost
  num_input_files = 1
  num_output_files = 1
  num_std_files = 1
  num_restart_files = 1
  number_of_retries = 2
  reschedule_on_failure = TRUE
  Requests = {"STOP", "KILL", "MIGRATE", "CHECKPOINT"}
  MigrateTo <- OtherHost
  MaxDispatches = 2
  Faults = {"CP", "MKDIR", "WRAPPER"}
  SwallowErrors = FALSE
  Timely = TRUE
  MaxCrashes = 0
INVARIANT TypeOK
INVARIANT InputsThere
INVARIANT OneReport
INVARIANT DoneIsDone
INVARIANT AnswersExpected
INVARIANT DirRemoved
PROPERTY OutputsKept
CHECK_DEADLOCK FALSE
