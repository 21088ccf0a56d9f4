SPECIFICATION FairSpec
CONSTANTS
  h1 = h1
  h2 = h2
  Hosts = {h1}
  NoHost = NoHost
  num_input_files = 1
  num_output_files = 1
  num_std_files = 0
  num_restart_files = 1
  number_of_retries = 2
  reschedule_on_failure = TRUE
  Requests = {"STOP", "CHECKPOINT"}
  MigrateTo <- OtherHost
  MaxDispatches = 1
  Faults = {"CP", "RMDIR", "CRASH"}
  SwallowErrors = FALSE
  Timely = TRUE
  MaxCrashes = 1
PROPERTY StageEnds
CHECK_DEADLOCK FALSE
