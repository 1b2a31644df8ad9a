SPECIFICATION Spec
CONSTANTS
  Workers = {}
  Schema = "slurm"
  RestartPolicy = "OnFailure"
  CleanPolicy = "All"
  BackoffLimit = Unset
  Deadline = Unset
  TTL = Unset
  Unset = Unset
  MaxToggles = 0
  MaxFailures = 1
  MaxEvictions = 0
  MaxErrors = 0
  Timeouts = FALSE
  MaxCrashes = 0
  MaxRestarts = 0
  MaxTime = 0
  MaxLag = 1
CHECK_DEADLOCK TRUE
INVARIANT NoEarlyBackoff
