SPECIFICATION FairSpec
CONSTANTS
  Workers = {}
  Schema = "slurm"
  RestartPolicy = "OnFailure"
  CleanPolicy = "All"
  BackoffLimit = 0
  Deadline = 1
  TTL = Unset
  Unset = Unset
  MaxToggles = 0
  MaxFailures = 1
  MaxEvictions = 0
  MaxErrors = 0
  Timeouts = FALSE
  MaxCrashes = 0
  MaxRestarts = 1
  MaxTime = 1
  MaxLag = 1
CHECK_DEADLOCK TRUE
PROPERTY FailedCleansUp
PROPERTY DeadlineEnforced
