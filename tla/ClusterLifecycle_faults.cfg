SPECIFICATION Spec
CONSTANTS
  Workers = {}
  Schema = "slurm"
  RestartPolicy = "Never"
  CleanPolicy = "All"
  BackoffLimit = Unset
  Deadline = Unset
  TTL = 0
  Unset = Unset
  MaxToggles = 1
  MaxFailures = 1
  MaxEvictions = 1
  MaxErrors = 1
  Timeouts = TRUE
  MaxCrashes = 1
  MaxRestarts = 0
  MaxTime = 1
  MaxLag = 1
CHECK_DEADLOCK FALSE
INVARIANT TypeOK
INVARIANT BornSuspended
INVARIANT ConditionsWellFormed
PROPERTY ImplementsPromise
PROPERTY FailedIsFinal
PROPERTY DeletedOnlyWhenExpired
