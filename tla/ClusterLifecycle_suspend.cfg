SPECIFICATION FairSpec
CONSTANTS
  Workers = {}
  Schema = "slurm"
  RestartPolicy = "OnFailure"
  CleanPolicy = "All"
  BackoffLimit = Unset
  Deadline = Unset
  TTL = Unset
  Unset = Unset
  MaxToggles = 2
  MaxFailures = 0
  MaxEvictions = 0
  MaxErrors = 1
  Timeouts = FALSE
  MaxCrashes = 0
  MaxRestarts = 0
  MaxTime = 0
  MaxLag = 1
CHECK_DEADLOCK TRUE
PROPERTY SuspendTakesEffect
PROPERTY ResumeTakesEffect
INVARIANT StatusExclusive
PROPERTY ImplementsPromise
