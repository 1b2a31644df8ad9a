SPECIFICATION Spec
CONSTANTS
  Workers = {"Worker"}
  Schema = "pbspro"
  RestartPolicy = "OnFailure"
  CleanPolicy = "All"
  BackoffLimit = 2
  Deadline = Unset
  TTL = Unset
  Unset = Unset
  MaxToggles = 0
  MaxFailures = 1
  MaxEvictions = 0
  MaxErrors = 0
  Timeouts = FALSE
  MaxCrashes = 0
  MaxRestarts = 1
  MaxTime = 0
  MaxLag = 1
CHECK_DEADLOCK TRUE
INVARIANT NoEarlyBackoff
INVARIANT RunningMeansLaunched
PROPERTY ImplementsPromise
