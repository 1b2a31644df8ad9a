SPECIFICATION FairSpec
CONSTANTS
  MaxReplicas = 2
  Desired <- AnyCount
  RestartPolicy = "ExitCode"
  MaxScales = 1
  MaxFailures = 1
  MaxEvictions = 1
  MaxErrors = 1
  MaxTimeouts = 1
  MaxCrashes = 1
  MaxTrouble = 3
  MaxLag = 2
  Resyncs = TRUE
CHECK_DEADLOCK TRUE
INVARIANT TypeOK
INVARIANT BoundedFootprint
PROPERTY HealthyPodKept
PROPERTY EventsSuffice
PROPERTY Converges
