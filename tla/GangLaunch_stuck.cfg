SPECIFICATION FairSpec
CONSTANTS
  Sizes <- OneSize
  MaxEdits = 2
  MaxGroups = 2
  MaxLag = 2
  MaxSeconds = 1
  MaxFaults = 0
  Schedulers = {"plugins"}
  None = None
CHECK_DEADLOCK FALSE
PROPERTY WaitingTriggersPass
