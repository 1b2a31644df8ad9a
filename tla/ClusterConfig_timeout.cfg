SPECIFICATION FairSpec
CONSTANTS
  MaxReplicas = 1
  MaxEdits = 0
  MaxMaps = 1
  MaxFaults = 1
  TimeOuts = TRUE
  p = p
  q = q
  Ports = {p, q}
  Templates <- OneTemplate
  None = None
CHECK_DEADLOCK FALSE
PROPERTY TimeOutIsOvercome
