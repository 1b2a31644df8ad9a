SPECIFICATION FairSpec
CONSTANTS
  MaxReplicas = 2
  MaxEdits = 2
  MaxMaps = 2
  MaxFaults = 2
  TimeOuts = TRUE
  p = p
  q = q
  Ports = {p, q}
  Templates <- SomeTemplates
  None = None
CHECK_DEADLOCK FALSE
INVARIANT TypeOK
INVARIANT PodsAgreeWithConf
INVARIANT NodesOfferWhatIsReserved
PROPERTY ConfWrittenOnce
PROPERTY ConfigSettles
