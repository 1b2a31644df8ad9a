SPECIFICATION FairSpec
CONSTANTS
  Sizes <- TwoSizes
  MaxEdits = 2
  MaxGroups = 2
  MaxLag = 2
  MaxSeconds = 1
  MaxFaults = 1
  Schedulers = {"volcano", "plugins"}
  None = None
CHECK_DEADLOCK FALSE
INVARIANT TypeOK
PROPERTY PodsJoinTheirGroup
PROPERTY GroupFollowsSpec
PROPERTY SuspendEndsGroup
PROPERTY VolcanoLaunches
PROPERTY GroupSettles
