CONSTANTS
    head = head
    None = None
    Types = {head}
    MaxObjects = 1
    MaxOps = 2
    MaxPending = 1
    MaxFaults = 1
SPECIFICATION FairSpec
CHECK_DEADLOCK FALSE
INVARIANT TypeOK
INVARIANT CountsCovered
PROPERTY Drains
