SPECIFICATION FairSpec
CONSTANTS
  a = a
  b = b
  object = object
  None = None
  Controllers = {a, b}
  Objects = {object}
  Checked = {b}
  MaxCreations = 2
  MaxEvents = 2
CHECK_DEADLOCK FALSE
PROPERTY ImplementsOwnership
PROPERTY Settles
