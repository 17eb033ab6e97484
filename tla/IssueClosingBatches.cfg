SPECIFICATION FairSpec
CONSTANTS
  Issues = {1, 3, 5, 6}
  Labeled = {1, 3}
  Parent <- ParentDef
  NoParent = 0
  MaxTries = 2
  MaxFaults = 2
  MaxReopens = 1
INVARIANTS Inv ParentsLast
PROPERTIES CascadeCompletes
CHECK_DEADLOCK FALSE
