SPECIFICATION FairSpec
CONSTANTS
  i1 = i1
  i2 = i2
  i3 = i3
  w1 = w1
  w2 = w2
  Issues = {i1, i2, i3}
  Work = {w1}
  Unchanged = {i2, i3}
  Unserved = {i3}
  MaxParallel = 1
  Faults = {"crash"}
PROPERTIES Implements IterationEnds
CHECK_DEADLOCK FALSE
