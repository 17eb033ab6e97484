SPECIFICATION RetrySpec
CONSTANTS
  i1 = i1
  i2 = i2
  i3 = i3
  w1 = w1
  w2 = w2
  Issues = {i1}
  Work = {w1, w2}
  Unchanged = {}
  Unserved = {}
  MaxParallel = 1
  Faults = {"crash", "remove", "wipe"}
INVARIANTS Inv MergedWasReviewed
PROPERTIES UncommittedSurvives IssuesClose
CHECK_DEADLOCK FALSE
