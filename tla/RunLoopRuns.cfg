\* Two runs that follow each other, of two iterations each.
SPECIFICATION LoopFairSpec
CONSTANTS
  Configs <- SomeConfigs
  MaxIterations = 2
  Issues = {i1, i2}
  RawMessages = {m1}
  Checks = {c1, c2}
  Attempts = 3
  MaxStarts = 2
  MaxOpen = 2
INVARIANTS LoopInv
PROPERTIES OneReportPerFamily FailureIsFinal RunEnds
CHECK_DEADLOCK FALSE
