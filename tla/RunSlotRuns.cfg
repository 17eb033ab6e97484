SPECIFICATION FairSpec
CONSTANTS
  a1 = a1
  b1 = b1
  bj = bj
  A = A
  B = B
  NoRun = NoRun
  Runs = {a1, b1, bj}
  Projects = {A, B}
  ProjectOf <- HomeOf
  Jumpers = {bj}
  MarkerTries = 3
  SpoiledTries = 2
INVARIANTS IInv AbortsOnlyOnOverlap
PROPERTIES Implements WaitingEnds
CHECK_DEADLOCK FALSE
