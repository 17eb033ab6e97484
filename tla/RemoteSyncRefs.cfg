SPECIFICATION FairSpec
CONSTANTS
  MaxAttempts = 2
  MaxCommits = 2
  MaxGrabs = 1
  MaxConflicts = 2
INVARIANTS Inv VerdictFits
PROPERTIES NothingLost IterationEnds
CHECK_DEADLOCK FALSE
