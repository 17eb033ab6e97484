CONSTANTS
  PerScan = 2
  Tickets = 2
  Caps = {0, 1}
  Corrections = 1
  MaxIterations = 2
  MaxRuns = 2
  MaxScans = 1
  MaxStops = 1
  MaxFaults = 1
SPECIFICATION FairSpec
INVARIANTS Inv ReadySetsAreWhole NoOrphans
PROPERTIES PhaseEnds
CHECK_DEADLOCK FALSE
