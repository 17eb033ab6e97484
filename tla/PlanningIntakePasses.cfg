SPECIFICATION IntakeFairSpec
CONSTANTS
  Numbers = {1, 2}
  Modes = {"behavior-slice", "docs-slice"}
  MaxEdits = 1
  MaxStops = 1
INVARIANTS IntakeInv
PROPERTIES IntakeProgresses
