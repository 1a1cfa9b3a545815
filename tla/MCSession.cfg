SPECIFICATION Spec
CONSTANTS
  Pids = {1, 2}
  HOLD = 2
  LAG = 1
  EVENTS = 2
  Tries = 2
  MaxSwaps = 1
  MaxFaults = 1
  MountsLate = FALSE
  Cards <- MCCards
  MaxBoots = 2
  MaxStuck = 1
INVARIANTS
  KeyHasOneReader
  RepairedAlone
  LeftClean
PROPERTIES
  OffOnlyWhenHeld
  FrontendRuns
CHECK_DEADLOCK FALSE
