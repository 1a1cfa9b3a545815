SPECIFICATION Spec
CONSTANTS
  Dumps <- MCDumps
  Editions <- MCEditions
  CHUNK = 5
  MaxRuns = 5
  MaxStops = 1
  Standalone = FALSE
INVARIANTS
  PreparedIsWhole
  ImageOfOneDump
PROPERTY PayloadIffStamped
CHECK_DEADLOCK FALSE
