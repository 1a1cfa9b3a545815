SPECIFICATION Spec
CONSTANTS
  Dumps <- MCDumps
  Editions <- MCEditions
  CHUNK = 5
  MaxRuns = 6
  MaxStops = 0
  Standalone = TRUE
INVARIANT BuildAsClaimed
CHECK_DEADLOCK FALSE
