SPECIFICATION Spec
CONSTANTS
  MaxStarts = 2
  MaxWifi = 1
  MaxRare = 2
CHECK_DEADLOCK FALSE
PROPERTY PowerAsDocumented
