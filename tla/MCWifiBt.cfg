SPECIFICATION Spec
CONSTANTS
  MaxStarts = 2
  MaxWifi = 2
  MaxRare = 1
CHECK_DEADLOCK FALSE
INVARIANTS
  WantedIsPowered
PROPERTIES
  CutOnlyWhenOff
  BtComesUp
  OffIsCut
