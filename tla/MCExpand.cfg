SPECIFICATION FairSpec
CONSTANTS
  Files <- MCFiles
  Provided <- MCProvided
  Shipped <- MCShipped
  MaxFaults = 3
  Exposed <- AllWindows
INVARIANTS
  Recoverable
PROPERTIES
  WipeOnlyStaged
  EventuallySettled
