SPECIFICATION Spec
CONSTANTS
  Files <- MCFiles
  Provided <- MCProvided
  Shipped <- MCShipped
  MaxFaults = 1
  Exposed <- AllWindows
INVARIANT NoFileLost
