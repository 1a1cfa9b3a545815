SPECIFICATION Spec
CONSTANTS
  Jobs <- MCJobs
  Sound <- MCSound
  Want <- MCWant
INVARIANTS
  TreesWellFormed
  DoneIffSound
  LaidOut
  PreloaderFits
PROPERTIES
  ImplementsPlainTree
  EditsStayInPlace
CHECK_DEADLOCK FALSE
