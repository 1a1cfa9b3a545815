SPECIFICATION Spec
CONSTANTS
  Regions <- MCRegions
  Blank = Blank
  Sectors <- MCSectors
  DATA_SECTORS <- MCData
  PRIMARY_SECTORS <- MCPrimary
  Device <- MCDevice
INVARIANTS
  SomeCopyValid
  SuccessIsDurable
  BackupErrorKeepsLayout
  LayoutSound
PROPERTIES
  BackupBeforePrimary
  ImplementsOneWayTable
