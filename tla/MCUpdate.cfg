SPECIFICATION FairSpec
CONSTANTS
  Cores <- MCCores
  PreReleases <- MCPreReleases
  Regions <- MCRegions
  Rootfs = "rootfs"
  Releases <- MCReleases
  Image <- MCImage
  Junk = Junk
  Factory <- v1a
  Broken <- MCBroken
  Offered <- MCOffered
  MaxCuts = 2
  Exposed <- FailingFlip
INVARIANTS
  NewerIsSemver
  TypeOK
  ActiveComplete
  NewSlotsOnTrial
  RollbackIntact
  SessionClosesTrial
PROPERTIES
  OnlyForward
  CommitVerified
  NeverRetried
  RollbackRestores
  ProvenNeverRolledBack
  AlwaysBackToSession
  ImplementsABTrial
