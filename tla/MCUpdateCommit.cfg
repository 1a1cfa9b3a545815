SPECIFICATION FairSpec
CONSTANTS
  Cores <- MCCores
  PreReleases <- MCPreReleases
  Regions <- MCRegions
  Rootfs = "rootfs"
  Releases <- MCReleases
  Image <- MCImage
  Junk = Junk
  Factory <- v1a
  Broken <- MCBroken
  Offered <- MCOffered
  MaxCuts = 1
  Exposed <- CommitWindow
PROPERTY CommitAsClaimed
