SPECIFICATION FairSpec
CONSTANTS
  factory = factory
  b1 = b1
  b2 = b2
  fleet = fleet
  other = other
  Images <- MCImages
  Version <- MCVersion
  Size <- MCSize
  Releases <- MCReleases
  FleetKey = fleet
  Factory = factory
  MaxPublish = 2
  Garbled = Garbled
  None = None
INVARIANTS
  DocumentedIsWhole
  OnlyReleasedImagesBoot
PROPERTIES
  NeverReflashed
  UpdateSpec
  Converges
