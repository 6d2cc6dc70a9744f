\* Two frames, which may be of any two wakes, and two drops of either connection.
SPECIFICATION FairSpec
CONSTANTS
  Wakes <- MCWakes
  Config <- MCConfig
  MaxFrames = 2
  MaxDrops = 2
  None = None
INVARIANTS
  StoreIsTrue
  HolesHaveCauses
PROPERTY SpineEnds
CHECK_DEADLOCK FALSE
