SPECIFICATION FairSpec
CONSTANTS
  Levels <- MCLevels
  Echoes <- MCEchoes
  Damage <- MCDamage
  MaxDamaged = 0
  MaxEchoes = 0
  Settle = 1
  DiscardFrames = 0
  SampleFrames = 1
  Periods = 3
  MinMm = 30
  MaxMm = 4500
  Wanted = 31
  Configs <- MCConfigs
  Deadline = 900
  Sentinel = 1360
  MinRaw <- MCMinRaw
  MaxRaw = 2000
  Temps <- MCTemps
  Finishes <- MCFinishes
  Instants <- MCInstants
  Pass = 149
  MaxBoots = 2
PROPERTIES
  RailSpec
  WakeEnds
