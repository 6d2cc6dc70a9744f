SPECIFICATION Spec
CONSTANTS
  Wanted = 31
  Configs <- MCConfigs
  Deadline = 900
  Sentinel = 1360
  MinRaw <- MCMinRaw
  MaxRaw = 2000
  Temps <- MCTemps
  Finishes <- MCFinishes
  Instants <- MCInstants
  Pass = 149
  MaxBoots = 2
INVARIANTS
  ReadingTrue
  FaultHasCause
  WearBounded
