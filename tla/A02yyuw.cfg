SPECIFICATION Spec
CONSTANTS
  Levels <- MCLevels
  Echoes <- MCEchoes
  Damage <- MCDamage
  MaxDamaged = 1
  MaxEchoes = 1
  Settle = 1
  DiscardFrames = 1
  SampleFrames = 3
  Deadline = 7
  MinMm = 30
  MaxMm = 4500
INVARIANTS
  MedianSurvives
