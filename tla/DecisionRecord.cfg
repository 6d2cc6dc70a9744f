SPECIFICATION Spec
CONSTANTS
  Names <- MCNames
  NameId <- MCNameId
  Strays <- MCStrays
  Topics <- MCTopics
  Absent = Absent
  Monolith <- MCMonolith
  Drafts <- MCDrafts
  Earlier <- MCEarlier
  Prose <- MCProse
  MaxEdits = 2
  Fresh = 1
  NoSide = NoSide
INVARIANTS
  RetirementsResolve
  LegacyIsAsAdopted
  SplitLosesNothing
  GenHeals
  EntriesStay
  CleanMergeIsFresh
  AlwaysRetirable
