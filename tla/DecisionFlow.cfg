SPECIFICATION Spec
CONSTANTS
  Names <- MCNames
  NameId <- MCNameId
  Strays <- MCStrays
  Topics <- MCTopics
  Absent = Absent
  Monolith <- MCMonolith
  Drafts <- MCFlowDrafts
  Earlier <- MCEarlier
  Prose <- MCProse
  MaxEdits = 2
  Fresh = 1
  NoSide = NoSide
INVARIANT RoundTrips
