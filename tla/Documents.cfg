SPECIFICATION Spec
CONSTANTS
  Words <- MCWords
  Acronyms <- MCAcronyms
  Lower <- MCLower
  Exempt = {"DEC"}
  ExemptThen = {"DEC"}
  Place <- MCPlace
  Called <- MCCalled
  Tracked <- MCTracked
  REPO = "own"
  KNOWN_FOREIGN = {"review"}
  KNOWN_FOREIGN_AGENTS = {"me"}
  Begins <- MCBegins
  Menu <- MCMenu
  Unwritten <- MCUnwritten
  Paths <- MCPaths
  Scripts = {"verify"}
  Rules <- MCRules
  EntryMenu <- MCEntryMenu
  RosterMenu <- MCRosterMenu
  Declarable = {"CHEATSHEET.md", "SPEC.md", "starter"}
  Checkouts <- MCCheckouts
  NotYet = NotYet
  MaxEdits = 2
INVARIANTS
  Actionable
  NoNewJargon
  Ratchet
  ArchivingIsFree
  DeclaredIsEnforced
  NothingPassesOnlyHere
