SPECIFICATION PartsSpec
CONSTANTS
  Documents <- SmallDocuments
  MaxRunes = 2
  Chunks <- ChunkSet
  Context <- ThisContext
  Score <- Scores
  Words <- ChunkTexts
  Kept <- Quoted
  Stub <- Stubs
  Short = {"-"}
  Preamble <- BySource
  Replies <- SomeReplies
  MaxCards = 2
  Registrations = {r1, r2}
  Logins = {l1, l2}
  Emails = {e1, e2}
  Passwords = {good, long}
  TooLong = {long}
  MaxTime = 2
  MaxFaults = 2
  owner = owner
  other = other
  deck = deck
  job = job
  x1 = x1
  x2 = x2
  Users = {owner, other}
  Decks = {deck}
  Jobs = {job}
  Contents = {a, b}
  Exports = {x1, x2}
  JobUser <- JobUsers
  JobDeck <- JobDecks
  ExportUser <- Exporters
  ExportDeck <- OneDeck
  Times = {1, 2}
  Limit = 1
  MaxExportFaults = 1
SYMMETRY Symmetry
CHECK_DEADLOCK FALSE
INVARIANTS
  PermanentStaysPermanent
