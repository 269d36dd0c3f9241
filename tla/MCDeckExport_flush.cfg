SPECIFICATION DeckSpec
CONSTANTS
  owner = owner
  other = other
  deck = deck
  job = job
  x1 = x1
  x2 = x2
  Users = {owner, other}
  Decks = {deck}
  Jobs = {job}
  Contents = {a, b}
  Exports = {x1}
  JobUser <- JobUsers
  JobDeck <- JobDecks
  ExportUser <- Exporters
  ExportDeck <- OneDeck
  Times = {1, 2}
  Limit = 1
  MaxExportFaults = 1
INVARIANTS
  ReadyFileComplete
