SPECIFICATION AppSpec
CONSTANTS
  s1 = s1
  a = a
  k1 = k1
  u1 = u1
  mine = mine
  ParseTasks = {s1}
  Readable = {s1}
  Workers = {w1, w2}
  GenTasks = {j1}
  Cards = {a}
  Chunks = {k1}
  MaxCards = 1
  MaxAttempts = 2
  MaxFaults = 1
  MaxLapses = 5
  ParseBatchSize = 1
  GenBatchSize = 1
  Outcomes = {"ok", "transient"}
  ChunkCount <- OneSource
  Context <- OneRound
  Replies <- OneReply
  Cites <- CiteIt
  Stored <- AsGiven
  SourceOwner <- OwnedByOne
  JobUser <- AskedByOne
  JobSource <- AboutIt
  DeckOwner <- OneDeck
  OrdOf <- Positions
PROPERTIES
  WholeSpec
