SPECIFICATION FairSpec
CONSTANTS
  s1 = s1
  a = a
  b = b
  k1 = k1
  k2 = k2
  u1 = u1
  u2 = u2
  mine = mine
  theirs = theirs
  Sources = {s1}
  Readable = {s1}
  Workers = {w1, w2}
  Jobs = {j1}
  Cards = {a, b}
  Chunks = {k1, k2}
  MaxCards = 1
  MaxAttempts = 2
  MaxFaults = 1
  ChunkCount <- OneSource
  Context <- OneRound
  Replies <- OneReply
  Cites <- CiteBoth
  Stored <- AsGiven
  SourceOwner <- OwnedByOne
  JobUser <- AskedByOne
  JobSource <- AboutIt
  DeckOwner <- TwoDecks
  OrdOf <- Positions
CHECK_DEADLOCK FALSE
INVARIANTS
  JobsFounded
PROPERTIES
  CitedChunksStay
  EverythingSettles
