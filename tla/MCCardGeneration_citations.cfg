SPECIFICATION Spec
CONSTANTS
  a = a
  b = b
  c = c
  d = d
  x = x
  k1 = k1
  k2 = k2
  gone = gone
  Jobs = {j1}
  Workers = {w1}
  MaxCards = 2
  Cards = {a, b, c, d, x}
  Chunks = {k1, k2, gone}
  Context <- TwoChunks
  Replies <- VaryingReplies
  Cites <- HallucinatedCites
  Stored <- FixedCards
  MaxAttempts = 2
  MaxFaults = 0
CHECK_DEADLOCK FALSE
INVARIANTS
  EveryCardLinked
