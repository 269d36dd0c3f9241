SPECIFICATION FairSpec
CONSTANTS
  a = a
  b = b
  c = c
  d = d
  x = x
  k1 = k1
  k2 = k2
  gone = gone
  Jobs = {j1}
  Workers = {w1, w2}
  MaxCards = 2
  Cards = {a, b, c, d, x}
  Chunks = {k1, k2, gone}
  Context <- TwoChunks
  Replies <- VaryingReplies
  Cites <- SoundCites
  Stored <- FixedCards
  MaxAttempts = 3
  MaxFaults = 3
CHECK_DEADLOCK FALSE
INVARIANTS
  TypeOK
  ReadyHasRun
  WholeRounds
  NotForgotten
  EveryCardLinked
PROPERTIES
  JobOutcomeFinal
  OnlyStragglersStore
  JobSettles
