SPECIFICATION FairSpec
CONSTANTS
  s1 = s1
  s2 = s2
  Sources = {s1, s2}
  Workers = {w1, w2}
  Readable = {s1}
  MaxAttempts = 3
  MaxFaults = 2
  ChunkCount <- TwoKinds
CHECK_DEADLOCK FALSE
INVARIANTS
  TypeOK
  IndexedComplete
  NotForgotten
PROPERTIES
  OutcomeFinal
  ChunksFrozen
  SourceSettles
