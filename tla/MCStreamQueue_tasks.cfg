SPECIFICATION Spec
CONSTANTS
  Workers = {w1, w2}
  ParseTasks = {p1, p2}
  GenTasks = {}
  MaxAttempts = 2
  ParseBatchSize = 2
  GenBatchSize = 1
  Outcomes = {"ok", "transient", "permanent"}
  MaxFaults = 2
SYMMETRY Symmetry
INVARIANTS
  TypeOK
  NothingLost
  AtMostOneCopy
  AttemptsInOrder
  DeadLettersJustified
  StreamsBounded
