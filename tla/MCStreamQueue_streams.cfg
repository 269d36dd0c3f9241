SPECIFICATION FairSpec
CONSTANTS
  Workers = {w1, w2}
  ParseTasks = {p1}
  GenTasks = {g1}
  MaxAttempts = 2
  ParseBatchSize = 1
  GenBatchSize = 1
  Outcomes = {"ok", "transient"}
  MaxFaults = 2
PROPERTIES
  LedgerSpecs
  EventuallySettled
