CONSTANTS
  p1 = p1
  c1 = c1
  c2 = c2
  w1 = w1
  w2 = w2
  Emails = {1, 2, 3}
  Priorities = {"normal"}
  Priority <- AllNormal
  Procs = {p1}
  Callers = {c1, c2}
  Walkers = {w1, w2}
  BatchSize = 2
  Concurrency = 1
  MaxBucket = 1
  MaxJobs = 3
  MaxCommands = 2
  MaxFaults = 1
SPECIFICATION FairSpec
INVARIANTS TypeOK InOnePlace NoFullBatchWaits
PROPERTIES ContractSpec EveryEmailIsMailed
CHECK_DEADLOCK FALSE
