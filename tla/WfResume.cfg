CONSTANTS
  a = a
  b = b
  c = c
  d = d
  e1 = e1
  e2 = e2
  c1 = c1
  c2 = c2
  none = none
  Steps = {a, b, c, d}
  NoStep = none
  Defs <- PairOnly
  Execs = {e1}
  Callers = {c1}
  Ops = {"trigger", "pauseExecution", "resumeExecution"}
  Concurrency = 5
  MaxAttempts = 3
  PageSize = 100
  Retention = TRUE
  MaxTimers = 0
  MaxCalls = 2
  MaxFaults = 0
SPECIFICATION FairSpec
PROPERTY ResumedExecutionProceeds
CHECK_DEADLOCK FALSE
