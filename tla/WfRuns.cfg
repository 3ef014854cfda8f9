CONSTANTS
  a = a
  b = b
  c = c
  d = d
  e1 = e1
  e2 = e2
  c1 = c1
  c2 = c2
  none = none
  Steps = {a, b, c, d}
  NoStep = none
  Defs <- Graphs
  Execs = {e1}
  Callers = {c1}
  Ops = {"trigger"}
  Concurrency = 2
  MaxAttempts = 3
  PageSize = 2
  Retention = TRUE
  MaxTimers = 0
  MaxCalls = 0
  MaxFaults = 1
SPECIFICATION FairSpec
INVARIANTS EffectAtMostOnce EffectsBoundedByRuns NotStranded
PROPERTIES EveryExecutionEnds OutcomeIsFinal
CHECK_DEADLOCK FALSE
