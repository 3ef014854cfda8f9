CONSTANTS
  a = a
  b = b
  c = c
  d = d
  e1 = e1
  e2 = e2
  c1 = c1
  c2 = c2
  none = none
  Steps = {a, b, c, d}
  NoStep = none
  Defs <- Edited
  Execs = {e1}
  Callers = {c1, c2}
  Ops = {"trigger", "update", "activate", "delete", "pauseExecution", "resumeExecution", "pauseWorkflow"}
  Concurrency = 2
  MaxAttempts = 3
  PageSize = 2
  Retention = FALSE
  MaxTimers = 1
  MaxCalls = 2
  MaxFaults = 0
SPECIFICATION Spec
INVARIANTS TypeOK OnlyReachedSteps OutcomeIsLogged RepetitionNeedsPauseAndResume
SYMMETRY CallerSymmetry
CHECK_DEADLOCK FALSE
