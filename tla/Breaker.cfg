CONSTANTS
  c1 = c1
  c2 = c2
  never = never
  Calls = {c1, c2}
  FailureThreshold = 2
  SuccessThreshold = 2
  Timeout = 2
  ResetTimeout = 3
  MonitoringPeriod = 2
  MaxRequests = 4
  NoTime = never
SPECIFICATION Spec
INVARIANTS TypeOK BelowThreshold VerdictsAreFresh
PROPERTY ContractSpec
