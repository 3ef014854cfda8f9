CONSTANTS
  s1 = s1
  s2 = s2
  e1 = e1
  e2 = e2
  Services = {s1, s2}
  Events = {e1}
  MaxRetries = 1
  MaxCrashes = 1
SPECIFICATION FairSpec
INVARIANTS TypeOK NotLost OnlyFailingServicesGiveUp
PROPERTIES ContractSpec EveryEventSettles
CHECK_DEADLOCK FALSE
