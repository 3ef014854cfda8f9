CONSTANTS
  c2 = c2
  c1 = c1
  k1 = k1
  k2 = k2
  a = a
  b = b
  MaxSubs = 1
  Contacts = {k1}
  Emails = {a, b}
  NoEmail = NoEmail
  Editions <- Edited
  MaxEmails = 2
  Callers = {c1}
  Ops = {"activate"}
  Concurrency = 2
  MaxAttempts = 2
  MaxCalls = 0
  MaxFaults = 1
SPECIFICATION Spec
INVARIANT CompletedWhenAllSent
CHECK_DEADLOCK FALSE
