CONSTANTS
  c1 = c1
  c2 = c2
  k1 = k1
  k2 = k2
  a = a
  b = b
  MaxSubs = 1
  Contacts = {k1}
  Emails = {a, b}
  NoEmail = NoEmail
  Editions <- Edited
  MaxEmails = 2
  Callers = {c1, c2}
  Ops = {"activate", "unsubscribe", "pause", "resume", "pauseCampaign", "batch", "update", "delete"}
  Concurrency = 2
  MaxAttempts = 2
  MaxCalls = 2
  MaxFaults = 1
SPECIFICATION FairSpec
INVARIANTS TypeOK NeverAheadOfMail CompletionIsEarned InSequence
PROPERTY EverySubscriptionEnds
CHECK_DEADLOCK FALSE
