CONSTANTS
  r1 = r1
  r2 = r2
  r3 = r3
  r4 = r4
  r5 = r5
  a1 = a1
  a2 = a2
  e1 = e1
  none = none
  Requests = {r1, r2, r3, r4, r5}
  Users = {a1, a2, e1}
  NumStages = 2
  Approvers <- TwoStages
  Required <- BothFirst
  None = none
  MaxFaults = 1
SPECIFICATION Spec
SYMMETRY Symmetric
INVARIANTS TypeOK OutcomeFollowsVotes VotesLostOnlyByOverlap NoOldCopyAfterUpdate
CHECK_DEADLOCK FALSE
