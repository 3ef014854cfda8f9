CONSTANTS
  r1 = r1
  r2 = r2
  r3 = r3
  u1 = u1
  p1 = p1
  p2 = p2
  p3 = p3
  none = none
  Requests = {r1, r2, r3}
  Users = {u1}
  Plans = {p1, p2, p3}
  ActivePlans = {p1, p2}
  None = none
  MaxChanges = 1
  MaxFaults = 1
SPECIFICATION Spec
SYMMETRY Symmetric
INVARIANTS TypeOK SettledRowAgrees NothingChargedUnseen SecondOnlyByOverlap
CHECK_DEADLOCK FALSE
