CONSTANTS
  x = x
  y = y
  t1 = t1
  t2 = t2
  none = none
  MaxConns = 3
  NoConn = none
  Types = {x}
  Tasks = {t1, t2}
  MaxReconnectAttempts = 2
  MaxHandlers = 2
  MaxSubscriptions = 1
  MaxFaults = 2
SPECIFICATION FairSpec
INVARIANTS TypeOK RepairUnderWay LossWillBeNoticed
PROPERTY EndsUsable
CHECK_DEADLOCK FALSE
