CONSTANTS
  x = x
  y = y
  t1 = t1
  t2 = t2
  none = none
  MaxConns = 2
  NoConn = none
  Types = {x, y}
  Tasks = {t1, t2}
  MaxReconnectAttempts = 2
  MaxHandlers = 2
  MaxSubscriptions = 2
  MaxFaults = 1
SPECIFICATION FairSpec
PROPERTY ResubscribesAll
CHECK_DEADLOCK FALSE
