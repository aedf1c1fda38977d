CONSTANTS
  t1 = t1
  c1 = c1
  c2 = c2
  Emitters <- MCOneEmitter
  Clients <- MCOneClient
  MaxConns = 1
  QMax = 10
  ReplayLimit = 10
  MaxLog = 4
  Heartbeats = TRUE
  LaneBusy = FALSE
SPECIFICATION Spec
PROPERTY InOrder
CHECK_DEADLOCK FALSE
