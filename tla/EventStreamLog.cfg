CONSTANTS
  t1 = t1
  c1 = c1
  c2 = c2
  Emitters <- MCOneEmitter
  Clients <- MCOneClient
  MaxConns = 3
  QMax = 2
  ReplayLimit = 2
  MaxLog = 5
  Heartbeats = FALSE
  LaneBusy = FALSE
SPECIFICATION Spec
PROPERTY ImplementsLog
CHECK_DEADLOCK FALSE
