CONSTANTS
  t1 = t1
  c1 = c1
  c2 = c2
  Emitters <- MCOneEmitter
  Clients <- MCOneClient
  MaxConns = 1
  QMax = 2
  ReplayLimit = 10
  MaxLog = 5
  Heartbeats = FALSE
  LaneBusy = FALSE
SPECIFICATION Spec
INVARIANT OverflowRecovered
CHECK_DEADLOCK FALSE
