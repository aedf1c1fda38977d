CONSTANTS
  t1 = t1
  c1 = c1
  c2 = c2
  Emitters <- MCOneEmitter
  Clients <- MCOneClient
  MaxConns = 1
  QMax = 10
  ReplayLimit = 10
  MaxLog = 3
  Heartbeats = FALSE
  LaneBusy = FALSE
SPECIFICATION Spec
INVARIANT NoEventSkipped
CHECK_DEADLOCK FALSE
