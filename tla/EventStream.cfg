CONSTANTS
  t1 = t1
  c1 = c1
  c2 = c2
  Emitters <- MCOneEmitter
  Clients <- MCClients
  MaxConns = 1
  QMax = 1
  ReplayLimit = 10
  MaxLog = 2
  Heartbeats = TRUE
  LaneBusy = TRUE
SPECIFICATION Spec
INVARIANT TypeOK
INVARIANT NothingLostLive
INVARIANT NoDeafConnection
PROPERTY DoneArrives
CHECK_DEADLOCK FALSE
