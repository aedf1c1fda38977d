CONSTANTS
  s1 = s1
  s2 = s2
  h1 = h1
  h2 = h2
  Starts <- MCOneStart
  Calls <- MCTwoCalls
  Ops <- MCBlocker
  Modes <- MCAuto
  MaxStages = 2
  MaxTurns = 1
  WorkersLive = FALSE
  Browser = FALSE
  LaneBusy = FALSE
SPECIFICATION Spec
INVARIANT BlockedWhileOpen
CHECK_DEADLOCK FALSE
