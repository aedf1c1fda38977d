CONSTANTS
  s1 = s1
  s2 = s2
  h1 = h1
  h2 = h2
  Starts <- MCStarts
  Calls <- MCNoCall
  Ops <- MCResume
  Modes <- MCAuto
  MaxStages = 2
  MaxTurns = 1
  WorkersLive = TRUE
  Browser = FALSE
  LaneBusy = TRUE
SPECIFICATION Spec
INVARIANT OneLiveTask
CHECK_DEADLOCK FALSE
