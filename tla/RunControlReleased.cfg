CONSTANTS
  s1 = s1
  s2 = s2
  h1 = h1
  h2 = h2
  Starts <- MCOneStart
  Calls <- MCTwoCalls
  Ops <- MCMcp
  Modes <- MCAuto
  MaxStages = 2
  MaxTurns = 1
  WorkersLive = TRUE
  Browser = FALSE
  LaneBusy = FALSE
SPECIFICATION Spec
INVARIANT PausedIsHeld
CHECK_DEADLOCK FALSE
