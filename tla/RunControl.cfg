CONSTANTS
  s1 = s1
  s2 = s2
  h1 = h1
  h2 = h2
  Starts <- MCStarts
  Calls <- MCTwoCalls
  Ops <- MCAll
  Modes <- MCModes
  MaxStages = 2
  MaxTurns = 1
  WorkersLive = TRUE
  Browser = TRUE
  LaneBusy = FALSE
SPECIFICATION Spec
INVARIANT TypeOK
INVARIANT OneLiveTask
INVARIANT HeldIsPaused
SYMMETRY Symmetry
CHECK_DEADLOCK FALSE
