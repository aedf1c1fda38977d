CONSTANTS
  s1 = s1
  s2 = s2
  h1 = h1
  h2 = h2
  Starts <- MCOneStart
  Calls <- MCTwoCalls
  Ops <- MCControl
  Modes <- MCFresh
  MaxStages = 2
  MaxTurns = 1
  WorkersLive = TRUE
  Browser = TRUE
  LaneBusy = TRUE
SPECIFICATION Spec
INVARIANT CancelSticks
INVARIANT EndsAgree
PROPERTY PauseHolds
PROPERTY RunEnds
PROPERTY CancelledEnds
CHECK_DEADLOCK FALSE
