CONSTANTS
  s1 = s1
  s2 = s2
  h1 = h1
  h2 = h2
  Starts <- MCOneStart
  Calls <- MCOneCall
  Ops <- MCPause
  Modes <- MCFresh
  MaxStages = 2
  MaxTurns = 1
  WorkersLive = FALSE
  Browser = FALSE
  LaneBusy = FALSE
SPECIFICATION Spec
PROPERTY InterviewKeepsPause
CHECK_DEADLOCK FALSE
