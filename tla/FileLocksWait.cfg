CONSTANTS
  w1 = w1
  w2 = w2
  w3 = w3
  p1 = p1
  s1 = s1
  s2 = s2
  Workers <- MCThreeWorkers
  Paths <- MCPaths
  Slots <- MCSlots
  Timeout = 2
  MaxTime = 4
  LaneBusy = FALSE
SPECIFICATION Spec
PROPERTY TimeoutJustified
PROPERTY ClaimEnds
