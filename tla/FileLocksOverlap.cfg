CONSTANTS
  w1 = w1
  w2 = w2
  w3 = w3
  p1 = p1
  s1 = s1
  s2 = s2
  Workers <- MCWorkers
  Paths <- MCPaths
  Slots <- MCTwoSlots
  Timeout = 1
  MaxTime = 3
  LaneBusy = FALSE
SPECIFICATION Spec
INVARIANT NoOverlappingWrites
SYMMETRY Symmetry
