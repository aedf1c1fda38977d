CONSTANTS
  MaxSpawns = 2
  MaxTurns = 1
  MaxStops = 2
  MaxInjects = 1
SPECIFICATION Spec
INVARIANT TypeOK
INVARIANT OneProcess
INVARIANT NoneLeft
INVARIANT AnswerCounts
CHECK_DEADLOCK FALSE
