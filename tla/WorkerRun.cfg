CONSTANTS
  MaxSpawns = 2
  MaxTurns = 1
  MaxStops = 1
  MaxInjects = 1
SPECIFICATION Spec
INVARIANT OneProcess
INVARIANT NoneLeft
INVARIANT AnswerCounts
PROPERTY WorkerEnds
CHECK_DEADLOCK FALSE
