CONSTANTS
  p1 = p1
  p2 = p2
  Plans <- MCPlans
  RoleRequests <- MCRequests
  MaxWorkers = 8
  DefaultWorkers = 2
  Strategies <- MCAll
  Paths = {p1, p2}
SPECIFICATION Spec
INVARIANT SlicedRight
INVARIANT PassedWhole
INVARIANT WorkReachable
INVARIANT DroppedAnnounced
INVARIANT MainSettled
INVARIANT NoWorkerOutlives
PROPERTY DevelopEnds
CHECK_DEADLOCK FALSE
