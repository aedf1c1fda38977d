CONSTANTS
  Stages <- MCStages
  ContextMax = 2
  MaxSent = 3
  MaxReviews = 1
  MaxPauses = 2
SPECIFICATION Spec
INVARIANT DevelopSees
PROPERTY UrgentResumes
CHECK_DEADLOCK FALSE
