CONSTANTS
  Requests <- MCRequests
  Skippable <- MCSkippable
  Found <- MCFound
  MaxStarts = 1
  MaxValidate = 2
  MaxReview = 2
  Browser = TRUE
SPECIFICATION Spec
INVARIANT NoOrphan
CHECK_DEADLOCK FALSE
