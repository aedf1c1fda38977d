CONSTANTS
  Requests <- MCRequests
  Skippable <- MCSkippable
  Found <- MCFound
  MaxStarts = 2
  MaxValidate = 2
  MaxReview = 2
  Browser = TRUE
SPECIFICATION Spec
INVARIANT DevelopHasPlan
CHECK_DEADLOCK FALSE
