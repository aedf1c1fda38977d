CONSTANTS
  Requests <- MCRequests
  Skippable <- MCSkippable
  Found <- MCFound
  MaxStarts = 3
  MaxValidate = 2
  MaxReview = 2
  Browser = TRUE
SPECIFICATION Spec
INVARIANT TypeOK
INVARIANT Gates
INVARIANT BuildsWhatWasReviewed
INVARIANT PassedWhole
PROPERTY NoStageRepeated
PROPERTY StartEnds
CHECK_DEADLOCK FALSE
