SPECIFICATION Spec
CONSTANTS
  Contents <- MCContents
  Constraints <- MCConstraints
  Arguments <- MCArguments
  SMALLEST <- MCSmallest
  LARGEST = 15
  INT_MIN <- MCIntMin
  INT_MAX = 7
  BSEARCH_THRESHOLD = 1
INVARIANT NothingMissed
INVARIANT OnlyMatchingRows
CHECK_DEADLOCK FALSE
