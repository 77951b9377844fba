\* Does a SELECT on a range of ids print rows of the range only?
SPECIFICATION Spec
CONSTANTS
  t1 = t1
  t2 = t2
  t3 = t3
  Threads = {t1, t2, t3}
  MaxId = 3
  LongMax = 7
  Ages = {0, 1, 2}
  Workload <- RangeAndUpdates
  InitRows <- TwoRows
INVARIANT
  RangeResultInRange
