\* A scan along the leaves beside a deletion that empties a leaf.
SPECIFICATION FairSpec
CONSTANTS
  t1 = t1
  t2 = t2
  Threads = {t1, t2}
  Pages = {2, 3, 4, 5, 6}
  MaxLeaf = 2
  MaxInternal = 2
  AnyPage = FALSE
  Workload <- DeleteAndScan
  InitTree <- TwoLeaves
PROPERTY
  CallsReturn
CHECK_DEADLOCK FALSE
