SPECIFICATION Spec
CONSTANTS
  t1 = t1
  t2 = t2
  Threads = {t1, t2}
  Pages = {2, 3, 4, 5, 6}
  MaxLeaf = 2
  MaxInternal = 2
  AnyPage = TRUE
  Workload <- UpdatesAndReads
  InitTree <- EmptyTree
INVARIANTS
  ScanSound
  NoFreedPageRead
PROPERTIES
  ImplementsKeySet
CHECK_DEADLOCK FALSE
