\* Updates of a tree of three levels beside a search.
SPECIFICATION FairSpec
CONSTANTS
  t1 = t1
  t2 = t2
  Threads = {t1, t2}
  Pages = {2, 3, 4, 5, 6, 7, 8, 9, 10}
  MaxLeaf = 2
  MaxInternal = 2
  AnyPage = FALSE
  Workload <- UpdatesAndSearch
  InitTree <- ThreeLevels
INVARIANTS
  TypeOK
  Balanced
  PagesAccounted
PROPERTY
  CallsReturn
