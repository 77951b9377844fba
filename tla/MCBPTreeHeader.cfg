\* A deletion that merges leaves beside an insertion into the leaf after them.
SPECIFICATION Spec
CONSTANTS
  t1 = t1
  t2 = t2
  Threads = {t1, t2}
  Pages = {2, 3, 4, 5, 6}
  MaxLeaf = 2
  MaxInternal = 2
  AnyPage = FALSE
  Workload <- DeleteAndInsert
  InitTree <- ThreeLeaves
PROPERTY
  ImplementsKeySet
