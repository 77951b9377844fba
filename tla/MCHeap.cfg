\* Two threads, three pages of two rows each.
SPECIFICATION FairSpec
CONSTANTS
  t1 = t1
  t2 = t2
  Threads = {t1, t2}
  NoThread = NoThread
  Workload <- Mixed
  MaxPage = 3
  PageSize = 64
  RowSize = 10
INVARIANTS
  TypeOK
  RowsApart
  FreeSlotsExact
  HeapScanSound
PROPERTIES
  ImplementsRowStore
  CallsReturn
CHECK_DEADLOCK FALSE
