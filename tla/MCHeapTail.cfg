\* Is every latch given back by the thread that took it?
\* Two threads, three pages of two rows each.
SPECIFICATION Spec
CONSTANTS
  t1 = t1
  t2 = t2
  Threads = {t1, t2}
  NoThread = NoThread
  Workload <- Mixed
  MaxPage = 3
  PageSize = 64
  RowSize = 10
INVARIANT
  LatchesReturned
CHECK_DEADLOCK FALSE
