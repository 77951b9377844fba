\* Three threads, two ids that DROP TABLE gives out again.
SPECIFICATION FairSpec
CONSTANTS
  t1 = t1
  t2 = t2
  t3 = t3
  Threads = {t1, t2, t3}
  MaxId = 2
  LongMax = 7
  Ages = {0, 1, 2}
  Workload <- Mixed
  InitRows <- OneRow
INVARIANTS
  TypeOK
  Consistent
  CountExact
  LockedRowStable
  FailedChangesNothing
PROPERTIES
  ImplementsTable
  StatementsEnd
