\* Three threads, points, ranges and upgrades; calloc can fail.
SPECIFICATION FairSpec
CONSTANTS
  t1 = t1
  t2 = t2
  t3 = t3
  Threads = {t1, t2, t3}
  Keys = {1, 2, 3}
  Workload <- MixedWorkload
  TimeoutOn = TRUE
  AllocBound = 2
INVARIANTS
  TypeOK
  NoConflict
  NoLostWakeup
  WaitersNotUndercounted
  WaitsForMore
PROPERTIES
  WriterPreference
  ImplementsLockManager
  CallsReturn
