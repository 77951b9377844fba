\* Two threads with two pins between them, three pages over two frames.
SPECIFICATION Spec
CONSTANTS
  t1 = t1
  t2 = t2
  f1 = f1
  f2 = f2
  Threads = {t1, t2}
  Frames = {f1, f2}
  NoFrame = NoFrame
  MaxPage = 3
  Words = {1}
  MaxPins = 2
  HighWatermark = 2
  LowWatermark = 1
SYMMETRY Symmetry
INVARIANTS
  TypeOK
  PinsExact
  LatchExcludes
  FreeListExact
PROPERTIES
  ImplementsPageStore
CHECK_DEADLOCK FALSE
