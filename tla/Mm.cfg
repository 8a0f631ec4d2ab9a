SPECIFICATION Spec
CONSTANTS
  MaxHeap = 104
  InitSize = 16
  MinExtend = 12
  ReallocExtend = 40
  Sizes = {16, 20, 40, 112}
  ReSizes = {0, 16, 40}
  Ids = {1, 2, 3, 4, 5, 6, 7, 8, 9, 10}
  CopiesDown = TRUE
  Scripts <- SomeScripts
INVARIANTS TypeOK HeapTiled TreeHoldsFree PayloadIntact FitsBest
CHECK_DEADLOCK FALSE
