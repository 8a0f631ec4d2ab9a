SPECIFICATION Spec
CONSTANTS
  MaxHeap = 104
  InitSize = 16
  MinExtend = 12
  ReallocExtend = 40
  Sizes = {16, 20, 40, 112}
  ReSizes = {0, 16, 40}
  Ids = {1, 2, 3, 4, 5, 6, 7, 8, 9, 10}
  CopiesDown = FALSE
  Scripts <- SomeScripts
INVARIANTS DataPreserved
CHECK_DEADLOCK FALSE
