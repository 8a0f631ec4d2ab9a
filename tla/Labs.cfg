SPECIFICATION MCSpec
CONSTANTS
  s = 1
  E = 2
  b = 1
  Addrs = {0, 1, 2, 4, 6, 8, 12}
  MaxTime = 6
  Sources <- ShortSources
  Begins <- TextPairs
  Files <- SmallFiles
  SYM_LIM = 3
  ERRLIM = 5
  W = 32
  TEST_RANGE = 5
  Random <- SomeWords
  bytelim = 1000
  MAX_HEAP = 24
  CHUNKSIZE = 8
  Wild = 8
  BYTE = 4
  Runs <- SomeRuns
INVARIANTS LinesDistinct Transposed ImageFaithful AssemblersAgree HclFaithful PuzzlesRight NcopyRight DriverRight
PROPERTY ImplementsLru
CHECK_DEADLOCK FALSE
