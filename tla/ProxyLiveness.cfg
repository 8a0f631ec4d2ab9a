SPECIFICATION FairSpec
CONSTANTS
  Conns = {c1, c2}
  Requests <- GetAndPost
  Responses <- OneResponse
  FdLimit = 4
  BufLines = 1
  MaxTime = 0
PROPERTIES ThreadsEnd
