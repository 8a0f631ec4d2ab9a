SPECIFICATION Spec
CONSTANTS
  Conns = {c1, c2}
  Requests <- GetRequests
  Responses <- OneResponse
  FdLimit = 4
  BufLines = 1
  MaxTime = 0
INVARIANTS ProxySurvives
