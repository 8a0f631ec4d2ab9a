SPECIFICATION Spec
CONSTANTS
  Conns = {c1, c2}
  Requests <- AllRequests
  Responses <- AllResponses
  FdLimit = 4
  BufLines = 1
  MaxTime = 1
SYMMETRY Symmetry
INVARIANTS MutualExclusion RightServer DescriptorsOwned DescriptorsReclaimed  ProxyInv
