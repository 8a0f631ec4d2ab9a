SPECIFICATION Spec
CONSTANTS
  MAXJOBS = 2
  MaxPid = 2
  UserKeys = {"TSTP"}
  ExtSignals = {"STOP"}
INVARIANT
  ForegroundRuns
