SPECIFICATION Spec
CONSTANTS
  MAXJOBS = 2
  MaxPid = 2
  UserKeys = {"INT", "TSTP"}
  ExtSignals = {"STOP", "KILL"}
INVARIANTS
  NoStaleJob
  EveryChildTracked
  OneForeground
  OnlyForegroundSignalled
  TableMatchesKernel
  ShellInv
PROPERTY
  ImplementsJobControl
