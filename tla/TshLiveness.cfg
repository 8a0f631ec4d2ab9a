SPECIFICATION FairSpec
CONSTANTS
  MAXJOBS = 1
  MaxPid = 2
  UserKeys = {"TSTP"}
  ExtSignals = {"KILL", "CONT"}
PROPERTIES ZombiesReaped WaitfgEnds
