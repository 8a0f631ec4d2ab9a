SPECIFICATION MCSpec
CONSTANTS
  Half = 4
  WordSize = 1
  Reg = {"eax", "esp"}
  Addr = {0, 1}
  And <- AndTable
  Xor <- XorTable
  Programs <- FourLines
  Starts <- MCStarts
  Memories <- Data
INVARIANTS SequentialInStep SimulatorInStep
PROPERTIES ImplementsIsa StallsEnd
CHECK_DEADLOCK FALSE
