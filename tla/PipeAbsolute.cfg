SPECIFICATION MCSpec
CONSTANTS
  Half = 4
  WordSize = 1
  Reg = {"eax", "esp"}
  Addr = {0, 1}
  And <- AndTable
  Xor <- XorTable
  Programs <- Absolute
  Starts <- MCStarts
  Memories <- Data
INVARIANT SequentialInStep
CHECK_DEADLOCK FALSE
