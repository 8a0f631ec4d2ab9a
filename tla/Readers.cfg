SPECIFICATION MCSpec
CONSTANTS
  Total = 4
  NL <- SomeNewlines
  BUFSIZE = 2
  PipeSize = 3
  WriteSizes = {1, 3}
  Calls <- SomeCalls
  MaxInterrupts = 1
  MayFail = TRUE
INVARIANTS StreamIntact CallsComplete ReportedAccepted ScannersRight ParsedRight
PROPERTIES Delivered
