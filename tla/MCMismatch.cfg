SPECIFICATION PromptSpec
CONSTANTS
  Horizon = 6
  BufferLimit = 4
  BatchSize = 2
  MaxTime = 1
  MaxFaults = 0
  PerFlush = 2
  Mismatched <- FirstMismatched
INVARIANT OtherTablesUnaffected
CHECK_DEADLOCK FALSE
