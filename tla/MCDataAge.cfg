SPECIFICATION AgeSpec
CONSTANTS
  Horizon = 3
  BufferLimit = 3
  BatchSize = 2
  MaxTime = 1
  FlushInterval = 1
  MaxFaults = 1
  Mismatched <- NoMismatch
INVARIANT CrashLosesRecentData
CHECK_DEADLOCK FALSE
