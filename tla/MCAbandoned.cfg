SPECIFICATION AbandonedSpec
CONSTANTS
  Horizon = 3
  BufferLimit = 2
  BatchSize = 2
  MaxTime = 1
  MaxFaults = 2
  Mismatched <- LastMismatched
PROPERTIES
  CatchesUp
  InfluxIndependent
CHECK_DEADLOCK FALSE
