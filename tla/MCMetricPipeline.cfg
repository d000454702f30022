SPECIFICATION Spec
CONSTANTS
  Horizon = 4
  BufferLimit = 2
  BatchSize = 2
  MaxTime = 1
  MaxFaults = 2
  Mismatched <- SecondMismatched
INVARIANTS
  TypeOK
  Accounted
  FreshestKept
  DuplicatesOnlyAfterReject
  LossWindow
PROPERTY ImplementsStore
CHECK_DEADLOCK FALSE
