\* Overlapping runs of both scripts on either kind of volume: nothing is lost.
SPECIFICATION FairSpec
CONSTANTS
  r1 = r1
  r2 = r2
  x1 = x1
  x2 = x2
  LastTable = 2
  Run <- MCRun
  Row <- MCRow
  MaxKills = 1
  SchemaOnOldVolume = FALSE
INVARIANTS TypeOK BufferOverStorage RowsKept DoneMeansMigrated
PROPERTY Completes
\* The work ends when every table is migrated and every row inserted.
CHECK_DEADLOCK FALSE
