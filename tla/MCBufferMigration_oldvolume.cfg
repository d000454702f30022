SPECIFICATION FairSpec
CONSTANTS
  r1 = r1
  r2 = r2
  x1 = x1
  x2 = x2
  LastTable = 2
  Run <- MCRun
  Row <- MCRow
  MaxKills = 1
  SchemaOnOldVolume = TRUE
PROPERTY Completes
CHECK_DEADLOCK FALSE
