SPECIFICATION FairSpec
CONSTANTS
  Settings <- SettingsDistinct
  Lower <- LowerOf
  WellFormed <- WellFormedIds
  Templates <- TemplateFiles
  Static <- StaticFiles
  MaxStarts = 2
INVARIANTS
  TypeOK
  RunsOnlyOnGoodSettings
  EveryInstanceRendered
  VariablesRenamed
  NothingStale
PROPERTY StartEnds
CHECK_DEADLOCK FALSE
