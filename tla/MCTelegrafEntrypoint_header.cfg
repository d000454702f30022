SPECIFICATION Spec
CONSTANTS
  Settings <- SettingsHeader
  Lower <- LowerOf
  WellFormed <- WellFormedIds
  Templates <- TemplateFiles
  Static <- StaticFiles
  MaxStarts = 1
INVARIANT AsTheHeaderSays
CHECK_DEADLOCK FALSE
