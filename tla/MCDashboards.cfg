CONSTANTS
  Panels <- AllPanels
  Collections <- SmallCollections
  Settings <- SmallSettings
SPECIFICATION Spec
INVARIANTS
  BoardsTypeOK NoOverlap
  VerdictIsRight ReplacedByItsOwnValue FirstValuesMatchRows
  ClickLandsOnRow ClickShowsExactly PanelsRespectSelection SelectionExists
  FreshCompareHasBothSides TwinsAgree
\* A check that exited does nothing more.
CHECK_DEADLOCK FALSE
