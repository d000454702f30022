SPECIFICATION Spec
CONSTANTS
  e1 = e1
  e2 = e2
  o1 = o1
  o2 = o2
  o3 = o3
  Env <- MCEnv
  Object <- MCObject
  TopN = 2
  MaxSize = 1
  MaxChanges = 2
  MaxSamples = 3
SYMMETRY Symmetry
INVARIANTS StoresCompareAlike OnlyInIsMissingOrCut ShortRangeIsExact UnusedWasNotScanned
