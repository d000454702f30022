SPECIFICATION Spec
CONSTANTS
  e1 = e1
  e2 = e2
  e3 = e3
  k1 = k1
  k2 = k2
  Entry <- MCEntry
  Mask <- MCMask
  MaskOf <- MCMaskOf
  MaxEntries = 2
  TopN = 2
  BucketLen = 2
  Before = 2
  MaxWork = 2
  MaxSamples = 3
\* Work and samples are bounded.
CHECK_DEADLOCK FALSE
INVARIANT TopNBelowBreakdown
