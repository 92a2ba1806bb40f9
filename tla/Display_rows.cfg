SPECIFICATION Spec
CONSTANTS
  RangeCounts = {1, 3}
  Fans <- MCFans
  SampleSizes = {1, 2, 3, 4}
  Modes = {1, 2}
  FullRanges = {3, 4}
  InvalidSize = 4
  NoPing = NoPing
  NoGeometry = NoGeometry
INVARIANTS
  RowMajor
CHECK_DEADLOCK FALSE
