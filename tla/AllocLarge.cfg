SPECIFICATION ModeSpec
CONSTANTS
  PageSize = 8
  HbinHeader = 1
  MaxHive = 16
  Boundaries <- SmallClasses
  FitTolerance = 1
  GrowFactor = 4
  Needs = {1, 2, 3}
  InitPages = 1
  RootSize = 1
  BumpTotals = {2}
  TruncateCounts = {1}
INVARIANT MergesRight
CONSTRAINT NotOverrun
