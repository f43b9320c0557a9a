SPECIFICATION ModeSpec
CONSTANTS
  PageSize = 4
  HbinHeader = 1
  MaxHive = 16
  Boundaries <- SmallClasses
  FitTolerance = 1
  GrowFactor = 4
  Needs = {1, 2}
  InitPages = 1
  RootSize = 1
  BumpTotals = {2}
  TruncateCounts = {1, 2}
INVARIANTS FreeListsRight WalkMeetsLive VerifyAccepts
PROPERTIES Implements WritesMarked
CONSTRAINT NotOverrun
