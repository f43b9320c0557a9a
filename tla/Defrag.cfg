SPECIFICATION MCSpec
CONSTANTS
  Parts = {"copy"}
  k1 = k1
  f1 = f1
  Key = {k1}
  Value = {f1}
  Setups <- RepairSetups
  MaxDiags = 3
  MaxCalls = 2
  TreeOrder <- SixKeys
  Hits <- SixHits
  Found <- SixFound
  Rows <- SixRows
  Unread <- SixUnread
  Sorted <- SixKeys
  Targets <- SixTargets
  MaxKeys = 6
  MaxHasty = 4
  MaxRush = 1
INVARIANTS DefragKeeps
CHECK_DEADLOCK FALSE
