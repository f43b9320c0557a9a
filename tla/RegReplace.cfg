SPECIFICATION MCSpec
CONSTANTS
  Parts = {"reg"}
  PathOrder <- MCPathOrder
  Hives <- MCHives
  Threshold = 1
  UpperThreshold = 2
  MaxDepth = 3
  MaxOps = 2
  MaxNext = 1
  MaxPlans = 2
  AutoFlushThreshold = 2
  RootPrefixes = {3}
  Given <- MCGiven
  MaxAsked = 3
  MaxFlushes = 3
  RegPaths <- OnePath
  RegSpelled <- OneInCapitals
  RegNames = {"v"}
  MaxRegOps = 4
INVARIANT RegKeysSame
CHECK_DEADLOCK FALSE
