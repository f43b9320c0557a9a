SPECIFICATION MCSpec
CONSTANTS
  Parts = {"session", "builder", "reg"}
  PathOrder <- MCPathOrder
  Hives <- MCHives
  Threshold = 1
  UpperThreshold = 2
  MaxDepth = 3
  MaxOps = 2
  MaxNext = 1
  MaxPlans = 2
  AutoFlushThreshold = 2
  RootPrefixes = {3}
  Given <- MCGiven
  MaxAsked = 3
  MaxFlushes = 3
  RegPaths <- Chain
  RegSpelled <- AndInLowerCase
  RegNames = {"v", "V", ""}
  MaxRegOps = 4
INVARIANTS CommittedRight FailsForCause HasKeysRight CutOffSafe BuilderRight RegSame
CHECK_DEADLOCK FALSE
