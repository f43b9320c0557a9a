SPECIFICATION MCSpec
CONSTANTS
  r0 = r0
  r1 = r1
  r2 = r2
  r3 = r3
  r4 = r4
  Ref = {r0, r1, r2, r3, r4}
  Root = r0
  Case = 10
  MaxDepth = 1
  Uses <- MixedPlans
  Parts = {"keys"}
  PatchPaths <- MCPatchPaths
  Tried <- MCTried
  Hive <- MCHive
  HiveRoot = 1
  MaxCell = 25
SYMMETRY OtherRefs
INVARIANTS TreeRight
CHECK_DEADLOCK FALSE
