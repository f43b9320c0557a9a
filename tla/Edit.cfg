SPECIFICATION MCSpec
CONSTANTS
  r0 = r0
  r1 = r1
  r2 = r2
  r3 = r3
  r4 = r4
  r5 = r5
  r6 = r6
  Ref = {r0, r1, r2, r3, r4, r5, r6}
  Root = r0
  Case = 10
  MaxDepth = 3
  Uses <- Disciplined
  Parts = {"keys", "patch"}
  PatchPaths <- MCPatchPaths
  Tried <- MCTried
  Hive <- MCHive
  HiveRoot = 1
  MaxCell = 25
SYMMETRY OtherRefs
INVARIANTS KeysRight KeysWhole PatchRight PatchSafe
CHECK_DEADLOCK FALSE
