SPECIFICATION Spec
CONSTANTS
  InitPages = 3
  MaxPages = 5
  Setups <- Adjacent
  MaxWrites = 3
  MaxSeq = 2
INVARIANTS DataBeforeHeader
CHECK_DEADLOCK FALSE
