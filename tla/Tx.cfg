SPECIFICATION Spec
CONSTANTS
  InitPages = 4
  MaxPages = 5
  Setups <- Platforms
  MaxWrites = 3
  MaxSeq = 2
INVARIANTS TypeOK HeaderNeverAhead DataBeforeHeader AckedDurable CleanHeaderRight
CHECK_DEADLOCK FALSE
