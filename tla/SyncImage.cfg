CONSTANTS
  Modules <- OneModule
  NrRx <- None
  NrTx <- One
  Monitor = TRUE
  Data = {0, 1}
  CLEAR = 0
  PreMod = 3
  MaxCnt = 2
  DlcFaults = TRUE
  LongPr = TRUE
  Switching = TRUE
SPECIFICATION Spec
INVARIANT TypeOK
PROPERTY TwoMissesNeverBothValid FlaggedErrorReachesVerdict
