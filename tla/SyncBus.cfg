CONSTANTS
  Modules <- OneModule
  NrRx <- One
  NrTx <- One
  Monitor = TRUE
  Data = {0, 1}
  CLEAR = 0
  PreMod = 256
  MaxCnt = 4
  DlcFaults = FALSE
  LongPr = FALSE
  Switching = FALSE
  MaxLost = 2
  MaxWrong = 1
  Lag = 1
SPECIFICATION BusFairSpec
PROPERTIES
  TwoMissesNeverBothValid
  NoFalseAlarm
  Recovers
