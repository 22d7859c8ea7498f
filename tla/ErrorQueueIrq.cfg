CONSTANTS
  SIZE = 4
  e1 = e1
  Errors <- MCErrors
  QUEUE_FULL = QUEUE_FULL
  ERR_OK = ERR_OK
SPECIFICATION IrqSpec
INVARIANTS
  IrqTypeOK
  
