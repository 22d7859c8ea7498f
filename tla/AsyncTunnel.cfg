CONSTANTS
  LENGTH = 3
  DLC = 2
  Own = {1, 2}
  Primaries = {3}
  DEFNR = 0
  MaxBytes = 10
  MaxRefusals = 3
SPECIFICATION FairSpec
INVARIANT TypeOK StreamKept LockHeld LagIsRefusals
PROPERTY PutcReturns Flushed
