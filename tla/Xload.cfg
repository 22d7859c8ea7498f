CONSTANTS
  A = A
  B = B
  NONE = NONE
  FRAME = 2
  SIZE = 5
  MAX = 3
  LINE = 2
  FILE = 10
  UPLOAD = 3
  MaxDisturb = 1
  MaxFaults = 2
  MaxTries = 1
SPECIFICATION FairSpec
CHECK_DEADLOCK FALSE
INVARIANT TypeOK IndicesAgree RoomForBlock AckedIsProgrammed
PROPERTY Completes
