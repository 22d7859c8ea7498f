CONSTANTS
  SIZE = 4
  e1 = e1
  e2 = e2
  Errors <- MCErrors
  QUEUE_FULL = QUEUE_FULL
  ERR_OK = ERR_OK
SPECIFICATION Spec
INVARIANTS
  TypeOK
  LossAnnounced
  IndicesAgree
PROPERTY ImplementsErrorLog
