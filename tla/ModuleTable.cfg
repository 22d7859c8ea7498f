CONSTANTS
  MAX = 2
  OBJS = 2
  TxObjs <- Tx12
  NewTxObjs <- Tx21
  Numbers = {2}
  DEF_NR = 125
  Votes = {"NONE", "VALID", "VALID_BUT_SET_SILENT"}
  Renumbering = TRUE
  Retyping = {1}
  TaskCalls = TRUE
SPECIFICATION Spec
INVARIANT TypeOK
PROPERTIES
  SilentSendsNothing
  AwakeSendsAll
  SentUnderOwnNumber
