CONSTANTS
  MAX = 2
  OBJS = 2
  TxObjs <- Tx12
  NewTxObjs <- Tx21
  Numbers = {2, 3}
  DEF_NR = 125
  Votes = {"NONE"}
  Renumbering = TRUE
  Retyping = {}
  TaskCalls = FALSE
SPECIFICATION FairSpec
PROPERTY RequestEnds
