CONSTANTS
  MAX = 2
  OBJS = 4
  Types <- Four
  Retyped <- Same
  Numbers = {3, 4}
  DEF_NR = 125
  Votes = {"VALID_BUT_SET_SILENT"}
  MAIN_SIZE = 11
  MON_SIZE = 9
  MON_TX_MAX = 3
SPECIFICATION Spec
INVARIANTS
  TypeOK
  DataRouted
  SystemReached
  ControlReached
  SilentUnlessFailed
