CONSTANTS
  BdrTable <- MCTable
  StartupRates = {125, 250}
  NR_LEC_BIT0 = 2
  Restarts = TRUE
  DLOAD = TRUE
SPECIFICATION Spec
PROPERTY ConnectsAtMeasuredRate
