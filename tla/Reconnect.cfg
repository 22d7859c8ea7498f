CONSTANTS
  BdrTable <- MCTable
  StartupRates = {250}
  NR_LEC_BIT0 = 2
  Restarts = FALSE
  DLOAD = TRUE
SPECIFICATION FairSpec
INVARIANTS
  TypeOK
  SearchOnlyListens
PROPERTIES
  MessageRateKept
  StartupEnds
  FindsTraffic
