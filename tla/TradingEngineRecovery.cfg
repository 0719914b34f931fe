CONSTANTS
  MaxLots = 1
  MinLots = 1
  Lossy = {}
  MaxPositions = 1
  MaxFaults = 2
  OcoEnabled = FALSE
  FlattenOnShutdown = TRUE
  ReadErrors = TRUE
  LateFills = TRUE
  SlowFills = FALSE
SPECIFICATION FairSpec
PROPERTIES
  StopCompletes
  StrayPositionAdopted
  StopAdvances
  LedgerKept
