CONSTANTS
  MaxLots = 3
  MinLots = 1
  Lossy = {3}
  MaxPositions = 0
  MaxFaults = 0
  OcoEnabled = TRUE
  FlattenOnShutdown = TRUE
  ReadErrors = FALSE
  LateFills = FALSE
  SlowFills = FALSE
SPECIFICATION Spec
INVARIANTS
  StoppedFlat
