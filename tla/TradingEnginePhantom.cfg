CONSTANTS
  MaxLots = 1
  MinLots = 1
  Lossy = {}
  MaxPositions = 1
  MaxFaults = 1
  OcoEnabled = FALSE
  FlattenOnShutdown = TRUE
  ReadErrors = TRUE
  LateFills = TRUE
  SlowFills = FALSE
SPECIFICATION Spec
PROPERTIES
  ReconcileOnlyWhenGone
