CONSTANTS
  MaxLots = 2
  MinLots = 2
  Lossy = {2}
  MaxPositions = 0
  MaxFaults = 2
  OcoEnabled = FALSE
  FlattenOnShutdown = TRUE
  ReadErrors = FALSE
  LateFills = TRUE
  SlowFills = FALSE
SPECIFICATION Spec
INVARIANTS
  TypeOK
  MemoryMatchesTables
  ExposureBounded
PROPERTIES
  ExitsOnlyReduce
