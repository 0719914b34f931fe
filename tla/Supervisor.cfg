CONSTANTS
  MaxLaunches = 2
  MaxSignals = 2
  MaxFaults = 2
  RunIds = {"env", "ui"}
  EnvRun = "env"
SPECIFICATION FairSpec
INVARIANTS
  TypeOK
  NoChildLeft
  StoppedShown
  StoppedMeansFlat
PROPERTIES
  ShutdownEnds
