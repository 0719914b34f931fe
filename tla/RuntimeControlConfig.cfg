CONSTANTS
  Clients = {"a"}
  Ops = {"save", "start", "stop"}
  Keys = {"tp", "sl"}
  MaxRequests = 3
  MaxCrashes = 2
  MaxFaults = 0
  QuietBoot = TRUE
SPECIFICATION FairSpec
INVARIANTS
  VersionTells
  BootForcedOff
PROPERTIES
  ConfigConverges
