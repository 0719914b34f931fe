CONSTANTS
  Clients = {"a"}
  Ops = {"save", "start", "stop"}
  Keys = {"tp"}
  MaxRequests = 3
  MaxCrashes = 0
  MaxFaults = 0
  QuietBoot = TRUE
SPECIFICATION Spec
INVARIANTS
  StopSticks
