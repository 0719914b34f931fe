CONSTANTS
  Clients = {"a"}
  Ops = {"start", "stop"}
  Keys = {"tp"}
  MaxRequests = 3
  MaxCrashes = 1
  MaxFaults = 1
  QuietBoot = FALSE
SPECIFICATION FairSpec
INVARIANTS
  TypeOK
  StopSticks
PROPERTIES
  CommandsServed
  CommandsInOrder
