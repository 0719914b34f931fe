CONSTANTS
  Clients = {"c1", "c2"}
  MaxChanges = 2
  MaxRefreshes = 1
  MaxCuts = 2
SPECIFICATION FairSpec
INVARIANTS
  TypeOK
  HubCurrent
  ClientsAgree
PROPERTIES
  StreamComesBack
  GoneClientsDropped

