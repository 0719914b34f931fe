CONSTANTS
  Runs = {r1, r2}
  Pnls <- MCPnls
  Balances = {5}
  None = None
  Limit = 1
  MaxSize = 8
  MaxCrashes = 1
  MaxDay = 1
SYMMETRY Symmetry
SPECIFICATION Spec
INVARIANTS
  TypeOK
  DailyIsAggregate
  ReportsAgree
  FillsShown
  PagesSkipNothing
CHECK_DEADLOCK FALSE
