CONSTANTS
  MaxTime = 4
  MaxUpsets = 1
  DayLen = 3
  Prices = {10, 11}
  Slip = 1
  Distances = {1}
  TakeProfit = 1
  Scales = {50, 100}
  RiskBudget = 3
  MaxNotional = 40
  LeverageCap = 80
  MinOrder = 20
  MaxPosition = 4
  Limits <- MCLimits
  MinHold = 1
SPECIFICATION Spec
INVARIANTS
  TypeOK
  BookFollowsEngine
  RiskBudgetKept
  ExitsAsNamed
PROPERTIES
  LossPauseHolds
  DailyLimitHolds
