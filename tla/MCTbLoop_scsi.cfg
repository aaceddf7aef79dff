SPECIFICATION Spec
CONSTANTS
  Addrs = {0, 1}
  HaltA = 9
  LatMax = 2
  Limit = 10
  Blocks = {0, 1}
  Budgets <- BudgetsScsi
  MaxReq = 2
INVARIANT DiskMatches
