SPECIFICATION Spec
CONSTANTS
  Addrs = {0, 1}
  HaltA = 9
  LatMax = 2
  Limit = 10
  Blocks = {0, 1}
  Budgets <- BudgetsAll
  MaxReq = 2
INVARIANTS TypeOK MemFaithful DiskFollows NoFalseWedge
PROPERTY Answered
