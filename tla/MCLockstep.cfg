SPECIFICATION Spec
CONSTANTS
  Prog <- ProgAll
  Mapped = {2, 3, 40, 41, 42, 43, 44, 45, 46}
  Vec = 20
  Gen = 30
  Regs = {1, 2, 3}
  Scratch = {3}
  Addrs = {0, 1}
  Vals = {0, 1}
  Tlbs = {0, 1}
  DevBase = 1
  Configs <- ConfigsAll
  Settle = 2
  ReportMax = 2
INVARIANTS TypeOK NoFalseAlarm Locked RootStore ClobberReported
