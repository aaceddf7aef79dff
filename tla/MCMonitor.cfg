SPECIFICATION Spec
CONSTANTS
  Bytes <- BytesAll
  LineMax = 2
  PollEvery = 2
  MaxIcnt = 3
  MaxBytes = 4
  MaxUnread = 2
  MaxConn = 2
INVARIANTS TypeOK HeldByClient
PROPERTIES StepExact NoSpuriousHalt Released
