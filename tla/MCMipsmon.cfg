SPECIFICATION Spec
CONSTANTS
  Rows = 2
  Cols = 2
  Tab = 4
  MAX_SCROLLBACK = 8
  MAX_HISTORY = 2
  Sessions <- SessionsAll
  MaxInput = 2
INVARIANTS TypeOK DrawFaithful
PROPERTY StashReturned
