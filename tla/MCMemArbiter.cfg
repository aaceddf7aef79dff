CONSTANTS
  NSLOT = 5
  Masters <- WideMasters
  SLOT_MAP <- WideMap
SPECIFICATION Spec
INVARIANTS TypeOK AnswerToOwner BoundedBypass
PROPERTY Served
