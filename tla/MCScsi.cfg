SPECIFICATION Spec
CONSTANTS
  Lanes = 2
  Sector = 2
  NCq = 2
  NBeats = 4
  NdescMax = 3
  Commands <- CommandsAll
  Chains <- ChainsAll
  MaxSel = 3
INVARIANTS TypeOK ReadLanded WriteOnDisk QuietAfterAnswer
PROPERTY Answered
