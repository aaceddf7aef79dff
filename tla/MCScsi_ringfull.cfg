SPECIFICATION Spec
CONSTANTS
  Lanes = 2
  Sector = 2
  NCq = 1
  NBeats = 4
  NdescMax = 3
  Commands <- CommandsAbsent
  Chains <- ChainsOne
  MaxSel = 3
PROPERTY Answered
