CONSTANTS
  NDesc = 3
  NSlot = 2
  Lanes = 2
  SlotBeats = 2
  NdescMax = 9
  CntMod = 4
  Shapes <- ShapesAll
  MaxPkt = 4
SPECIFICATION Spec
INVARIANTS TypeOK WireFaithful StagedIntact ReclaimSafe
PROPERTIES AllSent AllReaped
