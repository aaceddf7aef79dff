CONSTANTS
  NDesc = 5
  NSlot = 2
  Lanes = 2
  SlotBeats = 2
  NdescMax = 4
  CntMod = 4
  Shapes <- ShapesMixed
  MaxPkt = 4
SPECIFICATION Spec
INVARIANT CrbdpOutsidePackets
