CONSTANTS
  SegBits = 1
  FanoutBits = 1
  OriginSlot = 0
  MaxSlot = 7
  MaxAdvance = 4
  WindowSlots = 2
  MaxOutputs = 64
  Undef = Undef
  v1 = v1
  v2 = v2
  RowVHs <- MCRowVHs
SPECIFICATION Spec
INVARIANTS Canonical PolicyRetains CandidateCovered
PROPERTIES ImplementsLog
