SPECIFICATION Spec
CONSTANTS
  MaxPackets = 2
  NumSafePackets = 1
  PosMod = 16
  Order = "index_first"
  KeyFrames = FALSE
  Kinds = {"raw"}
  MetaInterval = 2
  MaxGap = 0
  MaxGen = 2
  MaxAt = 4
INVARIANTS HeadBeforeData
CHECK_DEADLOCK FALSE
