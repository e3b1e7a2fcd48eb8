SPECIFICATION FairSpec
CONSTANTS
  MaxPackets = 2
  NumSafePackets = 1
  PosMod = 16
  Order = "init_first"
  KeyFrames = TRUE
  Kinds = {"raw", "meta", "pcp"}
  MetaInterval = 2
  MaxGap = 1
  MaxGen = 2
  MaxAt = 4
INVARIANTS NeverRepeats LosesOnlyOverwritten StartsAtKeyFrame
PROPERTIES Delivered NewHeaderSent
CHECK_DEADLOCK FALSE
