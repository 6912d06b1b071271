SPECIFICATION FairSpec
CONSTANTS
  u1 = u1
  u2 = u2
  old = old
  new = new
  newSpaced = newSpaced
  Units = {u1}
  Versions <- MCOneVersion
  Canonical <- MCSameCanonical
  Images <- MCLongImages
  Packs <- MCOnePack
  BlockingFaults = {"overcurrent"}
  MaxFlashCurrent = 1
  MinStateOfCharge = 1
  RaisingSinks <- MCCoveredSinks
  PrebootQuiet = 2
  PostQueryQuiet = 2
  PostBootDelay = 1
  ReadTimeout = 1
  AckTimeout = 3
  DeadlineFloor = 4
  DeadlinePerPacket = 2
  BannerLimit = 3
  CompletionSize = 3
INVARIANTS ReadsEndByDeadline OrdinaryTimeoutRestored
PROPERTIES FlashEnds
