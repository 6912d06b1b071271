SPECIFICATION Spec
CONSTANTS
  u1 = u1
  u2 = u2
  old = old
  new = new
  newSpaced = newSpaced
  Units = {u1, u2}
  Versions <- MCVersions
  Canonical <- MCCanonical
  Images <- MCImages
  Packs <- MCPacks
  BlockingFaults = {"overcurrent"}
  MaxFlashCurrent = 1
  MinStateOfCharge = 1
  RaisingSinks <- Sinks
  PrebootQuiet = 2
  PostQueryQuiet = 1
  PostBootDelay = 1
  ReadTimeout = 1
  AckTimeout = 1
  DeadlineFloor = 3
  DeadlinePerPacket = 1
  BannerLimit = 2
  CompletionSize = 2
INVARIANT EscapeMeansNotBooted
