SPECIFICATION FairSpec
CONSTANTS
  FrameSize = 4
  MagicSize = 2
  MaxBuffer = 8
  AckSize = 2
  Sessions <- MCSessions
INVARIANTS TypeOK RoomForMore NoFrameSkipped FreshAnswerIsLast PreBootFresh
PROPERTIES ImplementsQueryContract QueryEnds
