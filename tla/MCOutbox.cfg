SPECIFICATION FairSpec
CONSTANTS
  None = None
  Sizes = {1, 2}
  MaxBuffered = 4
  Capacity = 2
  MaxFrames = 4
CHECK_DEADLOCK FALSE
INVARIANTS
  QueuedExact
  WholeStream
  NoGhost
  FramesMeetConnection
PROPERTIES
  ClosingEnds
  FramesGoOut
