SPECIFICATION FairSpec
CONSTANTS
  Deliverers = {parent}
  QueueDepth = 1
  MaxFrames = 1
PROPERTIES StopReturns
CHECK_DEADLOCK FALSE
