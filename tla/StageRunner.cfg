SPECIFICATION FairSpec
CONSTANTS
  Deliverers = {parent, helper}
  QueueDepth = 2
  MaxFrames = 5
INVARIANTS TypeOK Accounting
PROPERTIES ImplementsDropQueue QueuedFrameMoves
CHECK_DEADLOCK FALSE
