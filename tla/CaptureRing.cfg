SPECIFICATION FairSpec
CONSTANTS
  SlotCount = 3
  Producers = {p1}
  Oversize = {3}
  Bare = {4}
  MaxFrames = 6
INVARIANTS TypeOK NoDataRace
PROPERTIES ImplementsFifo PushedFramePopped StopReturns
CHECK_DEADLOCK FALSE
