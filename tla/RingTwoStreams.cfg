SPECIFICATION Spec
CONSTANTS
  SlotCount = 3
  Producers = {p1, p2}
  Oversize = {}
  Bare = {}
  MaxFrames = 3
INVARIANTS PoppedWhole
CHECK_DEADLOCK FALSE
