SPECIFICATION FairSpec
CONSTANTS
  p1 = p1
  p2 = p2
  Fds = {1, 2}
  Conns = {1, 2, 3}
  QueueMax = 1
  Setups <- Ordinary
INVARIANTS HelloCoversMedia SequencesGrow StatusCurrent
PROPERTIES ControlNeverDropped PartialWriteFinishes ConsumersSettled
CHECK_DEADLOCK FALSE
