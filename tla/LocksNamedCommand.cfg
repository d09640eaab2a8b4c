SPECIFICATION FairSpec
CONSTANTS
  Consumers = {c1}
  Stalling = {}
  SockCap = 1
  Commands = {"assign_by_name"}
  MaxFrames = 1
  MaxRecords = 2
  MaxRequests = 2

PROPERTIES CommandsAnswered
CHECK_DEADLOCK FALSE
