SPECIFICATION FairSpec
CONSTANTS
  Consumers = {c1, c2}
  Stalling = {}
  SockCap = 1
  Commands = {"status", "assign"}
  MaxFrames = 1
  MaxRecords = 2
  MaxRequests = 2
INVARIANTS TypeOK
PROPERTIES NobodyWaitsForEver
CHECK_DEADLOCK FALSE
