SPECIFICATION Spec
CONSTANTS
  MaxSecs = 2
  PreRollSec = 1
  MaxBufferConfig = 4
  PostRollSec = 1
  Setups <- Cap
INVARIANTS EventStartsDecodable
CHECK_DEADLOCK FALSE
