SPECIFICATION Spec
CONSTANTS
  MaxSecs = 2
  PreRollSec = 1
  MaxBufferConfig = 4
  PostRollSec = 1
  Setups <- All
INVARIANTS ClipsInOrder EverythingRecorded RotatesOnTime SegmentsDecodable IdsMatch AnswerInTimeCounts ClipContiguous EventCovered SpanBounded
CHECK_DEADLOCK FALSE
