SPECIFICATION Spec
CONSTANTS
  Capacity = 10
  MIN_PAYLOAD_COUNT = 4
  READ_FRAME_COUNT = 2
  SEQ_MOD = 32
  MaxSeq = 11
INVARIANT PositionInRange
CHECK_DEADLOCK FALSE
