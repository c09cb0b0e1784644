\* A buffer that does not divide the range of the counters, as 10 and 2^32.
SPECIFICATION RingSpec
CONSTANTS
  SIZE = 3
  WORD = 8
  SEQ = 5
  WriteCounts = {1}
  ReadCounts = {1}
INVARIANTS ReadsInOrder
