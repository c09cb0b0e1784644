\* Three processes and crashes anywhere; a ring that divides the range of its
\* counters; a jitter buffer of ten blocks; a device with two rates and three
\* period sizes.
SPECIFICATION MediaSpec
CONSTANTS
  c = c
  ShmSize <- MCShmSize
  Procs = {a, b, c}
  Nobody = Nobody
  Garbage = 2
  FAIL_SEM_LOOP = 2
  SIZE = 4
  WORD = 8
  SEQ = 5
  WriteCounts = {1, 3}
  ReadCounts = {1, 3}
  Capacity = 10
  MIN_PAYLOAD_COUNT = 4
  READ_FRAME_COUNT = 2
  SEQ_MOD = 32
  MaxSeq = 11
  RECORD_SAMPLE_RATE = 2
  Rates = {2, 3}
  Periods = {1, 2, 3}
  AskedRates = {1, 2, 3}
  AskedFormats = {0, 2}
  AskedChannels = {1, 2}
  Durations = {1, 2}
  SizeT = 128
  ShortReads = TRUE
  Older = {0, 60}
  MaxData = 140
INVARIANTS SectionsExclude OneSegment OpenIsUsable NothingLeftBehind RingHoldsUnread ReadsInOrder CountIsCached AllReleased HeaderAgrees
