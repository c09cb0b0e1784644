SPECIFICATION Spec
CONSTANTS
  RECORD_SAMPLE_RATE = 2
  Rates <- MCRates
  Periods <- MCPeriods
  AskedRates <- MCAskedRates
  AskedFormats <- MCAskedFormats
  AskedChannels <- MCAskedChannels
  Durations <- MCDurations
  WORD = 128
  ShortReads = FALSE
  Older = {0}
  MaxData = 40
INVARIANT EndsWhenEnough
CHECK_DEADLOCK FALSE
