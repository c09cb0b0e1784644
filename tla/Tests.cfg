SPECIFICATION Spec
CONSTANTS
  MaxTests = 3
  Old = 1
  MaxDelay = 65
  Sectors <- MCSectors
  Pages <- MCPages
  Tables <- MCTables
  LED_NUM = 4
  PASSES = 2
  UID_SIZE = 2
  MAC_SIZE = 2
  BUF = 20
  CharSigned = TRUE
  MaxRuns = 2
  Scan <- MCScan
  Commands <- MCCommands
  QueueMax = 1
  MaxFaults = 1
INVARIANTS VerdictIsEarned LeftAsFound StoredAsTold CableIsFollowed
PROPERTIES NothingHangs
CHECK_DEADLOCK FALSE
