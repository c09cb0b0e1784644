\* One client, a ring that is full with one message, two message types; one
\* condition and a reset after the second trap in a row for the service.
CONSTANTS
  Producers = {p1}
  QUEUE_SIZE = 2
  SEM_VALUE_MAX = 3
  MsgTypes = {1, 2}
  Conditions = {1}
  TRAP_LIMIT = 0
  MaxLives = 2
SPECIFICATION CallSpec
INVARIANTS QueueSoundWhileUp FilterIsHarmless CallIsEquipped
PROPERTIES ReportCatchesUp DestroyEndsOrStarves
CHECK_DEADLOCK FALSE
