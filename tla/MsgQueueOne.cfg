\* One producer: the queue as the callers may rely on it.
CONSTANTS
  Producers = {p1}
  QUEUE_SIZE = 4
  SEM_VALUE_MAX = 6
  Messages = {m1, m2}
SPECIFICATION FairSpec
INVARIANTS RoomKept TokenBalance
PROPERTIES ImplementsFifo
