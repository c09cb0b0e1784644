\* Two producers: the full test is made before the semaphore is taken.
CONSTANTS
  Producers = {p1, p2}
  QUEUE_SIZE = 3
  SEM_VALUE_MAX = 4
  Messages = {m1}
SPECIFICATION Spec
PROPERTIES EnqueueLosesNothing
