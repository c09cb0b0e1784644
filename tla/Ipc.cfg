\* Two notify threads at a time and three messages to receive; three messages to
\* send, the second too long for the peer's queue.
SPECIFICATION IpcSpec
CONSTANTS
  Handlers = {h1, h2}
  RECV_MAXMSG = 2
  MaxSends = 3
  SEND_MAXMSG = 1
  MaxMsgs = 3
  Oversized = {2}
  MaxDirect = 1
INVARIANTS NothingSleeps LoneDrainIsExact SentInOrder FlagTellsTruth
PROPERTIES DropsAreLate StopEndsOrSleeps
CHECK_DEADLOCK FALSE
