\* Two clients, an ordinary test item and the storage item.
SPECIFICATION Spec
CONSTANTS
  c1 = c1
  c2 = c2
  Clients = {c1, c2}
  Items <- MCItems
  Storage = "write_storage"
  Like <- MCLike
  MaxTests = 2
  MaxCmds = 3
  MaxFaults = 1
  Crowd <- MCCrowd
INVARIANTS NoGhostResult TwiceOnlyIfUnseen StoppedMeansEnded AnswersAddUp WakeWordComesBack
PROPERTIES CommandsReturn
CHECK_DEADLOCK FALSE
