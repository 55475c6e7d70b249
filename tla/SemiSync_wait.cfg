SPECIFICATION FairSpec
CONSTANTS
  NTrx = 2
  Slaves = {d1, d2}
  d1 = d1
  d2 = d2
  Killable = {2}
  WaitNoSlave = {TRUE, FALSE}
  OutOfMemory = TRUE
  MaxToggles = 2
  MaxDisconnects = 1
INVARIANTS TypeOK YesIsReceived NoMissedBroadcast DoneNotActive OnCoversAll
PROPERTIES WaiterIsReleased SwitchedOnCaughtUp
CHECK_DEADLOCK FALSE
