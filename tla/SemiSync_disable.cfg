SPECIFICATION FairSpec
CONSTANTS
  NTrx = 2
  Slaves = {d1}
  d1 = d1
  Killable = {}
  WaitNoSlave = {TRUE}
  OutOfMemory = FALSE
  MaxToggles = 1
  MaxDisconnects = 0
INVARIANT SwitchOffHasList
CHECK_DEADLOCK FALSE
