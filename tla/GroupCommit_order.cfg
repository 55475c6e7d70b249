SPECIFICATION FairSpec
CONSTANTS
  Trx = {1, 2, 3}
  Workers = {1, 2, 3}
  UsesXa = {1, 2, 3}
  Killable = {}
  ExecErrors = {1, 2}
  WriteErrors = {}
  OptimizeThreadScheduling = FALSE
INVARIANTS
  ReplicationOrder
  WaiterKnown
PROPERTIES AllFinish
CHECK_DEADLOCK FALSE
