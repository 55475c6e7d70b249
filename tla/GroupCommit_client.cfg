SPECIFICATION FairSpec
CONSTANTS
  Trx = {1, 2, 3}
  Workers = {1, 2}
  UsesXa = {1, 2, 3}
  Killable = {2}
  ExecErrors = {1}
  WriteErrors = {2, 3}
  OptimizeThreadScheduling = TRUE
INVARIANTS
  TypeOK
  LeaderIsFirst
  ReplicationOrder
  PrepareOrder
  AbortedNotQueued
  WaiterKnown
PROPERTIES ImplementsOrderedCommit AllFinish
CHECK_DEADLOCK FALSE
