SPECIFICATION Spec
CONSTANTS
  t1 = t1
  t2 = t2
  t3 = t3
  Trx = {t1, t2}
  Flush = Flush
  Reset = Reset
  Background = Background
  Nobody = Nobody
  HaList <- HaListTwo
  Commands = {"reset", "purge"}
  OptimizeThreadScheduling = TRUE
  IoErrors = {"write", "name", "open"}
  MaxFile = 4
  MaxCrash = 1
INVARIANTS
  TypeOK
  XidAccounting
  EntryInList
  XidRecoverable
  NoLostTransaction
PROPERTY CheckpointInOrder
