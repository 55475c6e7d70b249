SPECIFICATION FairSpec
CONSTANTS
  t1 = t1
  t2 = t2
  t3 = t3
  Trx = {t1, t2}
  Flush = Flush
  Reset = Reset
  Background = Background
  Nobody = Nobody
  HaList <- HaListTwo
  Commands = {"flush", "reset"}
  OptimizeThreadScheduling = FALSE
  IoErrors = {}
  MaxFile = 3
  MaxCrash = 0
PROPERTIES CheckpointCatchesUp ResetCompletes
CHECK_DEADLOCK FALSE
