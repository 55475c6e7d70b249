SPECIFICATION Spec
CONSTANTS
  t1 = t1
  t2 = t2
  t3 = t3
  Trx = {t1, t2}
  Flush = Flush
  Reset = Reset
  Background = Background
  Nobody = Nobody
  HaList <- HaListCkpt
  Commands = {"flush"}
  OptimizeThreadScheduling = TRUE
  IoErrors = {}
  MaxFile = 3
  MaxCrash = 1
INVARIANT NoLostTransaction
