SPECIFICATION Spec
CONSTANTS
  t1 = t1
  t2 = t2
  t3 = t3
  Trx = {t1, t2, t3}
  Flush = Flush
  Reset = Reset
  Background = Background
  Nobody = Nobody
  HaList <- HaListThree
  Commands = {"reset"}
  OptimizeThreadScheduling = FALSE
  IoErrors = {}
  MaxFile = 3
  MaxCrash = 0
INVARIANTS XidAccounting EntryInList
SYMMETRY Symmetric
