SPECIFICATION Spec
CONSTANTS
  s1 = s1
  s2 = s2
  s3 = s3
  Sessions = {s1, s2, s3}
  Engines = {"InnoDB", "TokuDB"}
  Deferred = {"InnoDB"}
  NPages = 3
  PageSize = 2
  MaxXid = 5
  SyncErrors = TRUE
  MaxCrash = 1
SYMMETRY SessionSymmetry
INVARIANTS TypeOK SlotAccounting PageLists AllOrNothing Recoverable SleeperHasWaker
CHECK_DEADLOCK FALSE
