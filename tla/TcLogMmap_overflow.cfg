SPECIFICATION Spec
CONSTANTS
  s1 = s1
  s2 = s2
  s3 = s3
  Sessions = {s1, s2, s3}
  Engines = {"InnoDB", "TokuDB"}
  Deferred = {"InnoDB"}
  NPages = 3
  PageSize = 2
  MaxXid = 6
  SyncErrors = FALSE
  MaxCrash = 0
SYMMETRY SessionSymmetry
INVARIANT OverflowIsSignalled
CHECK_DEADLOCK FALSE
