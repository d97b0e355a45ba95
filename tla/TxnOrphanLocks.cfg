SPECIFICATION Spec
CONSTANTS
  Txn = {x, y}
  Key = {k1, k2}
  NoId = NoId
  MaxReads = 1
  MaxWrites = 2
  Restarts = 1
SYMMETRY Symmetry
CHECK_DEADLOCK FALSE
INVARIANT DecidedReleasesLocks
