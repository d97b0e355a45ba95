SPECIFICATION Spec
CONSTANTS
  Txn = {x, y}
  Key = {k}
  NoId = NoId
  MaxReads = 2
  MaxWrites = 3
  Restarts = 1
SYMMETRY Symmetry
CHECK_DEADLOCK FALSE
INVARIANTS TypeOK LockedUntilCommitted NoLeakedLocks NoLostUpdate OnlyCommittedIsStored CommittedSurvives
PROPERTY VersionsInOrder
