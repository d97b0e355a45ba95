SPECIFICATION Spec
CONSTANTS
  Txn = {x, y}
  Key = {k1, k2}
  NoId = NoId
  MaxReads = 2
  MaxWrites = 2
  Restarts = 0
SYMMETRY Symmetry
CHECK_DEADLOCK FALSE
INVARIANT Serializable
