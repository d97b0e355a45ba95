SPECIFICATION Spec
CONSTANTS
  Shard = {s1, s2}
  Txn = {x}
  Faults = 0
  Queries = 0
  Restarts = 0
  Crashes = 0
  Budget <- MCBudget
SYMMETRY Symmetry
CHECK_DEADLOCK FALSE
INVARIANTS
  AbortCleansUp
