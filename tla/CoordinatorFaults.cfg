SPECIFICATION Spec
CONSTANTS
  Shard = {s1, s2}
  Txn = {x}
  Faults = 1
  Queries = 1
  Restarts = 1
  Crashes = 1
  Budget <- MCBudget
SYMMETRY Symmetry
CHECK_DEADLOCK FALSE
INVARIANTS
  TypeOK AtomicUnlessBoth OutcomeIsTrue
