SPECIFICATION FairSpec
CONSTANTS
  Shard = {s1, s2}
  Txn = {x}
  Faults = 0
  Queries = 0
  Restarts = 0
  Crashes = 2
  Budget <- MCBudget
CHECK_DEADLOCK FALSE
INVARIANTS
  NoPartialCommit LogIsTruthful
PROPERTIES
  RecoveryCompletes
