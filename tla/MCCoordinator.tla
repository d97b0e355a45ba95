--------------------------- MODULE MCCoordinator ---------------------------
EXTENDS Coordinator, TLC
CONSTANTS Faults, Queries, Restarts, Crashes
MCBudget == [fault |-> Faults, query |-> Queries, restart |-> Restarts, crash |-> Crashes]
Symmetry == Permutations(Shard) \cup Permutations(Txn)
=============================================================================
