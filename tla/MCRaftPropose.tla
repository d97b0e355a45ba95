--------------------------- MODULE MCRaftPropose ---------------------------
EXTENDS RaftPropose, TLC
MCBudget == {[election |-> 2, round |-> 2, fault |-> 0]}
Symmetry == Permutations(Server) \cup Permutations(Value)
=============================================================================
