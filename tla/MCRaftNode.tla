----------------------------- MODULE MCRaftNode -----------------------------
EXTENDS RaftSafety, TLC
Limit(e, r, f) == [election |-> e, round |-> r, fault |-> f]
MCBudget == {Limit(3, 1, 1), Limit(2, 3, 1), Limit(2, 1, 2)}
Symmetry == Permutations(Server)
=============================================================================
