---------------------------- MODULE MCTxnManager ----------------------------
(* Instances of TxnManager for TLC. *)
EXTENDS TxnManager, TLC

Symmetry == Permutations(Txn) \cup Permutations(Key)
=============================================================================
