---------------------------- MODULE MCLockManager ----------------------------
(* Small instances of LockManager: transaction t1 has two server threads (a  *)
(* writer and a second RPC of the same transaction), t2 and t3 one each.     *)
EXTENDS LockManager

CONSTANTS a1, a2, b, c, t1, t2, t3

MCThread == {a1, a2, b, c}
MCTxn == {t1, t2, t3}
MCTxnOf == [th \in MCThread |->
              CASE th \in {a1, a2} -> t1 [] th = b -> t2 [] th = c -> t3]
=============================================================================
