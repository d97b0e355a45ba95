----------------------------- MODULE MCLogFiles ------------------------------
(***************************************************************************)
(* The files a process keeps: its write-ahead logs, or log, term and vote  *)
(* of its Raft node.  The two share no state, so that no interleaving of   *)
(* them says more than they do one by one: `part' picks one at the start.  *)
(***************************************************************************)
EXTENDS WAL, RaftStore

VARIABLE part

allVars == <<vars, storeVars, part>>

LogFilesInit ==
  /\ Init /\ StoreInit
  /\ part \in {"wal", "raft"}
  /\ part # "wal" => ~window

LogFilesNext ==
  \/ part = "wal" /\ Next /\ UNCHANGED <<storeVars, part>>
  \/ part = "raft" /\ StoreStep /\ UNCHANGED <<vars, part>>

LogFilesSpec == LogFilesInit /\ [][LogFilesNext]_allVars /\ Fairness
=============================================================================
