----------------------------- MODULE RaftSafety -----------------------------
(***************************************************************************)
(* What the consensus group guarantees about committed entries.            *)
(***************************************************************************)
EXTENDS RaftNode, SequencesExt

\* A leader that nobody has superseded has every entry that any node regards as
\* committed: elections and commitment agree on what a majority is.
LeaderCompleteness ==
  \A n \in Server :
    role[n] = "leader" /\ (\A m \in Server : currentTerm[m] <= currentTerm[n]) =>
      \A m \in Server : IsPrefix(SubSeq(log[m], 1, commitIndex[m]), log[n])

RL == INSTANCE ReplicatedLog WITH Replica <- Server, Command <- Entry

\* All replicas apply the same entries in the same order, and a restarted
\* replica applies them again from the first one: the group implements one
\* replicated log.
ImplementsReplicatedLog == RL!Spec
=============================================================================
