--------------------------- MODULE ReplicatedLog ---------------------------
(***************************************************************************)
(* What a shard's consensus group promises to its state machines: there is *)
(* one sequence of chosen commands that only grows, and every replica      *)
(* applies a prefix of it, in order and without gaps.  A replica that      *)
(* restarts begins again at the first command.                             *)
(***************************************************************************)
EXTENDS Naturals, Sequences, SequencesExt

CONSTANTS Replica, Command

VARIABLES
  chosen,   \* the commands chosen so far
  applied   \* what each replica has applied since it started

Init ==
  /\ chosen = <<>>
  /\ applied = [r \in Replica |-> <<>>]

\* Replica r applies more commands, which may be the first to do so.
Learn(r) ==
  /\ applied'[r] \in Seq(Command)
  /\ applied' = [applied EXCEPT ![r] = applied'[r]]
  /\ IsPrefix(applied[r], applied'[r])
  /\ \/ IsPrefix(applied'[r], chosen) /\ UNCHANGED chosen
     \/ IsPrefix(chosen, applied'[r]) /\ chosen' = applied'[r]

Restart(r) ==
  /\ applied' = [applied EXCEPT ![r] = <<>>]
  /\ UNCHANGED chosen

Next == \E r \in Replica : Learn(r) \/ Restart(r)

Spec == Init /\ [][Next]_<<chosen, applied>>
=============================================================================
