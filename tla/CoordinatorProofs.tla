------------------------- MODULE CoordinatorProofs -------------------------
(***************************************************************************)
(* Safety of two-phase commit and of the coordinator's recovery, for every *)
(* set of shards and transactions and every budget of faults: CoordInv is  *)
(* inductive, conjunct by conjunct, and the properties of Coordinator      *)
(* follow from it.                                                         *)
(***************************************************************************)
EXTENDS CoordinatorSteps

\* A leaf is tried with SMT and then with Zenon, unless it names its prover.
USE SMTT(30), ZenonT(30)

-----------------------------------------------------------------------------
(* The invariant is inductive: decisions *)

\* What a step starts from and what is known of where it leads.
LEMMA StepFacts ==
  ASSUME CoordInv, [Next]_vars, NEW x \in Txn
  PROVE  /\ TypeOK /\ TypeOK' /\ Moves(x)
         /\ LogOK(x) /\ UpOK(x) /\ ModeOK(x) /\ AnswersOK(x) /\ CalmOK(x) /\ OutcomeOK(x)
         /\ LogOK(x)' /\ UpOK(x)'
         /\ \A s \in Shard : /\ CellOK(x, s) /\ FlowOK(x, s) /\ CalmCell(x, s)
                             /\ CellStep(x, s) /\ CellOK(x, s)'
         /\ FaultFree' => FaultFree
         /\ Sheltered(x)' => Sheltered(x)
<1>1. /\ TypeOK
      /\ \A y \in Txn :
           /\ LogOK(y) /\ UpOK(y) /\ ModeOK(y) /\ AnswersOK(y) /\ CalmOK(y) /\ OutcomeOK(y)
           /\ \A s \in Shard : CellOK(y, s) /\ FlowOK(y, s) /\ CalmCell(y, s)
  BY ZenonT(60) DEF CoordInv
<1>2. TypeOK' /\ Moves(x) /\ \A s \in Shard : CellStep(x, s)
  BY ZenonT(60), <1>1, TypeNext, MoveNext, CellNext
<1>3. LogOK(x)' /\ UpOK(x)'
  BY ZenonT(60), <1>1, <1>2, LogNext, UpNext
<1>4. \A s \in Shard : CellOK(x, s)'
  BY ZenonT(60), <1>1, <1>2, CellOKNext
<1>5. (FaultFree' => FaultFree) /\ (Sheltered(x)' => Sheltered(x))
  BY ZenonT(60), <1>1, <1>2, SpentNext, PlacesNext DEF Sheltered
<1> QED
  BY ZenonT(60), <1>1, <1>2, <1>3, <1>4, <1>5

\* A shard that is ready stays so while no abort has reached it.
LEMMA ReadyKept ==
  ASSUME TypeOK, NEW x \in Txn, NEW s \in Shard, CellOK(x, s), CellStep(x, s),
         Ready(x, s), ~Touched(x, s), Ordered(x, s)
  PROVE  /\ Ready(x, s)' /\ Ordered(x, s)'
         /\ (HasApplied("commit", x, s) => x \in committed[s]) =>
              (HasApplied("commit", x, s)' => x \in committed'[s])
<1> DEFINE OnTrack == \/ x \in committed[s]
                      \/ Prepared(s, x)
                      \/ txn_id_map[s][x] = "none" /\ ~HasApplied("prepare", x, s)
           Follows == (HasApplied("commit", x, s) => x \in committed[s]) =>
                        (HasApplied("commit", x, s)' => x \in committed'[s])
<1>0. "prepare" \in Op /\ "commit" \in Op /\ "abort" \in Op
  BY ZenonT(60) DEF Op
<1>1. ~HasHandler("prepare", x, s) /\ HasEntry("prepare", x, s) /\ OnTrack
  BY ZenonT(60) DEF Ready
<1>2. ~Fresh(x) /\ pc[x] # "active"
  BY ZenonT(60), <1>0, <1>1 DEF CellOK, Fresh
<1>3. HasEntry("prepare", x, s)' /\ ~HasHandler("prepare", x, s)'
  <2>1. ~Sent("prepare", x, s)
    BY ZenonT(60), <1>2 DEF Sent
  <2> QED
    BY ZenonT(60), <1>0, <1>1, <2>1, CellGrows
<1>4. SUFFICES OnTrack' /\ Ordered(x, s)' /\ Follows
  BY ZenonT(60), <1>3 DEF Ready
<1>5. ASSUME txn_id_map'[s][x] = txn_id_map[s][x], local'[s][x] = local[s][x],
             x \in committed'[s] <=> x \in committed[s],
             EntriesSame(x, s) \/ \E new \in Op : Appends(new, x, s)
      PROVE  OnTrack' /\ Ordered(x, s)' /\ Follows
  <2>1. Ordered(x, s)' /\ \A op \in Op : HasApplied(op, x, s)' <=> HasApplied(op, x, s)
    BY ZenonT(60), <1>1, <1>5 DEF EntriesSame, Appends
  <2>2. Prepared(s, x)' <=> Prepared(s, x)
    BY ZenonT(60), <1>5 DEF Prepared
  <2> QED
    BY ZenonT(60), <1>0, <1>1, <1>5, <2>1, <2>2
<1>6. CASE Same(x, s) /\ EntriesSame(x, s)
  BY ZenonT(60), <1>5, <1>6 DEF Same
<1>7. CASE Idle(x, s) \/ \E op \in Op : Sent(op, x, s)
  BY ZenonT(60), <1>6, <1>7 DEF Idle, Sent
<1>8. CASE Begins(x, s) \/ Conflicts(x, s)
  BY ZenonT(60), <1>2, <1>8 DEF Begins, Conflicts
<1>9. CASE Restarted(x, s)
  BY ZenonT(60), <1>0, <1>9 DEF Restarted
<1>10. CASE Applies("prepare", x, s)
  <2>1. /\ txn_id_map'[s][x] = IF txn_id_map[s][x] = "none" THEN "import" ELSE txn_id_map[s][x]
        /\ local'[s][x] = local[s][x] /\ Ordered(x, s)'
        /\ x \in committed'[s] <=> x \in committed[s]
        /\ HasApplied("commit", x, s)' <=> HasApplied("commit", x, s)
    BY ZenonT(60), <1>0, <1>10 DEF Applies, Advances
  <2> QED
    BY ZenonT(60), <1>1, <2>1 DEF Prepared
<1>11. CASE Applies("commit", x, s)
  <2>1. HasApplied("prepare", x, s) /\ Ordered(x, s)'
        /\ (x \in committed'[s] <=> x \in committed[s] \/ Prepared(s, x))
    BY ZenonT(60), <1>11 DEF Applies, Advances
  <2> QED
    BY ZenonT(60), <1>1, <2>1
<1>12. CASE Applies("abort", x, s)
  BY ZenonT(60), <1>12 DEF Applies, Advances, Touched
<1>13. ASSUME NEW h \in handlers, h.txn = x, h.shard = s, Acts(h, x, s)
       PROVE  OnTrack' /\ Ordered(x, s)' /\ Follows
  <2>1. h.op # "prepare"
    BY ZenonT(60), <1>1, <1>13 DEF HasHandler, Of
  <2>2. h.op = "abort" => h.at = "sent"
    BY ZenonT(60), <1>13 DEF Touched, Of
  <2>3. h.op \in Op
    BY ZenonT(60), HandlerFacts
  <2>4. CASE Proposes(h, x, s)
    BY ZenonT(60), <1>5, <2>3, <2>4 DEF Proposes, Same
  <2>5. CASE Decides(h, x, s)
    BY ZenonT(60), <1>5, <2>5 DEF Decides
  <2>6. CASE Defers(h, x, s) \/ Fails(h, x, s)
    BY ZenonT(60), <1>6, <2>6 DEF Defers, Fails
  <2>7. ~AbortsLocally(h, x, s)
    BY ZenonT(60), <2>2 DEF AbortsLocally
  <2> QED
    BY ZenonT(60), <1>13, <2>1, <2>4, <2>5, <2>6, <2>7
    DEF Acts, Refuses, Validates, GivesUp, Takes, Votes
<1> QED
  BY ZenonT(60), <1>7, <1>8, <1>9, <1>10, <1>11, <1>12, <1>13 DEF CellStep, Op

\* An abort leaves its mark until the shard restarts or a commit comes.
LEMMA TouchedStays ==
  ASSUME TypeOK, NEW x \in Txn, NEW s \in Shard, CellOK(x, s), CellStep(x, s), Touched(x, s),
         ~Restarted(x, s), ~HasHandler("commit", x, s)
  PROVE  Touched(x, s)'
<1>0. "abort" \in Op
  BY ZenonT(60) DEF Op
<1>1. CASE HasEntry("abort", x, s)
  BY ZenonT(60), <1>0, <1>1, CellGrows DEF Touched
<1>2. CASE terminal[s][x] = "aborted"
  <2>1. ASSUME NEW h, Own(h, x, s), AbortsLocally(h, x, s) \/ Decides(h, x, s)
        PROVE  terminal'[s][x] = "aborted"
    <3>1. h.op # "commit"
      BY ZenonT(60), <2>1 DEF Own, HasHandler, Of
    <3> QED
      BY ZenonT(60), <2>1, <3>1 DEF AbortsLocally, Decides
  <2> QED
    BY ZenonT(60), <1>2, <2>1, TablesNext DEF Touched
<1>3. ASSUME NEW i \in handlers, Of(i, "abort", x, s), i.at # "sent", ~HasEntry("abort", x, s)
      PROVE  Touched(x, s)'
  <2>1. Own(i, x, s) /\ HandlerOK(i) /\ i.at # "waiting"
    <3>1. Own(i, x, s) /\ i.op = "abort"
      BY ZenonT(60), <1>3 DEF Own, Of
    <3> QED
      BY ZenonT(60), <1>3, <3>1, WaitingFacts
  <2>2. CASE i \in handlers'
    BY ZenonT(60), <1>3, <2>2 DEF Touched
  <2>3. CASE Idle(x, s)
    <3>1. PICK g \in handlers' : Alike(g, i)
      BY ZenonT(60), <1>3, <2>3 DEF Idle, Thin, Of
    <3>2. Of(g, "abort", x, s) /\ g.at # "sent"
      BY ZenonT(60), <1>3, <3>1 DEF Of, Alike
    <3> QED
      BY ZenonT(60), <3>2 DEF Touched
  <2>4. ASSUME NEW h \in handlers, h.txn = x, h.shard = s, Acts(h, x, s), i \notin handlers'
        PROVE  Touched(x, s)'
    <3>1. i = h
      <4>1. \A a : Done(h, a, x, s) => i = h
        BY ZenonT(60), <2>4 DEF Done
      <4>2. \A at, ix : Went(h, at, ix) => i = h
        BY ZenonT(60), <2>4 DEF Went
      <4> QED
        BY ZenonT(60), <2>4, <4>1, <4>2, ActsHandlers
    <3>2. h.op = "abort" /\ h.at # "sent" /\ h.at # "waiting"
      BY ZenonT(60), <1>3, <2>1, <3>1 DEF Of
    <3>3. AbortsLocally(h, x, s)
      BY ZenonT(60), <2>4, <3>2
      DEF Acts, Refuses, Validates, Proposes, GivesUp, Takes, Votes, Defers, Decides, Fails
    <3> QED
      BY ZenonT(60), <3>3 DEF AbortsLocally, Touched
  <2> QED
    BY ZenonT(60), <2>2, <2>3, <2>4 DEF CellStep, Begins, Conflicts, Sent, Applies
<1> QED
  BY ZenonT(60), <1>1, <1>2, <1>3 DEF Touched

\* Decisions reach the shards only by calls of the coordinator.
LEMMA DecisionSent ==
  ASSUME TypeOK, NEW x \in Txn, NEW s \in Shard, CellOK(x, s), CellStep(x, s)
  PROVE  /\ \A op \in {"commit", "abort"} : HasHandler(op, x, s)' \/ HasEntry(op, x, s)' =>
              HasHandler(op, x, s) \/ HasEntry(op, x, s) \/ Sent(op, x, s)
         /\ terminal'[s][x] = "aborted" => terminal[s][x] = "aborted" \/ HasHandler("abort", x, s)
<1>1. \A op \in {"commit", "abort"} : op \in Op
  BY ZenonT(60) DEF Op
<1>2. ASSUME NEW h, Own(h, x, s), AbortsLocally(h, x, s) \/ Decides(h, x, s), terminal'[s][x] = "aborted"
      PROVE  HasHandler("abort", x, s)
  <2>1. h.op = "abort"
    BY ZenonT(60), <1>2 DEF AbortsLocally, Decides
  <2> QED
    BY ZenonT(60), <1>2, <2>1 DEF Own, HasHandler, Of
<1> QED
  BY ZenonT(60), <1>1, <1>2, CellGrows, TablesNext

\* There are two ways to decide for a commit.
LEMMA NewCommit ==
  ASSUME CoordInv, [Next]_vars, NEW x \in Txn, Committing(x)', ~Committing(x)
  PROVE  Resolves(x) \/ Concludes("commit", x)
<1>1. TypeOK /\ Moves(x) /\ LogOK(x) /\ \A s \in Shard : CellOK(x, s) /\ CellStep(x, s)
  BY ZenonT(60), StepFacts
<1>2. ~Logged("COMMITTING", x)
  BY ZenonT(60) DEF Committing
<1>3. Logged("COMMITTING", x)' \/ \E s \in Shard : Sent("commit", x, s)
  BY ZenonT(60), <1>1, DecisionSent DEF Committing
<1>4. ASSUME Logged("COMMITTING", x)' PROVE Resolves(x) \/ Concludes("commit", x)
  <2>1. ~LogStays(x) /\ ~LogCut(x) /\ \A t \in RecordType : LogAdds(t, x) => t = "COMMITTING"
    BY ZenonT(60), <1>2, <1>4, RecordTypes DEF LogStays, LogCut, LogAdds
  <2> QED
    BY ZenonT(60), <1>1, <1>2, <2>1, RecordTypes
    DEF Moves, Rests, Starts, Joins, Leaves, Asks, Rejects, Errs, Quits, Succeeds,
        Undoes, Tells, Dies, Resumes, Inquires, Settles, Throws, Concludes, Redrives
<1>5. ASSUME NEW s \in Shard, Sent("commit", x, s) PROVE Logged("COMMITTING", x)'
  <2>1. pc'[x] \in {"committing", "recommit"}
    BY ZenonT(60), <1>5 DEF Sent
  <2>2. LogOK(x)'
    BY ZenonT(60), StepFacts
  <2> QED
    BY ZenonT(60), <2>1, <2>2 DEF LogOK
<1> QED
  BY ZenonT(60), <1>3, <1>4, <1>5

\* There are three ways to decide for an abort, and only VotedAbort sends it
\* before the record is flushed.
LEMMA NewAbort ==
  ASSUME CoordInv, [Next]_vars, NEW x \in Txn
  PROVE  /\ Aborting(x)' /\ ~Aborting(x) => Rejects(x) \/ Quits(x) \/ Concludes("abort", x)
         /\ AbortSent(x)' /\ ~AbortSent(x) => Rejects(x) \/ Flushed("ABORTING", x)'
<1>1. TypeOK /\ Moves(x) /\ LogOK(x) /\ LogOK(x)' /\ \A s \in Shard : CellOK(x, s) /\ CellStep(x, s)
  BY ZenonT(60), StepFacts
<1>2. AbortSent(x)' /\ ~AbortSent(x) => \E s \in Shard : Sent("abort", x, s)
  BY ZenonT(60), <1>1, DecisionSent DEF AbortSent
<1>3. ASSUME NEW s \in Shard, Sent("abort", x, s)
      PROVE  pc'[x] # pc[x] /\ pc'[x] \in {"aborting", "reabort"} /\ Logged("ABORTING", x)'
  <2>1. pc'[x] # pc[x] /\ pc'[x] \in {"aborting", "reabort"}
    BY ZenonT(60), <1>3 DEF Sent
  <2> QED
    BY ZenonT(60), <1>1, <2>1 DEF LogOK
<1>4. ASSUME Logged("ABORTING", x)', ~Logged("ABORTING", x)
      PROVE  Rejects(x) \/ Quits(x) \/ Concludes("abort", x)
  <2>1. ~LogStays(x) /\ ~LogCut(x) /\ \A t \in RecordType : LogAdds(t, x) => t = "ABORTING"
    BY ZenonT(60), <1>4, RecordTypes DEF LogStays, LogCut, LogAdds
  <2> QED
    BY ZenonT(60), <1>1, <1>4, <2>1, RecordTypes
    DEF Moves, Rests, Starts, Joins, Leaves, Asks, Resolves, Errs, Succeeds,
        Undoes, Tells, Dies, Resumes, Inquires, Settles, Throws, Concludes, Redrives
<1>5. ASSUME pc'[x] # pc[x], pc'[x] \in {"aborting", "reabort"}
      PROVE  Rejects(x) \/ Flushed("ABORTING", x)'
  BY ZenonT(60), <1>1, <1>5
  DEF Moves, Rests, Starts, Joins, Leaves, Asks, Resolves, Errs, Quits, Succeeds,
      Undoes, Tells, Dies, Resumes, Inquires, Settles, Throws, Concludes, Redrives, Goes
<1> QED
  BY ZenonT(60), <1>2, <1>3, <1>4, <1>5 DEF Aborting

\* The parts of the invariant.
LEMMA InvFacts ==
  ASSUME CoordInv, NEW x \in Txn
  PROVE  /\ TypeOK
         /\ LogOK(x) /\ UpOK(x) /\ ModeOK(x) /\ AnswersOK(x) /\ CalmOK(x) /\ OutcomeOK(x)
         /\ \A s \in Shard : CellOK(x, s) /\ FlowOK(x, s) /\ CalmCell(x, s)
BY ZenonT(60) DEF CoordInv

\* The operations.
LEMMA Ops == "prepare" \in Op /\ "commit" \in Op /\ "abort" \in Op
BY ZenonT(60) DEF Op

\* Before the votes are counted nothing is decided.
LEMMA Undecided ==
  ASSUME CoordInv, NEW x \in Txn, Fresh(x) \/ pc[x] = "preparing"
  PROVE  ~Committing(x) /\ ~Aborting(x) /\ \A s \in Shard : ~Touched(x, s)
<1>1. ~Logged("COMMITTING", x) /\ ~Logged("ABORTING", x)
  BY ZenonT(60), InvFacts, RecordTypes DEF LogOK
<1>2. \A s \in Shard : /\ terminal[s][x] = "none"
                       /\ ~HasEntry("commit", x, s) /\ ~HasHandler("commit", x, s)
                       /\ ~HasEntry("abort", x, s) /\ ~HasHandler("abort", x, s)
  BY ZenonT(60), InvFacts, Ops DEF CellOK
<1>3. \A s \in Shard : ~Touched(x, s)
  BY ZenonT(60), <1>2 DEF Touched, HasHandler
<1> QED
  BY ZenonT(60), <1>1, <1>2, <1>3 DEF Committing, Aborting, AbortSent

\* An abort that has had an effect was sent.
LEMMA TouchedAborting ==
  ASSUME NEW x \in Txn, NEW s \in Shard, Touched(x, s)
  PROVE  AbortSent(x) /\ Aborting(x)
BY ZenonT(60) DEF Touched, AbortSent, Aborting, HasHandler

\* A commit that has reached a shard.
LEMMA CommitAt ==
  ASSUME CoordInv, NEW x \in Txn, NEW s \in Shard, Sheltered(x),
         HasEntry("commit", x, s) \/ HasHandler("commit", x, s)
  PROVE  /\ Committing(x) /\ ~Aborting(x) /\ ~Touched(x, s) /\ s \in parts[x]
         /\ Ready(x, s) /\ Ordered(x, s) /\ (HasApplied("commit", x, s) => x \in committed[s])
<1>1. Committing(x)
  BY ZenonT(60) DEF Committing
<1>2. s \in parts[x]
  BY ZenonT(60), InvFacts, Ops DEF CellOK
<1>3. ModeOK(x)
  BY ZenonT(60), InvFacts
<1> QED
  BY ZenonT(60), <1>1, <1>2, <1>3, TouchedAborting DEF ModeOK

\* While two-phase commit is right a commit follows its prepare and was carried out.
LEMMA OrderedNow ==
  ASSUME CoordInv, NEW x \in Txn, NEW s \in Shard, Sheltered(x)
  PROVE  Ordered(x, s) /\ (HasApplied("commit", x, s) => x \in committed[s])
<1>1. CASE HasEntry("commit", x, s)
  BY ZenonT(60), <1>1, CommitAt
<1>2. CASE ~HasEntry("commit", x, s)
  <2>1. ~HasApplied("commit", x, s)
    BY ZenonT(60), <1>2, InvFacts, AppliedEntry
  <2>2. Ordered(x, s)
    BY ZenonT(60), <1>2 DEF Ordered, HasEntry
  <2> QED
    BY ZenonT(60), <2>1, <2>2
<1> QED
  BY ZenonT(60), <1>1, <1>2

\* The two ways to decide for a commit find every participant ready.
LEMMA CommitJustified ==
  ASSUME CoordInv, NEW x \in Txn, Sheltered(x), ~Committing(x),
         Resolves(x) \/ Concludes("commit", x)
  PROVE  /\ ~Aborting(x)
         /\ \A s \in parts[x] :
              Ready(x, s) /\ ~Touched(x, s) /\ (FaultFree => pending[s][x] = "prepared")
<1>0. parts[x] \subseteq Shard
  BY InvFacts DEF TypeOK
<1>1. CASE Resolves(x)
  <2>1. pc[x] = "preparing" /\ \A s \in parts[x] : rpc["prepare"][s][x] = "yes"
    BY ZenonT(60), <1>1 DEF Resolves, Goes, All
  <2>2. ~Aborting(x) /\ \A s \in Shard : ~Touched(x, s)
    BY ZenonT(60), <2>1, Undecided
  <2>3. \A s \in parts[x] : Ready(x, s)
    BY ZenonT(60), <1>0, <2>1, <2>2, InvFacts DEF FlowOK, Voted
  <2>4. \A s \in parts[x] : FaultFree => pending[s][x] = "prepared"
    BY ZenonT(60), <1>0, <2>1, InvFacts DEF CalmCell
  <2> QED
    BY ZenonT(60), <1>0, <2>2, <2>3, <2>4
<1>2. CASE Concludes("commit", x)
  <2>1. pc[x] = "query" /\ (\A s \in parts[x] : seen[x][s] # "none")
        /\ Decision({seen[x][s] : s \in parts[x]}) = "commit"
    BY ZenonT(60), <1>2 DEF Concludes
  <2>2. FaultFree
    BY ZenonT(60), <2>1, InvFacts DEF Sheltered, ClientSide, UpOK
  <2>3. \A s \in Shard : ~HasEntry("commit", x, s)
    BY ZenonT(60) DEF Committing
  <2>4. \A s \in parts[x] : seen[x][s] # "committed" /\ terminal[s][x] # "committed"
    BY ZenonT(60), <1>0, <2>3, InvFacts DEF CellOK
  <2>5. \A s \in parts[x] : seen[x][s] = "prepared"
    <3>1. "committed" \notin {seen[x][s] : s \in parts[x]}
      BY ZenonT(60), <2>4
    <3>2. {seen[x][s] : s \in parts[x]} \subseteq {"prepared", "committed"}
      BY ZenonT(60), <2>1, <3>1 DEF Decision
    <3> TAKE s \in parts[x]
    <3>3. seen[x][s] \in {"prepared", "committed"}
      BY ZenonT(60), <3>2
    <3> QED
      BY ZenonT(60), <2>4, <3>3
  <2>6. \A s \in parts[x] : ~Refused(x, s)
    BY ZenonT(60), <1>0, <2>5, InvFacts DEF CellOK, Refused
  <2>7. ~Logged("ABORTING", x)
    BY ZenonT(60), <2>1, InvFacts DEF LogOK
  <2>8. ~AbortSent(x)
    BY ZenonT(60), <2>2, <2>6, <2>7, InvFacts, FlushedLogged DEF CalmOK
  <2>9. \A s \in parts[x] : ~Touched(x, s) /\ terminal[s][x] # "aborted"
    BY ZenonT(60), <1>0, <2>8, TouchedAborting DEF AbortSent
  <2>10. \A s \in parts[x] : pending[s][x] = "prepared"
    <3> TAKE s \in parts[x]
    <3>1. terminal[s][x] = "none"
      <4>1. terminal[s][x] \in {"none", "committed", "aborted"}
        BY <1>0, InvFacts DEF TypeOK
      <4> QED
        BY ZenonT(60), <2>4, <2>9, <4>1
    <3> QED
      BY ZenonT(60), <1>0, <2>1, <2>2, <2>5, <3>1, InvFacts DEF CalmCell
  <2>11. \A s \in parts[x] : Ready(x, s)
    BY ZenonT(60), <1>0, <2>9, <2>10, InvFacts DEF FlowOK, Voted
  <2> QED
    BY ZenonT(60), <2>7, <2>8, <2>9, <2>10, <2>11 DEF Aborting
<1> QED
  BY ZenonT(60), <1>1, <1>2

\* ModeOK is kept: no step decides against a commit, nor for one too early.
LEMMA ModeNext ==
  ASSUME CoordInv, [Next]_vars, NEW x \in Txn
  PROVE  ModeOK(x)'
<1> SUFFICES ASSUME Sheltered(x)', Committing(x)'
             PROVE  /\ ~Aborting(x)'
                    /\ \A s \in parts'[x] : Ready(x, s)' /\ Ordered(x, s)'
                                            /\ (HasApplied("commit", x, s)' => x \in committed'[s])
  BY ZenonT(60) DEF ModeOK
<1>0. Sheltered(x) /\ Moves(x) /\ TypeOK
  BY ZenonT(60), StepFacts
<1>00. parts[x] \subseteq Shard
  BY InvFacts DEF TypeOK
<1>1. ~Fresh(x) /\ ~Aborting(x) /\ \A s \in parts[x] : Ready(x, s) /\ ~Touched(x, s)
  <2>1. CASE Committing(x)
    BY ZenonT(60), <1>0, <1>00, <2>1, InvFacts, Undecided, TouchedAborting DEF ModeOK
  <2>2. CASE ~Committing(x)
    <3>1. Resolves(x) \/ Concludes("commit", x)
      BY ZenonT(60), <2>2, NewCommit
    <3>2. ~Fresh(x)
      BY ZenonT(60), <3>1 DEF Resolves, Concludes, Goes, Fresh
    <3> QED
      BY ZenonT(60), <1>0, <2>2, <3>1, <3>2, CommitJustified
  <2> QED
    BY ZenonT(60), <2>1, <2>2
<1>2. parts'[x] = parts[x]
  BY ZenonT(60), <1>0, <1>1, PlacesNext
<1>3. \A s \in parts[x] : Ready(x, s)' /\ Ordered(x, s)'
                          /\ (HasApplied("commit", x, s)' => x \in committed'[s])
  <2> TAKE s \in parts[x]
  <2>1. s \in Shard /\ CellOK(x, s) /\ CellStep(x, s)
    BY ZenonT(60), <1>00, StepFacts
  <2>2. Ordered(x, s) /\ (HasApplied("commit", x, s) => x \in committed[s])
    BY ZenonT(60), <1>0, <2>1, OrderedNow
  <2> QED
    BY ZenonT(60), <1>0, <1>1, <2>1, <2>2, ReadyKept
<1>4. ~Aborting(x)'
  <2>1. SUFFICES ASSUME Rejects(x) \/ Quits(x) \/ Concludes("abort", x) PROVE FALSE
    BY ZenonT(60), <1>1, NewAbort
  <2>2. ~Resolves(x) /\ ~Concludes("commit", x)
    BY ZenonT(60), <2>1 DEF Rejects, Quits, Concludes, Resolves, Goes
  <2>3. Committing(x)
    BY ZenonT(60), <2>2, NewCommit
  <2>4. ~Rejects(x) /\ ~Quits(x)
    BY ZenonT(60), <2>3, Undecided DEF Rejects, Quits, Goes, Fresh
  <2>5. pc[x] = "query" /\ (\A s \in parts[x] : seen[x][s] # "none")
        /\ Decision({seen[x][s] : s \in parts[x]}) = "abort"
    BY ZenonT(60), <2>1, <2>4 DEF Concludes
  <2>6. FaultFree
    BY ZenonT(60), <1>0, <2>5, InvFacts DEF Sheltered, ClientSide, UpOK
  <2>7. \A s \in parts[x] : seen[x][s] \in {"prepared", "committed"}
    BY ZenonT(60), <2>3, <2>5, <2>6, InvFacts DEF CalmOK
  <2>8. /\ {seen[x][s] : s \in parts[x]} \subseteq {"prepared", "committed"}
        /\ "aborted" \notin {seen[x][s] : s \in parts[x]}
    BY ZenonT(60), <2>7
  <2> QED
    BY ZenonT(60), <2>5, <2>8 DEF Decision
<1> QED
  BY ZenonT(60), <1>2, <1>3, <1>4

\* Where an answer comes from.
LEMMA YesNext ==
  ASSUME TypeOK, NEW x \in Txn, NEW s \in Shard, CellStep(x, s), NEW op \in Op,
         rpc'[op][s][x] = "yes", rpc[op][s][x] # "yes"
  PROVE  \E h : /\ Own(h, x, s) /\ h.op = op
                /\ Votes(h, x, s) \/ AbortsLocally(h, x, s) \/ Decides(h, x, s)
                   \/ (Fails(h, x, s) /\ h.op = "abort")
<1>1. ~Idle(x, s) /\ ~Begins(x, s) /\ ~Conflicts(x, s) /\ ~Restarted(x, s)
  BY ZenonT(60) DEF Idle, Calls, Begins, Conflicts, Restarted
<1>2. ASSUME NEW o \in Op, Sent(o, x, s) \/ Applies(o, x, s) PROVE FALSE
  <2>1. ~Applies(o, x, s)
    BY ZenonT(60) DEF Applies
  <2>2. rpc'[op][s][x] = IF op = o THEN "asked" ELSE rpc[op][s][x]
    BY ZenonT(60), <1>2, <2>1 DEF Sent
  <2> QED
    BY ZenonT(60), <2>2
<1>3. PICK h \in handlers : h.txn = x /\ h.shard = s /\ Acts(h, x, s)
  BY ZenonT(60), <1>1, <1>2 DEF CellStep
<1>4. \A a : Finish(h, a) => Done(h, a, x, s)
  BY ZenonT(60), FinishFacts
<1>5. \A at, ix : ~Goto(h, at, ix)
  BY ZenonT(60), GotoFacts DEF Went
<1>6. \A a : Finish(h, a) => a = "yes" /\ h.op = op
  BY ZenonT(60), <1>4 DEF Done
<1>10. ~Finish(h, "no")
  BY <1>6
<1>7. ~Refuses(h, x, s) /\ ~Validates(h, x, s) /\ ~Proposes(h, x, s) /\ ~GivesUp(h, x, s)
      /\ ~Takes(h, x, s) /\ ~Defers(h, x, s)
  BY ZenonT(60), <1>5, <1>6, <1>10 DEF Refuses, Validates, Proposes, GivesUp, Takes, Defers
<1>8. Fails(h, x, s) => h.op = "abort"
  BY ZenonT(60), <1>6, <1>10 DEF Fails
<1>9. h.op = op
  BY ZenonT(60), <1>3, <1>6, <1>7 DEF Acts, Votes, AbortsLocally, Decides, Fails
<1> QED
  BY ZenonT(60), <1>3, <1>7, <1>8, <1>9 DEF Acts, Own

\* Where a negative answer comes from, when there are no faults.
LEMMA NoNext ==
  ASSUME TypeOK, NEW x \in Txn, NEW s \in Shard, CellStep(x, s), NEW op \in Op,
         rpc'[op][s][x] = "no", rpc[op][s][x] # "no", FaultFree'
  PROVE  \E h : /\ Own(h, x, s) /\ h.op = op
                /\ Refuses(h, x, s) \/ (Takes(h, x, s) /\ ~prepare_results[s][x])
<1>1. ~Idle(x, s) /\ ~Begins(x, s) /\ ~Conflicts(x, s) /\ ~Restarted(x, s)
  BY ZenonT(60) DEF Idle, Calls, Begins, Conflicts, Restarted
<1>2. ASSUME NEW o \in Op, Sent(o, x, s) \/ Applies(o, x, s) PROVE FALSE
  <2>1. ~Applies(o, x, s)
    BY ZenonT(60) DEF Applies
  <2>2. rpc'[op][s][x] = IF op = o THEN "asked" ELSE rpc[op][s][x]
    BY ZenonT(60), <1>2, <2>1 DEF Sent
  <2> QED
    BY ZenonT(60), <2>2
<1>3. PICK h \in handlers : h.txn = x /\ h.shard = s /\ Acts(h, x, s)
  BY ZenonT(60), <1>1, <1>2 DEF CellStep
<1>4. \A a : Finish(h, a) => Done(h, a, x, s)
  BY ZenonT(60), FinishFacts
<1>5. \A at, ix : ~Goto(h, at, ix)
  BY ZenonT(60), GotoFacts DEF Went
<1>6. \A a : Finish(h, a) => a = "no" /\ h.op = op
  BY ZenonT(60), <1>4 DEF Done
<1>10. ~Finish(h, "yes")
  BY <1>6
<1>7. ~Validates(h, x, s) /\ ~Proposes(h, x, s) /\ ~GivesUp(h, x, s) /\ ~Votes(h, x, s)
      /\ ~Defers(h, x, s) /\ ~AbortsLocally(h, x, s) /\ ~Decides(h, x, s) /\ ~Fails(h, x, s)
  BY ZenonT(60), <1>5, <1>6, <1>10
  DEF Validates, Proposes, GivesUp, Votes, Defers, AbortsLocally, Decides, Fails
<1>8. Takes(h, x, s) => ~prepare_results[s][x]
  BY ZenonT(60), <1>5 DEF Takes
<1>9. h.op = op
  BY ZenonT(60), <1>3, <1>5, <1>6, <1>7 DEF Acts, Refuses, Takes
<1> QED
  BY ZenonT(60), <1>3, <1>7, <1>8, <1>9 DEF Acts, Own

\* A vote is cast with everything in place.
LEMMA VoteReady ==
  ASSUME TypeOK, NEW x \in Txn, NEW s \in Shard, CellOK(x, s), FlowOK(x, s), Sheltered(x),
         ~Touched(x, s), NEW h, Own(h, x, s), Votes(h, x, s)
  PROVE  Ready(x, s)' /\ pending'[s][x] = "prepared"
<1>1. /\ h \in handlers /\ h.op = "prepare" /\ h.at = "taken" /\ Of(h, "prepare", x, s)
      /\ Finish(h, "yes") /\ EntriesSame(x, s)
  BY ZenonT(60) DEF Own, Votes, Of
<1>2. txn_id_map[s][x] = "local" /\ local[s][x] = "prepared" /\ pending[s][x] = "begun"
  BY ZenonT(60), <1>1 DEF FlowOK
<1>3. HasEntry("prepare", x, s)'
  BY ZenonT(60), <1>1, WaitingFacts, Ops DEF EntriesSame
<1>4. handlers' = handlers \ {h}
  BY ZenonT(60), <1>1, FinishFacts DEF Done
<1>5. ~HasHandler("prepare", x, s)'
  BY ZenonT(60), <1>1, <1>4 DEF CellOK, OnePrepare, HasHandler
<1>6. /\ txn_id_map'[s][x] = "local" /\ local'[s][x] = "prepared"
      /\ pending'[s][x] = IF pending[s][x] = "none" THEN "none" ELSE "prepared"
  BY ZenonT(60), <1>2 DEF Votes
<1>7. Prepared(s, x)' /\ pending'[s][x] = "prepared"
  BY ZenonT(60), <1>2, <1>6 DEF Prepared
<1> QED
  BY ZenonT(60), <1>3, <1>5, <1>7 DEF Ready

\* FlowOK is kept.
LEMMA FlowNext ==
  ASSUME CoordInv, [Next]_vars, NEW x \in Txn, NEW s \in Shard
  PROVE  FlowOK(x, s)'
<1> SUFFICES ASSUME Sheltered(x)', ~Touched(x, s)'
             PROVE  /\ Voted(x, s)' => Ready(x, s)'
                    /\ \A g \in handlers' : Of(g, "prepare", x, s) /\ g.at # "sent" =>
                         txn_id_map'[s][x] = "local" /\ local'[s][x] = "prepared"
                         /\ pending'[s][x] = "begun"
  BY ZenonT(60) DEF FlowOK, Of
<1>0. /\ TypeOK /\ Sheltered(x) /\ CellOK(x, s) /\ FlowOK(x, s) /\ CellStep(x, s) /\ Moves(x)
  BY ZenonT(60), StepFacts
<1>1. CASE Touched(x, s)
  <2>1. ~HasHandler("commit", x, s)
    BY ZenonT(60), <1>0, <1>1, CommitAt
  <2>2. Restarted(x, s)
    BY ZenonT(60), <1>0, <1>1, <2>1, TouchedStays
  <2>3. pending'[s][x] # "prepared" /\ \A g \in handlers' : ~Of(g, "prepare", x, s)
    BY ZenonT(60), <2>2 DEF Restarted, Of
  <2>4. pc'[x] # "preparing"
    BY ZenonT(60), <1>0, <1>1, PlacesNext, Undecided DEF Fresh
  <2> QED
    BY ZenonT(60), <2>3, <2>4 DEF Voted
<1>2. CASE ~Touched(x, s)
  <2>0. Ordered(x, s) /\ OnePrepare(x, s)
    BY ZenonT(60), <1>0, OrderedNow DEF CellOK
  <2>1. ASSUME Voted(x, s)' PROVE Ready(x, s)'
    <3>1. CASE Voted(x, s)
      BY ZenonT(60), <1>0, <1>2, <2>0, <3>1, ReadyKept DEF FlowOK
    <3>2. CASE ~Voted(x, s)
      <4>1. SUFFICES \E h : Own(h, x, s) /\ Votes(h, x, s)
        BY ZenonT(60), <1>0, <1>2, VoteReady
      <4>2. CASE pending'[s][x] = "prepared"
        <5>1. pending[s][x] # "prepared"
          BY ZenonT(60), <3>2 DEF Voted
        <5>2. ~Restarted(x, s) /\ ~Begins(x, s)
          BY ZenonT(60), <4>2 DEF Restarted, Begins
        <5>3. \A h : ~Refuses(h, x, s) /\ ~GivesUp(h, x, s) /\ ~AbortsLocally(h, x, s) /\ ~Decides(h, x, s)
          BY ZenonT(60), <4>2, <5>1 DEF Refuses, GivesUp, AbortsLocally, Decides, Dropped, Same
        <5> QED
          BY ZenonT(60), <1>0, <4>2, <5>1, <5>2, <5>3, TablesNext
      <4>3. CASE pc'[x] = "preparing" /\ rpc'["prepare"][s][x] = "yes"
        <5>1. rpc["prepare"][s][x] # "yes"
          <6>1. CASE pc[x] = "preparing"
            BY ZenonT(60), <3>2, <6>1 DEF Voted
          <6>2. CASE pc[x] = "active"
            <7>1. rpc["prepare"][s][x] = "none"
              BY ZenonT(60), <1>0, <6>2 DEF CellOK, Fresh
            <7> QED
              BY ZenonT(60), <7>1
          <6> QED
            BY ZenonT(60), <1>0, <4>3, <6>1, <6>2, PlacesNext
        <5>2. PICK h : /\ Own(h, x, s) /\ h.op = "prepare"
                       /\ Votes(h, x, s) \/ AbortsLocally(h, x, s) \/ Decides(h, x, s)
                          \/ (Fails(h, x, s) /\ h.op = "abort")
          BY <1>0, <4>3, <5>1, YesNext, Ops
        <5> QED
          BY ZenonT(60), <5>2 DEF AbortsLocally, Decides
      <4> QED
        BY ZenonT(60), <2>1, <4>2, <4>3 DEF Voted
    <3> QED
      BY ZenonT(60), <3>1, <3>2
  <2>2. ASSUME NEW g \in handlers', Of(g, "prepare", x, s), g.at # "sent"
        PROVE  txn_id_map'[s][x] = "local" /\ local'[s][x] = "prepared" /\ pending'[s][x] = "begun"
    <3> DEFINE Then == /\ txn_id_map'[s][x] = "local" /\ local'[s][x] = "prepared"
                       /\ pending'[s][x] = "begun"
               Now == /\ txn_id_map[s][x] = "local" /\ local[s][x] = "prepared"
                      /\ pending[s][x] = "begun"
    <3>1. \A h \in handlers : Of(h, "prepare", x, s) /\ h.at # "sent" => Now
      BY ZenonT(60), <1>0, <1>2 DEF FlowOK
    <3>2. Same(x, s) /\ Now => Then
      BY ZenonT(60) DEF Same
    <3>3. HasEntry("commit", x, s) \/ HasHandler("commit", x, s) =>
            \A h \in handlers : ~Of(h, "prepare", x, s)
      BY ZenonT(60), <1>0, CommitAt DEF Ready, HasHandler
    <3>4. g.op = "prepare" /\ g.txn = x /\ g.shard = s
      BY ZenonT(60), <2>2 DEF Of
    <3> SUFFICES Then
      OBVIOUS
    <3>5. CASE Idle(x, s)
      <4>1. PICK h \in handlers : Alike(g, h)
        BY ZenonT(60), <2>2, <3>4, <3>5 DEF Idle, Thin
      <4>2. Of(h, "prepare", x, s) /\ h.at # "sent"
        BY ZenonT(60), <2>2, <4>1 DEF Alike, Of
      <4> QED
        BY ZenonT(60), <3>1, <3>2, <3>5, <4>1, <4>2 DEF Idle
    <3>6. CASE Begins(x, s) \/ Conflicts(x, s) \/ Restarted(x, s)
      <4>1. Fresh(x) => ~HasHandler("prepare", x, s)
        BY ZenonT(60), <1>0, Ops DEF CellOK
      <4> QED
        BY ZenonT(60), <2>2, <3>4, <3>6, <4>1 DEF Begins, Conflicts, Restarted, Fresh, HasHandler
    <3>7. ASSUME NEW op \in Op, Sent(op, x, s) PROVE Then
      <4>1. g \in handlers
        <5>1. g # Request(op, x, s)
          BY <2>2 DEF Request
        <5> QED
          BY ZenonT(60), <2>2, <3>4, <3>7, <5>1 DEF Sent
      <4> QED
        BY ZenonT(60), <2>2, <3>1, <3>2, <3>7, <4>1 DEF Sent
    <3>8. ASSUME NEW op \in Op, Applies(op, x, s) PROVE Then
      <4>1. g \in handlers /\ HasEntry(op, x, s)
        BY ZenonT(60), <2>2, <3>8 DEF Applies, Advances
      <4>2. op # "commit" /\ op # "abort"
        BY ZenonT(60), <1>2, <2>2, <3>3, <4>1 DEF Touched
      <4>3. op = "prepare"
        BY ZenonT(60), <3>8, <4>2 DEF Op
      <4>4. /\ txn_id_map'[s][x] = IF txn_id_map[s][x] = "none" THEN "import" ELSE txn_id_map[s][x]
            /\ local'[s][x] = local[s][x] /\ pending'[s][x] = pending[s][x]
        BY ZenonT(60), <3>8, <4>3 DEF Applies
      <4>5. Now
        BY ZenonT(60), <2>2, <3>1, <4>1
      <4> QED
        BY ZenonT(60), <4>4, <4>5
    <3>9. ASSUME NEW h \in handlers, h.txn = x, h.shard = s, Acts(h, x, s) PROVE Then
      <4>1. \A a : Finish(h, a) => g \in handlers /\ g # h
        BY ZenonT(60), <1>0, <2>2, FinishFacts DEF Done
      <4>2. h.op = "prepare" => \A a : ~Finish(h, a)
        BY ZenonT(60), <2>0, <2>2, <3>9, <4>1 DEF OnePrepare, Of
      <4>3. \A at, ix : Goto(h, at, ix) => (h.op = "prepare" \/ g \in handlers)
        <5> TAKE at, ix
        <5> HAVE Goto(h, at, ix)
        <5>1. Went(h, at, ix)
          BY ZenonT(60), <1>0, GotoFacts
        <5> QED
          BY ZenonT(60), <2>2, <3>4, <5>1 DEF Went
      <4>4. g \in handlers => Now
        BY ZenonT(60), <2>2, <3>1
      <4>5. CASE Refuses(h, x, s) \/ GivesUp(h, x, s) \/ Votes(h, x, s)
        BY ZenonT(60), <4>2, <4>5 DEF Refuses, GivesUp, Votes
      <4>6. CASE Takes(h, x, s)
        <5>1. Of(h, "prepare", x, s) /\ h.at # "sent"
          BY ZenonT(60), <3>9, <4>6 DEF Takes, Of
        <5> QED
          BY ZenonT(60), <3>1, <4>6, <5>1 DEF Takes
      <4>7. CASE Validates(h, x, s)
        <5>1. Of(h, "prepare", x, s)
          BY ZenonT(60), <3>9, <4>7 DEF Validates, Of
        <5>2. ~HasEntry("commit", x, s) /\ ~HasEntry("abort", x, s)
          BY ZenonT(60), <1>2, <3>3, <5>1 DEF Touched
        <5>3. txn_id_map[s][x] = "local"
          BY ZenonT(60), <1>0, <4>7, <5>2 DEF Validates, CellOK
        <5>4. pending[s][x] # "prepared"
          BY ZenonT(60), <1>0, <1>2, <5>1 DEF FlowOK, Voted, Ready, HasHandler
        <5>5. pending[s][x] \in {"none", "begun", "prepared"}
          BY <1>0 DEF TypeOK
        <5> QED
          BY ZenonT(60), <4>7, <5>3, <5>4, <5>5 DEF Validates
      <4>8. CASE Proposes(h, x, s)
        <5>1. CASE h.op = "prepare"
          <6>1. Of(h, "prepare", x, s) /\ h.at # "sent"
            BY ZenonT(60), <3>9, <4>8, <5>1 DEF Proposes, Of
          <6> QED
            BY ZenonT(60), <3>1, <3>2, <4>8, <6>1 DEF Proposes
        <5>2. CASE h.op # "prepare"
          BY ZenonT(60), <3>2, <4>3, <4>4, <4>8, <5>2 DEF Proposes
        <5> QED
          BY ZenonT(60), <5>1, <5>2
      <4>9. CASE Defers(h, x, s)
        BY ZenonT(60), <3>2, <4>3, <4>4, <4>9 DEF Defers
      <4>10. CASE AbortsLocally(h, x, s)
        BY ZenonT(60), <4>10 DEF AbortsLocally, Touched
      <4>11. CASE Decides(h, x, s)
        <5>1. CASE h.op = "commit"
          <6>1. HasHandler("commit", x, s)
            BY ZenonT(60), <3>9, <5>1 DEF HasHandler, Of
          <6> QED
            BY ZenonT(60), <2>2, <3>3, <4>1, <4>11, <6>1 DEF Decides
        <5>2. CASE h.op # "commit"
          BY ZenonT(60), <4>11, <5>2 DEF Decides, Touched
        <5> QED
          BY ZenonT(60), <5>1, <5>2
      <4>12. CASE Fails(h, x, s)
        BY ZenonT(60), <3>2, <4>1, <4>4, <4>12 DEF Fails
      <4> QED
        BY ZenonT(60), <3>9, <4>5, <4>6, <4>7, <4>8, <4>9, <4>10, <4>11, <4>12 DEF Acts
    <3> QED
      BY ZenonT(60), <1>0, <3>5, <3>6, <3>7, <3>8, <3>9 DEF CellStep
  <2> QED
    BY ZenonT(60), <2>1, <2>2
<1> QED
  BY ZenonT(60), <1>1, <1>2

-----------------------------------------------------------------------------
(* The invariant is inductive: what clients and the log are told *)

\* What is flushed stays.
LEMMA FlushedNext ==
  ASSUME NEW x \in Txn, Moves(x), NEW t \in RecordType, Flushed(t, x)
  PROVE  Flushed(t, x)'
<1>1. (LogStays(x) \/ LogCut(x) \/ \E n \in RecordType : LogAdds(n, x)) => Flushed(t, x)'
  BY ZenonT(60) DEF LogStays, LogCut, LogAdds
<1>2. SUFFICES LogStays(x) \/ LogCut(x) \/ \E n \in RecordType : LogAdds(n, x)
  BY ZenonT(60), <1>1
<1> QED
  BY ZenonT(60), RecordTypes
  DEF Moves, Rests, Starts, Joins, Leaves, Asks, Resolves, Rejects, Errs, Quits, Succeeds,
      Undoes, Tells, Dies, Resumes, Inquires, Settles, Throws, Concludes, Redrives

\* COMMITTED is logged when all participants have answered.
LEMMA NewCommitted ==
  ASSUME NEW x \in Txn, Moves(x), Logged("COMMITTED", x)', ~Logged("COMMITTED", x)
  PROVE  All("commit", x) /\ parts'[x] = parts[x]
<1>1. ~LogStays(x) /\ ~LogCut(x) /\ \A t \in RecordType : LogAdds(t, x) => t = "COMMITTED"
  BY ZenonT(60), RecordTypes DEF LogStays, LogCut, LogAdds
<1> QED
  BY ZenonT(60), <1>1, RecordTypes
  DEF Moves, Rests, Starts, Joins, Leaves, Asks, Resolves, Rejects, Errs, Quits, Succeeds,
      Undoes, Tells, Dies, Resumes, Inquires, Settles, Throws, Concludes, Redrives, Goes, Kept

\* AnswersOK is kept.
LEMMA AnswersNext ==
  ASSUME CoordInv, [Next]_vars, NEW x \in Txn
  PROVE  AnswersOK(x)'
<1> SUFFICES ASSUME Sheltered(x)'
             PROVE  /\ \A s \in Shard : rpc'["commit"][s][x] = "yes" => x \in committed'[s]
                    /\ Logged("COMMITTED", x)' => \A s \in parts'[x] : x \in committed'[s]
  BY ZenonT(60) DEF AnswersOK
<1>0. /\ TypeOK /\ Sheltered(x) /\ Moves(x) /\ AnswersOK(x) /\ LogOK(x)
      /\ \A s \in Shard : CellOK(x, s) /\ CellStep(x, s)
  BY ZenonT(60), StepFacts
<1>00. parts[x] \subseteq Shard
  BY <1>0 DEF TypeOK
<1>1. \A s \in Shard : x \in committed[s] => x \in committed'[s]
  BY ZenonT(60), <1>0, CellGrows
<1>2. ASSUME NEW s \in Shard, rpc'["commit"][s][x] = "yes" PROVE x \in committed'[s]
  <2>1. CASE rpc["commit"][s][x] = "yes"
    BY ZenonT(60), <1>0, <1>1, <2>1 DEF AnswersOK
  <2>2. CASE rpc["commit"][s][x] # "yes"
    <3>1. PICK h : /\ Own(h, x, s) /\ h.op = "commit"
                   /\ Votes(h, x, s) \/ AbortsLocally(h, x, s) \/ Decides(h, x, s)
                      \/ (Fails(h, x, s) /\ h.op = "abort")
      BY <1>0, <1>2, <2>2, YesNext, Ops
    <3>2. Decides(h, x, s)
      BY ZenonT(60), <3>1 DEF Votes, AbortsLocally
    <3>3. HasApplied(h.op, x, s)
      BY ZenonT(60), <1>0, <3>1, <3>2, WaitingFacts DEF Decides
    <3>4. HasApplied("commit", x, s)
      BY ZenonT(60), <3>1, <3>3 DEF HasApplied
    <3> QED
      BY ZenonT(60), <1>0, <1>1, <3>4, OrderedNow
  <2> QED
    BY ZenonT(60), <2>1, <2>2
<1>3. ASSUME Logged("COMMITTED", x)' PROVE \A s \in parts'[x] : x \in committed'[s]
  <2>1. CASE Logged("COMMITTED", x)
    <3>1. ~Fresh(x)
      BY ZenonT(60), <1>0, <2>1, RecordTypes DEF LogOK
    <3>2. parts'[x] = parts[x]
      BY ZenonT(60), <1>0, <3>1, PlacesNext
    <3> QED
      BY ZenonT(60), <1>0, <1>00, <1>1, <2>1, <3>2 DEF AnswersOK
  <2>2. CASE ~Logged("COMMITTED", x)
    BY ZenonT(60), <1>0, <1>00, <1>1, <1>3, <2>2, NewCommitted DEF AnswersOK, All
  <2> QED
    BY ZenonT(60), <2>1, <2>2
<1> QED
  BY ZenonT(60), <1>2, <1>3

\* Who tells the client.
LEMMA NewOutcome ==
  ASSUME NEW x \in Txn, Moves(x)
  PROVE  /\ outcome'[x] = "ok" => outcome[x] = "ok" \/ Leaves(x) \/ Succeeds(x)
         /\ outcome'[x] = "conflict" => outcome[x] = "conflict" \/ Leaves(x) \/ Tells(x)
BY ZenonT(60)
DEF Moves, Rests, Starts, Joins, Asks, Resolves, Rejects, Errs, Quits,
    Undoes, Dies, Resumes, Inquires, Settles, Throws, Concludes, Redrives, Untold, Succeeds, Tells

\* OutcomeOK is kept.
LEMMA OutcomeNext ==
  ASSUME CoordInv, [Next]_vars, NEW x \in Txn
  PROVE  OutcomeOK(x)'
<1>0. /\ TypeOK /\ Moves(x) /\ AnswersOK(x) /\ OutcomeOK(x) /\ LogOK(x) /\ LogOK(x)'
      /\ \A s \in Shard : CellOK(x, s) /\ CellStep(x, s)
  BY ZenonT(60), StepFacts
<1>00. parts[x] \subseteq Shard
  BY <1>0 DEF TypeOK
<1>1. \A s \in Shard : x \in committed[s] => x \in committed'[s]
  BY ZenonT(60), <1>0, CellGrows
<1>2. ASSUME outcome'[x] = "ok" PROVE \A s \in parts'[x] : x \in committed'[s]
  <2>1. CASE outcome[x] = "ok"
    <3>1. parts'[x] = parts[x]
      BY ZenonT(60), <1>0, <2>1, PlacesNext DEF LogOK
    <3> QED
      BY ZenonT(60), <1>0, <1>00, <1>1, <2>1, <3>1 DEF OutcomeOK
  <2>2. CASE Leaves(x)
    BY ZenonT(60), <2>2 DEF Leaves, Goes, Kept
  <2>3. CASE Succeeds(x)
    <3>1. Sheltered(x) /\ All("commit", x) /\ parts'[x] = parts[x]
      BY ZenonT(60), <2>3 DEF Succeeds, Goes, Kept, Sheltered, ClientSide
    <3> QED
      BY ZenonT(60), <1>0, <1>00, <1>1, <3>1 DEF AnswersOK, All
  <2> QED
    BY ZenonT(60), <1>0, <1>2, <2>1, <2>2, <2>3, NewOutcome
<1>3. ASSUME outcome'[x] = "conflict", NEW s \in Shard
      PROVE  ~HasEntry("commit", x, s)' /\ ~HasHandler("commit", x, s)'
  <2>1. ~HasEntry("commit", x, s) /\ ~HasHandler("commit", x, s)
    <3>1. CASE outcome[x] = "conflict"
      BY ZenonT(60), <1>0, <3>1 DEF OutcomeOK
    <3>2. CASE Leaves(x)
      BY ZenonT(60), <1>0, <3>2, Ops DEF Leaves, Goes, Fresh, CellOK
    <3>3. CASE Tells(x)
      <4>1. Sheltered(x) /\ Logged("ABORTING", x)
        BY ZenonT(60), <1>0, <3>3 DEF Tells, Goes, LogOK, Sheltered, ClientSide
      <4>2. ~Committing(x)
        BY ZenonT(60), <4>1, InvFacts DEF ModeOK, Aborting
      <4> QED
        BY ZenonT(60), <4>2 DEF Committing
    <3> QED
      BY ZenonT(60), <1>0, <1>3, <3>1, <3>2, <3>3, NewOutcome
  <2>2. pc'[x] = "done"
    BY ZenonT(60), <1>0, <1>3 DEF LogOK
  <2>3. ~Sent("commit", x, s)
    BY ZenonT(60), <2>2 DEF Sent
  <2> QED
    BY ZenonT(60), <1>0, <2>1, <2>3, CellGrows, Ops
<1> QED
  BY ZenonT(60), <1>2, <1>3 DEF OutcomeOK

-----------------------------------------------------------------------------
(* The invariant is inductive: when nothing but crashes happens *)

\* Only a handler writes to the log.
LEMMA NewEntry ==
  ASSUME NEW x \in Txn, NEW s \in Shard, CellStep(x, s), NEW op \in Op,
         HasEntry(op, x, s)', ~HasEntry(op, x, s)
  PROVE  \E h : Own(h, x, s) /\ h.op = op /\ Proposes(h, x, s)
<1>1. ~EntriesSame(x, s)
  BY ZenonT(60) DEF EntriesSame
<1>2. /\ ~Idle(x, s) /\ ~Begins(x, s) /\ ~Conflicts(x, s) /\ ~Restarted(x, s)
      /\ \A o \in Op : ~Sent(o, x, s) /\ ~Applies(o, x, s)
  BY ZenonT(60), <1>1 DEF Idle, Begins, Conflicts, Restarted, Sent, Applies, Advances
<1>3. PICK h \in handlers : h.txn = x /\ h.shard = s /\ Acts(h, x, s)
  BY ZenonT(60), <1>2 DEF CellStep
<1>4. Proposes(h, x, s)
  BY ZenonT(60), <1>1, <1>3
  DEF Acts, Refuses, Validates, GivesUp, Takes, Votes, Defers, AbortsLocally, Decides, Fails
<1>5. h.op = op
  BY ZenonT(60), <1>4 DEF Proposes, Appends
<1> QED
  BY ZenonT(60), <1>3, <1>4, <1>5 DEF Own

\* The steps that are faults.
LEMMA NoFaults ==
  ASSUME FaultFree', NEW x \in Txn, NEW s \in Shard
  PROVE  ~Restarted(x, s) /\ \A h : ~GivesUp(h, x, s) /\ ~Fails(h, x, s)
BY ZenonT(60) DEF Restarted, GivesUp, Fails

\* A vote stands until the decision is carried out.
LEMMA VoteStays ==
  ASSUME TypeOK, NEW x \in Txn, NEW s \in Shard, CellOK(x, s), CellStep(x, s), FaultFree', ~Fresh(x)
  PROVE  /\ terminal[s][x] # "none" => terminal'[s][x] # "none"
         /\ HasEntry("prepare", x, s) /\ pending[s][x] # "none" =>
              pending'[s][x] # "none" \/ terminal'[s][x] # "none"
         /\ pending[s][x] = "prepared" =>
              \/ pending'[s][x] = "prepared"
              \/ \E h : Own(h, x, s) /\ (AbortsLocally(h, x, s) \/ Decides(h, x, s))
         /\ \A h : AbortsLocally(h, x, s) \/ Decides(h, x, s) => terminal'[s][x] # "none"
<1>1. \A h : AbortsLocally(h, x, s) \/ Decides(h, x, s) => terminal'[s][x] # "none"
  <2> TAKE h
  <2>1. AbortsLocally(h, x, s) => terminal'[s][x] # "none"
    BY ZenonT(60) DEF AbortsLocally
  <2>2. Decides(h, x, s) => terminal'[s][x] = IF h.op = "commit" THEN "committed" ELSE "aborted"
    BY ZenonT(60) DEF Decides
  <2> QED
    BY ZenonT(60), <2>1, <2>2
<1>2. terminal[s][x] # "none" => terminal'[s][x] # "none"
  BY ZenonT(60), <1>1, NoFaults, TablesNext
<1>3. pending'[s][x] = pending[s][x]
      \/ \E h : Own(h, x, s) /\ (Refuses(h, x, s) \/ Votes(h, x, s)
                                 \/ AbortsLocally(h, x, s) \/ Decides(h, x, s))
  <2>1. ~Begins(x, s)
    BY ZenonT(60) DEF Begins, Fresh
  <2> QED
    BY ZenonT(60), <2>1, NoFaults, TablesNext
<1>4. ASSUME NEW h, Own(h, x, s), Refuses(h, x, s) PROVE ~HasEntry("prepare", x, s)
  <2>1. HandlerOK(h) /\ h.txn = x /\ h.shard = s
    BY ZenonT(60), <1>4, WaitingFacts DEF Own
  <2>2. h.op = "prepare" /\ h.at \in {"sent", "prepared"}
    BY ZenonT(60), <1>4 DEF Refuses
  <2> QED
    BY ZenonT(60), <2>1, <2>2 DEF HandlerOK
<1>5. ASSUME NEW h, Votes(h, x, s), pending[s][x] # "none" PROVE pending'[s][x] = "prepared"
  <2>1. pending'[s][x] = IF pending[s][x] = "none" THEN "none" ELSE "prepared"
    BY ZenonT(60), <1>5 DEF Votes
  <2> QED
    BY ZenonT(60), <1>5, <2>1
<1>6. HasEntry("prepare", x, s) /\ pending[s][x] # "none" =>
        \/ pending'[s][x] = pending[s][x] \/ pending'[s][x] = "prepared"
        \/ \E h : Own(h, x, s) /\ (AbortsLocally(h, x, s) \/ Decides(h, x, s))
  BY ZenonT(60), <1>3, <1>4, <1>5
<1>7. pending[s][x] = "prepared" => HasEntry("prepare", x, s) /\ pending[s][x] # "none"
  BY ZenonT(60) DEF CellOK
<1>8. HasEntry("prepare", x, s) /\ pending[s][x] # "none" =>
              pending'[s][x] # "none" \/ terminal'[s][x] # "none"
  BY ZenonT(60), <1>1, <1>6
<1>9. pending[s][x] = "prepared" =>
              \/ pending'[s][x] = "prepared"
              \/ \E h : Own(h, x, s) /\ (AbortsLocally(h, x, s) \/ Decides(h, x, s))
  BY ZenonT(60), <1>6, <1>7
<1> QED
  BY ZenonT(60), <1>1, <1>2, <1>8, <1>9

\* A refusal is final.
LEMMA RefusedStays ==
  ASSUME TypeOK, NEW x \in Txn, NEW s \in Shard, CellOK(x, s), CellStep(x, s), ~Fresh(x),
         Refused(x, s)
  PROVE  Refused(x, s)'
<1>1. pending[s][x] = "none" /\ ~HasEntry("prepare", x, s) /\ ~HasHandler("prepare", x, s)
  BY ZenonT(60) DEF Refused
<1>2. ~Sent("prepare", x, s) /\ ~Begins(x, s)
  BY ZenonT(60) DEF Sent, Begins, Fresh
<1>3. ~HasEntry("prepare", x, s)' /\ ~HasHandler("prepare", x, s)'
  BY ZenonT(60), <1>1, <1>2, CellGrows, Ops
<1>4. \A h : Own(h, x, s) => ~Refuses(h, x, s) /\ ~GivesUp(h, x, s) /\ ~Votes(h, x, s)
  BY ZenonT(60), <1>1 DEF Own, HasHandler, Of, Refuses, GivesUp, Votes
<1>5. /\ Restarted(x, s) => pending'[s][x] = "none"
      /\ \A h : AbortsLocally(h, x, s) \/ Decides(h, x, s) => pending'[s][x] = "none"
  BY ZenonT(60) DEF Restarted, AbortsLocally, Decides, Dropped
<1>6. pending'[s][x] = "none"
  BY ZenonT(60), <1>1, <1>2, <1>4, <1>5, TablesNext
<1> QED
  BY ZenonT(60), <1>3, <1>6 DEF Refused

\* Recover starts its queries with no answer.
LEMMA QueriesStart ==
  ASSUME NEW x \in Txn, NEW s \in Shard, LogOK(x), Resumes(x), pc'[x] = "query"
  PROVE  seen'[x][s] = "none"
<1>1. ~Redrives("commit", x) /\ ~Redrives("abort", x)
  <2>1. \A op : Redrives(op, x) => pc'[x] = IF op = "commit" THEN "recommit" ELSE "reabort"
    BY ZenonT(60) DEF Redrives
  <2> QED
    BY <2>1
<1>2. /\ ~Logged("COMMITTING", x) /\ ~Logged("ABORTING", x) /\ Kept(x)
      /\ pc[x] \notin RecoverSide
  BY ZenonT(60), <1>1 DEF Resumes
<1>3. pc[x] # "query"
  BY ZenonT(60), <1>2 DEF RecoverSide
<1>4. seen[x][s] = "none"
  BY ZenonT(60), <1>2, <1>3 DEF LogOK
<1> QED
  BY ZenonT(60), <1>2, <1>4 DEF Kept

\* CalmOK is kept.
LEMMA CalmOKNext ==
  ASSUME CoordInv, [Next]_vars, NEW x \in Txn
  PROVE  CalmOK(x)'
<1> SUFFICES ASSUME FaultFree'
             PROVE  /\ Committing(x)' => \A s \in parts'[x] :
                         /\ pending'[s][x] = "prepared" \/ terminal'[s][x] = "committed"
                         /\ pc'[x] = "query" => seen'[x][s] \in {"none", "prepared", "committed"}
                    /\ AbortSent(x)' => Flushed("ABORTING", x)' \/ \E s \in parts'[x] : Refused(x, s)'
  BY ZenonT(60) DEF CalmOK
<1>0. /\ TypeOK /\ FaultFree /\ Sheltered(x) /\ Moves(x) /\ CalmOK(x) /\ LogOK(x) /\ ModeOK(x)
      /\ \A s \in Shard : CellOK(x, s) /\ CellStep(x, s) /\ CalmCell(x, s)
  BY ZenonT(60), StepFacts DEF Sheltered
<1>00. parts[x] \subseteq Shard
  BY <1>0 DEF TypeOK
<1>1. ASSUME Committing(x)', NEW s \in parts'[x]
      PROVE  /\ pending'[s][x] = "prepared" \/ terminal'[s][x] = "committed"
             /\ pc'[x] = "query" => seen'[x][s] \in {"none", "prepared", "committed"}
  <2>1. ~Committing(x) => Resolves(x) \/ Concludes("commit", x)
    BY ZenonT(60), <1>1, NewCommit
  <2>2. ~Fresh(x)
    BY ZenonT(60), <2>1, Undecided DEF Resolves, Concludes, Goes, Fresh
  <2>3. parts'[x] = parts[x] /\ s \in parts[x] /\ s \in Shard
    BY ZenonT(60), <1>0, <1>00, <1>1, <2>2, PlacesNext
  <2>4. ~Aborting(x) /\ Ready(x, s) /\ (pending[s][x] = "prepared" \/ terminal[s][x] = "committed")
    <3>1. CASE Committing(x)
      BY ZenonT(60), <1>0, <2>3, <3>1 DEF ModeOK, CalmOK
    <3>2. CASE ~Committing(x)
      BY ZenonT(60), <1>0, <2>1, <2>3, <3>2, CommitJustified
    <3> QED
      BY ZenonT(60), <3>1, <3>2
  <2>5. ~HasHandler("abort", x, s) /\ terminal[s][x] # "aborted"
    BY ZenonT(60), <2>3, <2>4 DEF Aborting, AbortSent
  <2>6. ASSUME NEW h, Own(h, x, s), AbortsLocally(h, x, s) \/ Decides(h, x, s)
        PROVE  terminal'[s][x] = "committed"
    <3>1. h.op # "abort"
      BY ZenonT(60), <2>5, <2>6 DEF Own, HasHandler, Of
    <3>2. Decides(h, x, s) /\ h.op = "commit"
      BY ZenonT(60), <2>6, <3>1 DEF AbortsLocally, Decides
    <3> QED
      BY ZenonT(60), <3>2 DEF Decides
  <2>7. terminal[s][x] = "committed" => terminal'[s][x] = "committed"
    BY ZenonT(60), <1>0, <2>3, <2>6, NoFaults, TablesNext
  <2>8. pending[s][x] = "prepared" => pending'[s][x] = "prepared" \/ terminal'[s][x] = "committed"
    BY ZenonT(60), <1>0, <2>2, <2>3, <2>6, VoteStays
  <2>9. ASSUME pc'[x] = "query" PROVE seen'[x][s] \in {"none", "prepared", "committed"}
    <3>1. CASE Resumes(x)
      BY ZenonT(60), <1>0, <2>3, <2>9, <3>1, QueriesStart
    <3>2. CASE pc[x] = "query"
      <4>1. ~Resolves(x) /\ ~Concludes("commit", x)
        <5>1. \A op : Redrives(op, x) => pc'[x] = IF op = "commit" THEN "recommit" ELSE "reabort"
          BY ZenonT(60) DEF Redrives
        <5>2. ~Redrives("commit", x)
          BY ZenonT(60), <2>9, <5>1
        <5> QED
          BY ZenonT(60), <3>2, <5>2 DEF Resolves, Concludes, Goes
      <4>2. seen[x][s] \in {"none", "prepared", "committed"}
        BY ZenonT(60), <1>0, <2>1, <2>3, <3>2, <4>1 DEF CalmOK
      <4>3. \A a \in TxnState(s, x) : a \in {"prepared", "committed"}
        BY ZenonT(60), <1>0, <2>3, <2>4, <2>5, SeenStates
      <4> QED
        BY ZenonT(60), <1>0, <2>3, <4>2, <4>3, SeenNext
    <3> QED
      BY ZenonT(60), <1>0, <2>9, <3>1, <3>2, PlacesNext
  <2> QED
    BY ZenonT(60), <2>4, <2>7, <2>8, <2>9
<1>2. ASSUME AbortSent(x)' PROVE Flushed("ABORTING", x)' \/ \E s \in parts'[x] : Refused(x, s)'
  <2>1. ASSUME ~Fresh(x), NEW s \in parts[x], Refused(x, s)
        PROVE  \E r \in parts'[x] : Refused(x, r)'
    <3>1. s \in Shard /\ s \in parts'[x] /\ Refused(x, s)'
      BY ZenonT(60), <1>0, <1>00, <2>1, PlacesNext, RefusedStays
    <3> QED
      BY ZenonT(60), <3>1
  <2>2. CASE AbortSent(x)
    <3>1. ~Fresh(x)
      BY ZenonT(60), <2>2, Undecided DEF Aborting
    <3>2. Flushed("ABORTING", x) \/ \E s \in parts[x] : Refused(x, s)
      BY ZenonT(60), <1>0, <2>2 DEF CalmOK
    <3>3. Flushed("ABORTING", x) => Flushed("ABORTING", x)'
      BY ZenonT(60), <1>0, FlushedNext, RecordTypes
    <3> QED
      BY ZenonT(60), <2>1, <3>1, <3>2, <3>3
  <2>3. CASE Rejects(x)
    <3>1. PICK s \in parts[x] : rpc["prepare"][s][x] = "no"
      BY ZenonT(60), <2>3 DEF Rejects
    <3>2. pc[x] = "preparing"
      BY ZenonT(60), <2>3 DEF Rejects, Goes
    <3>3. Refused(x, s)
      BY ZenonT(60), <1>0, <1>00, <3>1, <3>2 DEF CalmCell
    <3>4. ~Fresh(x)
      BY ZenonT(60), <3>2 DEF Fresh
    <3> QED
      BY ZenonT(60), <2>1, <3>1, <3>3, <3>4
  <2> QED
    BY ZenonT(60), <1>2, <2>2, <2>3, NewAbort
<1> QED
  BY ZenonT(60), <1>1, <1>2

\* In a preparing transaction a "yes" is a vote that stands.
LEMMA CalmYes ==
  ASSUME CoordInv, [Next]_vars, NEW x \in Txn, NEW s \in Shard, FaultFree',
         pc'[x] = "preparing", rpc'["prepare"][s][x] = "yes"
  PROVE  pending'[s][x] = "prepared"
<1>0. /\ TypeOK /\ FaultFree /\ Sheltered(x) /\ Moves(x) /\ CellOK(x, s) /\ FlowOK(x, s)
      /\ CellStep(x, s) /\ CalmCell(x, s)
  BY ZenonT(60), StepFacts DEF Sheltered
<1>1. pc[x] \in {"active", "preparing"}
  BY ZenonT(60), <1>0, PlacesNext
<1>2. ~Touched(x, s)
  BY ZenonT(60), <1>1, Undecided DEF Fresh
<1>3. CASE pc[x] = "preparing" /\ rpc["prepare"][s][x] = "yes"
  <2>1. pending[s][x] = "prepared" /\ ~Fresh(x)
    BY ZenonT(60), <1>0, <1>3 DEF CalmCell, Fresh
  <2>2. ~HasHandler("commit", x, s) /\ ~HasHandler("abort", x, s)
    BY ZenonT(60), <1>0, <1>3 DEF CellOK
  <2>3. \A h : Own(h, x, s) => ~AbortsLocally(h, x, s) /\ ~Decides(h, x, s)
    BY ZenonT(60), <2>2 DEF Own, HasHandler, Of, AbortsLocally, Decides
  <2> QED
    BY ZenonT(60), <1>0, <2>1, <2>3, VoteStays
<1>4. CASE rpc["prepare"][s][x] # "yes"
  <2>1. PICK h : /\ Own(h, x, s) /\ h.op = "prepare"
                 /\ Votes(h, x, s) \/ AbortsLocally(h, x, s) \/ Decides(h, x, s)
                    \/ (Fails(h, x, s) /\ h.op = "abort")
    BY <1>0, <1>4, YesNext, Ops
  <2>2. Votes(h, x, s)
    BY ZenonT(60), <2>1 DEF AbortsLocally, Decides
  <2> QED
    BY ZenonT(60), <1>0, <1>2, <2>1, <2>2, VoteReady
<1>5. pc[x] = "active" => rpc["prepare"][s][x] # "yes"
  <2>1. pc[x] = "active" => rpc["prepare"][s][x] = "none"
    BY ZenonT(60), <1>0 DEF CellOK, Fresh
  <2> QED
    BY ZenonT(60), <2>1
<1> QED
  BY ZenonT(60), <1>1, <1>3, <1>4, <1>5

\* In a preparing transaction a "no" is a refusal.
LEMMA CalmNo ==
  ASSUME CoordInv, [Next]_vars, NEW x \in Txn, NEW s \in Shard, FaultFree',
         pc'[x] = "preparing", rpc'["prepare"][s][x] = "no"
  PROVE  Refused(x, s)'
<1>0. /\ TypeOK /\ FaultFree /\ Moves(x) /\ CellOK(x, s) /\ CellStep(x, s) /\ CalmCell(x, s)
  BY ZenonT(60), StepFacts
<1>1. pc[x] \in {"active", "preparing"}
  BY ZenonT(60), <1>0, PlacesNext
<1>2. ~Touched(x, s)
  BY ZenonT(60), <1>1, Undecided DEF Fresh
<1>3. CASE pc[x] = "preparing" /\ rpc["prepare"][s][x] = "no"
  <2>1. Refused(x, s) /\ ~Fresh(x)
    BY ZenonT(60), <1>0, <1>3 DEF CalmCell, Fresh
  <2> QED
    BY ZenonT(60), <1>0, <2>1, RefusedStays
<1>4. CASE rpc["prepare"][s][x] # "no"
  <2>1. PICK h : /\ Own(h, x, s) /\ h.op = "prepare"
                 /\ Refuses(h, x, s) \/ (Takes(h, x, s) /\ ~prepare_results[s][x])
    BY <1>0, <1>4, NoNext, Ops
  <2>2. h \in handlers /\ Of(h, "prepare", x, s) /\ HandlerOK(h)
    BY ZenonT(60), <1>0, <2>1, WaitingFacts DEF Own, Of
  <2>3. ASSUME Takes(h, x, s) PROVE prepare_results[s][x]
    <3>1. h.at = "waiting" /\ last_applied[s] >= h.ix
      BY ZenonT(60), <2>3 DEF Takes
    <3>2. HasApplied(h.op, x, s)
      BY ZenonT(60), <1>0, <2>1, <3>1, WaitingFacts
    <3>3. HasApplied("prepare", x, s)
      BY ZenonT(60), <2>1, <3>2 DEF HasApplied
    <3> QED
      BY ZenonT(60), <1>0, <1>2, <2>2, <3>1, <3>3 DEF CalmCell
  <2>4. Refuses(h, x, s)
    BY ZenonT(60), <2>1, <2>3
  <2>5. pending'[s][x] = "none" /\ EntriesSame(x, s) /\ Finish(h, "no")
        /\ h.at \in {"sent", "prepared"}
    BY ZenonT(60), <2>4 DEF Refuses, Dropped, Same
  <2>6. ~HasEntry("prepare", x, s)'
    BY ZenonT(60), <2>1, <2>2, <2>5, Ops DEF HandlerOK, EntriesSame, Of
  <2>7. handlers' = handlers \ {h}
    BY ZenonT(60), <1>0, <2>2, <2>5, FinishFacts DEF Done
  <2>8. ~HasHandler("prepare", x, s)'
    BY ZenonT(60), <1>0, <2>2, <2>7 DEF CellOK, OnePrepare, HasHandler
  <2> QED
    BY ZenonT(60), <2>5, <2>6, <2>8 DEF Refused
<1>5. pc[x] = "active" => rpc["prepare"][s][x] # "no"
  <2>1. pc[x] = "active" => rpc["prepare"][s][x] = "none"
    BY ZenonT(60), <1>0 DEF CellOK, Fresh
  <2> QED
    BY ZenonT(60), <2>1
<1> QED
  BY ZenonT(60), <1>1, <1>3, <1>4, <1>5

\* A Prepare whose entry was applied finds its result.
LEMMA CalmResult ==
  ASSUME CoordInv, [Next]_vars, NEW x \in Txn, NEW s \in Shard, FaultFree',
         ~Touched(x, s)', HasApplied("prepare", x, s)',
         NEW g \in handlers', Of(g, "prepare", x, s), g.at = "waiting"
  PROVE  prepare_results'[s][x]
<1>0. /\ TypeOK /\ FaultFree /\ Sheltered(x) /\ CellOK(x, s) /\ CalmCell(x, s) /\ CellStep(x, s)
  BY ZenonT(60), StepFacts DEF Sheltered
<1>1. ~Touched(x, s)
  BY ZenonT(60), <1>0, CommitAt, NoFaults, TouchedStays
<1>2. g.op = "prepare" /\ g.txn = x /\ g.shard = s /\ OnePrepare(x, s)
  BY ZenonT(60), <1>0 DEF Of, CellOK
<1>3. \A h \in handlers : Of(h, "prepare", x, s) /\ h.at = "waiting" /\ HasApplied("prepare", x, s) =>
        prepare_results[s][x]
  BY ZenonT(60), <1>0, <1>1 DEF CalmCell
<1>4. HasEntry("commit", x, s) => \A h \in handlers : ~Of(h, "prepare", x, s)
  BY ZenonT(60), <1>0, CommitAt DEF Ready, HasHandler
<1>5. EntriesSame(x, s) => HasApplied("prepare", x, s)
  BY ZenonT(60), Ops DEF EntriesSame
<1>6. Same(x, s) => (prepare_results'[s][x] <=> prepare_results[s][x])
  BY ZenonT(60) DEF Same
<1>7. CASE Idle(x, s)
  <2>1. PICK h \in handlers : Alike(g, h)
    BY ZenonT(60), <1>2, <1>7 DEF Idle, Thin
  <2>2. Of(h, "prepare", x, s) /\ h.at = "waiting"
    BY ZenonT(60), <1>2, <2>1 DEF Alike, Of
  <2> QED
    BY ZenonT(60), <1>3, <1>5, <1>6, <1>7, <2>1, <2>2 DEF Idle
<1>8. CASE Begins(x, s) \/ Conflicts(x, s) \/ Restarted(x, s)
  <2>1. Fresh(x) => ~HasHandler("prepare", x, s)
    BY ZenonT(60), <1>0, Ops DEF CellOK
  <2> QED
    BY ZenonT(60), <1>2, <1>8, <2>1 DEF Begins, Conflicts, Restarted, Fresh, HasHandler
<1>9. ASSUME NEW op \in Op, Sent(op, x, s) PROVE prepare_results'[s][x]
  <2>1. g # Request(op, x, s)
    BY DEF Request
  <2>2. g \in handlers
    BY ZenonT(60), <1>2, <1>9, <2>1 DEF Sent
  <2> QED
    BY ZenonT(60), <1>3, <1>5, <1>6, <1>9, <2>2 DEF Sent
<1>10. ASSUME NEW op \in Op, Applies(op, x, s) PROVE prepare_results'[s][x]
  <2>1. g \in handlers /\ HasEntry(op, x, s)
    BY ZenonT(60), <1>10 DEF Applies, Advances
  <2>2. op # "commit" /\ op # "abort"
    BY ZenonT(60), <1>1, <1>4, <2>1 DEF Touched
  <2>3. op = "prepare"
    BY ZenonT(60), <1>10, <2>2 DEF Op
  <2> QED
    BY ZenonT(60), <1>10, <2>3 DEF Applies
<1>11. ASSUME NEW h \in handlers, h.txn = x, h.shard = s, Acts(h, x, s) PROVE prepare_results'[s][x]
  <2>1. \A a : Finish(h, a) => g \in handlers /\ g # h
    BY ZenonT(60), <1>0, FinishFacts DEF Done
  <2>2. h.op = "prepare" => g \notin handlers \/ g = h
    BY ZenonT(60), <1>2, <1>11 DEF OnePrepare, Of
  <2>3. h.op = "prepare" => \A a : ~Finish(h, a)
    BY ZenonT(60), <2>1, <2>2
  <2>4. ASSUME NEW at, NEW ix, Goto(h, at, ix)
        PROVE  (h.op = "prepare" /\ at = "waiting") \/ (h.op # "prepare" /\ g \in handlers)
    <3>1. Went(h, at, ix)
      BY ZenonT(60), <1>0, <2>4, GotoFacts
    <3>2. PICK k : /\ handlers' = (handlers \ {h}) \cup {k}
                   /\ k.op = h.op /\ k.at = at
      BY ZenonT(60), <3>1 DEF Went
    <3> QED
      BY ZenonT(60), <1>2, <2>2, <3>2
  <2>5. g \in handlers /\ HasApplied("prepare", x, s) => prepare_results[s][x]
    BY ZenonT(60), <1>3
  <2>6. CASE Refuses(h, x, s) \/ GivesUp(h, x, s) \/ Votes(h, x, s)
    BY ZenonT(60), <2>3, <2>6 DEF Refuses, GivesUp, Votes
  <2>7. CASE Takes(h, x, s) \/ Validates(h, x, s)
    <3>1. h.op = "prepare" /\ (Goto(h, "taken", 0) \/ Goto(h, "prepared", 0))
      BY ZenonT(60), <2>3, <2>7 DEF Takes, Validates
    <3> QED
      BY <2>4, <3>1
  <2>8. CASE Proposes(h, x, s)
    <3>1. HasApplied("prepare", x, s)
      BY ZenonT(60), <2>8, Ops DEF Proposes, Appends
    <3>2. HasEntry("prepare", x, s)
      BY ZenonT(60), <1>0, <3>1, AppliedEntry
    <3>3. HandlerOK(h)
      BY ZenonT(60), <1>0, <1>11 DEF CellOK
    <3>4. h.op # "prepare"
      BY ZenonT(60), <1>11, <2>8, <3>2, <3>3 DEF Proposes, HandlerOK
    <3>5. g \in handlers
      BY ZenonT(60), <2>4, <2>8, <3>4 DEF Proposes
    <3> QED
      BY ZenonT(60), <1>6, <2>5, <2>8, <3>1, <3>5 DEF Proposes
  <2>9. CASE Defers(h, x, s)
    <3>1. h.op # "prepare" /\ Goto(h, "unreplicated", 0)
      BY ZenonT(60), <2>9 DEF Defers
    <3>2. g \in handlers
      BY ZenonT(60), <2>4, <3>1
    <3> QED
      BY ZenonT(60), <1>5, <1>6, <2>5, <2>9, <3>2 DEF Defers
  <2>10. CASE AbortsLocally(h, x, s)
    BY ZenonT(60), <2>10 DEF AbortsLocally, Touched
  <2>11. CASE Decides(h, x, s)
    BY ZenonT(60), <1>5, <2>1, <2>5, <2>11 DEF Decides
  <2>12. CASE Fails(h, x, s)
    BY ZenonT(60), <2>12, NoFaults
  <2> QED
    BY ZenonT(60), <1>11, <2>6, <2>7, <2>8, <2>9, <2>10, <2>11, <2>12 DEF Acts
<1> QED
  BY ZenonT(60), <1>0, <1>7, <1>8, <1>9, <1>10, <1>11 DEF CellStep

\* The tables tell Recover that a shard has voted.
LEMMA CalmSeen ==
  ASSUME CoordInv, [Next]_vars, NEW x \in Txn, NEW s \in Shard, FaultFree',
         pc'[x] = "query", seen'[x][s] = "prepared"
  PROVE  pending'[s][x] = "prepared" \/ terminal'[s][x] # "none"
<1>0. /\ TypeOK /\ FaultFree /\ Moves(x) /\ LogOK(x) /\ CellOK(x, s) /\ CalmCell(x, s) /\ CellStep(x, s)
  BY ZenonT(60), StepFacts
<1>1. ~Resumes(x)
  BY ZenonT(60), <1>0, QueriesStart
<1>2. pc[x] = "query"
  BY ZenonT(60), <1>0, <1>1, PlacesNext
<1>3. ~Fresh(x)
  BY ZenonT(60), <1>2 DEF Fresh
<1>4. pending[s][x] = "prepared" \/ terminal[s][x] # "none"
  <2>1. CASE seen[x][s] = "prepared"
    BY ZenonT(60), <1>0, <1>2, <2>1 DEF CalmCell
  <2>2. CASE seen'[x][s] \in TxnState(s, x)
    <3>1. \/ pending[s][x] = "prepared"
          \/ /\ terminal[s][x] = "none" /\ pending[s][x] = "none"
             /\ prepare_results[s][x] \/ follower_results[s][x]
      BY ZenonT(60), <1>0, <2>2, SeenStates
    <3>2. prepare_results[s][x] \/ follower_results[s][x] => HasEntry("prepare", x, s)
      BY ZenonT(60), <1>0 DEF CellOK
    <3> QED
      BY ZenonT(60), <1>0, <3>1, <3>2 DEF CalmCell
  <2> QED
    BY ZenonT(60), <1>0, <2>1, <2>2, SeenNext
<1> QED
  BY ZenonT(60), <1>0, <1>3, <1>4, VoteStays

\* CalmCell is kept.
LEMMA CalmCellNext ==
  ASSUME CoordInv, [Next]_vars, NEW x \in Txn, NEW s \in Shard
  PROVE  CalmCell(x, s)'
<1>1. ASSUME FaultFree', HasEntry("prepare", x, s)'
      PROVE  pending'[s][x] # "none" \/ terminal'[s][x] # "none"
  <2>0. /\ TypeOK /\ FaultFree /\ CellOK(x, s) /\ CalmCell(x, s) /\ CellStep(x, s)
    BY ZenonT(60), <1>1, StepFacts
  <2>1. CASE HasEntry("prepare", x, s)
    <3>1. ~Fresh(x)
      BY ZenonT(60), <2>0, <2>1, Ops DEF CellOK
    <3>2. pending[s][x] # "none" \/ terminal[s][x] # "none"
      BY ZenonT(60), <2>0, <2>1 DEF CalmCell
    <3> QED
      BY ZenonT(60), <1>1, <2>0, <2>1, <3>1, <3>2, VoteStays
  <2>2. CASE ~HasEntry("prepare", x, s)
    <3>1. PICK h : Own(h, x, s) /\ h.op = "prepare" /\ Proposes(h, x, s)
      BY <1>1, <2>0, <2>2, NewEntry, Ops
    <3>2. local[s][x] # "none" /\ Same(x, s)
      BY ZenonT(60), <3>1 DEF Proposes
    <3>3. pending[s][x] # "none" \/ terminal[s][x] # "none"
      BY ZenonT(60), <2>0, <3>2 DEF CellOK
    <3> QED
      BY ZenonT(60), <3>2, <3>3 DEF Same
  <2> QED
    BY ZenonT(60), <2>1, <2>2
<1>2. ASSUME FaultFree', ~Touched(x, s)', HasApplied("prepare", x, s)'
      PROVE  \A h \in handlers' : Of(h, "prepare", x, s) /\ h.at = "waiting" => prepare_results'[s][x]
  BY ZenonT(60), <1>2, CalmResult
<1> QED
  BY ZenonT(60), <1>1, <1>2, CalmYes, CalmNo, CalmSeen DEF CalmCell, Of

-----------------------------------------------------------------------------
(* The invariant, and what follows from it *)

\* The invariant holds at first.
LEMMA InvInit == Init => CoordInv
<1> SUFFICES ASSUME Init PROVE CoordInv
  OBVIOUS
<1>1. TypeOK
  BY ZenonT(60), TypeInit
<1>2. \A s \in Shard : \A op, x : ~HasEntry(op, x, s) /\ ~HasApplied(op, x, s)
  <2>1. \A s \in Shard : Len(slog[s]) = 0 /\ last_applied[s] = 0
    BY DEF Init, InitShards
  <2>2. \A i \in 1..0 : FALSE
    OBVIOUS
  <2> QED
    BY ZenonT(60), <2>1, <2>2 DEF HasEntry, HasApplied
<1>3. handlers = {} /\ \A op, x, s : ~HasHandler(op, x, s)
  BY ZenonT(60) DEF Init, InitShards, HasHandler
<1>4. \A t, x : ~Logged(t, x) /\ ~Flushed(t, x)
  <2>1. Len(clog) = 0 /\ synced = 0
    BY DEF Init
  <2>2. \A i \in 1..0 : FALSE
    OBVIOUS
  <2> QED
    BY ZenonT(60), <2>1, <2>2 DEF Logged, Flushed
<1>5. \A x \in Txn, s \in Shard :
        /\ pc[x] = "new" /\ outcome[x] = "none" /\ seen[x][s] = "none" /\ up = "up"
        /\ terminal[s][x] = "none" /\ pending[s][x] = "none" /\ local[s][x] = "none"
        /\ prepare_results[s][x] = FALSE /\ follower_results[s][x] = FALSE
        /\ x \notin committed[s]
  BY ZenonT(60) DEF Init, InitShards, ForAll, Nothing
<1>14. \A y \in Txn, s \in Shard : rpc["commit"][s][y] = "none" /\ rpc["prepare"][s][y] = "none"
  BY Ops DEF Init, InitShards, ForAll
<1>6. \A x \in Txn : pc[x] = "new" /\ outcome[x] = "none" /\ up = "up"
  BY ZenonT(60) DEF Init
<1> SUFFICES ASSUME NEW x \in Txn
             PROVE  /\ LogOK(x) /\ UpOK(x) /\ ModeOK(x) /\ AnswersOK(x) /\ CalmOK(x) /\ OutcomeOK(x)
                    /\ \A s \in Shard : CellOK(x, s) /\ FlowOK(x, s) /\ CalmCell(x, s)
  BY ZenonT(60), <1>1 DEF CoordInv
<1>7. ~Committing(x) /\ ~AbortSent(x)
  <2>1. \A s \in Shard : ~(terminal[s][x] = "aborted")
    <3> TAKE s \in Shard
    <3>1. terminal[s][x] = "none"
      BY ZenonT(60), <1>5
    <3> QED
      BY ZenonT(60), <3>1
  <2> QED
    BY ZenonT(60), <1>2, <1>3, <1>4, <2>1 DEF Committing, AbortSent
<1>8. LogOK(x)
  <2>1. AbortedLast(x)
    BY ZenonT(60), <1>4 DEF AbortedLast, Logged
  <2>2. pc[x] = "new" /\ outcome[x] = "none" /\ \A s \in Shard : seen[x][s] = "none"
    BY ZenonT(60), <1>5, <1>6
  <2> QED
    BY ZenonT(60), <1>4, <2>1, <2>2 DEF LogOK
<1>9. UpOK(x)
  BY ZenonT(60), <1>6 DEF UpOK, RecoverSide, ClientSide
<1>10. ModeOK(x) /\ CalmOK(x)
  BY ZenonT(60), <1>7 DEF ModeOK, CalmOK
<1>11. AnswersOK(x)
  <2>1. \A s \in Shard : rpc["commit"][s][x] = "none"
    BY ZenonT(60), <1>5, <1>14
  <2> QED
    BY ZenonT(60), <1>4, <2>1 DEF AnswersOK
<1>12. OutcomeOK(x)
  BY ZenonT(60), <1>6 DEF OutcomeOK
<1>13. ASSUME NEW s \in Shard PROVE CellOK(x, s) /\ FlowOK(x, s) /\ CalmCell(x, s)
  <2>1. /\ pc[x] = "new" /\ seen[x][s] = "none"
        /\ terminal[s][x] = "none" /\ pending[s][x] = "none" /\ local[s][x] = "none"
        /\ rpc["prepare"][s][x] = "none" /\ x \notin committed[s]
    BY <1>5, <1>14
  <2>5. ~prepare_results[s][x] /\ ~follower_results[s][x]
    BY <1>5
  <2>2. CellOK(x, s)
    BY ZenonT(60), <1>2, <1>3, <2>1, <2>5 DEF CellOK, OnePrepare
  <2>3. FlowOK(x, s)
    BY ZenonT(60), <1>3, <2>1 DEF FlowOK, Voted
  <2>4. CalmCell(x, s)
    BY ZenonT(60), <1>2, <2>1 DEF CalmCell
  <2> QED
    BY ZenonT(60), <2>2, <2>3, <2>4
<1> QED
  BY ZenonT(60), <1>8, <1>9, <1>10, <1>11, <1>12, <1>13

\* Every step keeps the invariant.
LEMMA InvNext == CoordInv /\ [Next]_vars => CoordInv'
<1> SUFFICES ASSUME CoordInv, [Next]_vars PROVE CoordInv'
  OBVIOUS
<1>1. TypeOK'
  BY ZenonT(60), TypeNext DEF CoordInv
<1>2. ASSUME NEW x \in Txn
      PROVE  /\ LogOK(x)' /\ UpOK(x)' /\ ModeOK(x)' /\ AnswersOK(x)' /\ CalmOK(x)' /\ OutcomeOK(x)'
             /\ \A s \in Shard : CellOK(x, s)' /\ FlowOK(x, s)' /\ CalmCell(x, s)'
  BY ZenonT(60), StepFacts, ModeNext, AnswersNext, CalmOKNext, OutcomeNext, FlowNext, CalmCellNext
<1> QED
  BY ZenonT(60), <1>1, <1>2 DEF CoordInv

\* The inductive invariant holds.
THEOREM InvariantHolds == Spec => []CoordInv
BY InvInit, InvNext, PTL DEF Spec

\* The tables of the shards, the calls, the coordinator's log and the threads have
\* their types.
THEOREM TypesHold == Spec => []TypeOK
<1>1. CoordInv => TypeOK
  BY ZenonT(60) DEF CoordInv
<1> QED
  BY <1>1, InvariantHolds, PTL

\* What a participant has committed was decided, and every other one can follow.
LEMMA CommittedFollows ==
  ASSUME CoordInv, NEW x \in Txn, Sheltered(x), NEW s \in Shard, x \in committed[s]
  PROVE  ~Aborting(x) /\ \A r \in parts[x] : CanCommit(x, r)
<1>1. HasEntry("commit", x, s)
  BY ZenonT(60), InvFacts DEF CellOK
<1>2. Committing(x) /\ ModeOK(x)
  BY ZenonT(60), <1>1, InvFacts DEF Committing
<1>3. ~Aborting(x) /\ \A r \in parts[x] : Ready(x, r)
  BY ZenonT(60), <1>2 DEF ModeOK
<1>4. parts[x] \subseteq Shard
  BY InvFacts DEF TypeOK
<1>5. ASSUME NEW r \in parts[x] PROVE CanCommit(x, r)
  <2>0. r \in Shard
    BY ZenonT(60), <1>4
  <2>1. CASE x \in committed[r] \/ Prepared(r, x)
    BY ZenonT(60), <2>1 DEF CanCommit
  <2>2. CASE ~HasApplied("prepare", x, r)
    <3>1. PICK i \in 1..Len(slog[r]) : slog[r][i] = Entry("prepare", x)
      BY ZenonT(60), <1>3 DEF Ready, HasEntry
    <3>2. i \notin 1..last_applied[r]
      BY ZenonT(60), <2>2, <3>1 DEF HasApplied
    <3>3. last_applied[r] \in Nat /\ Len(slog[r]) \in Nat
      BY ZenonT(60), <2>0, InvFacts, EntryFacts
    <3>4. i \in last_applied[r] + 1 .. Len(slog[r])
      BY <3>2, <3>3
    <3>5. \A j \in 1..Len(slog[r]) : slog[r][j] # Entry("abort", x)
      BY ZenonT(60), <1>3, <2>0 DEF Aborting, AbortSent, HasEntry
    <3>6. \A j \in i + 1 .. Len(slog[r]) : j \in 1..Len(slog[r])
      BY <3>1, <3>3
    <3> QED
      BY ZenonT(60), <3>1, <3>4, <3>5, <3>6 DEF CanCommit, Entry
  <2> QED
    BY ZenonT(60), <1>3, <2>1, <2>2 DEF Ready
<1> QED
  BY ZenonT(60), <1>3, <1>5

\* A fault of a shard or of a call has met a crash of the coordinator.
Both == spent["crash"] > 0 /\ \E b \in Bounded \ {"crash"} : spent[b] > 0

\* Unless both meet, two-phase commit is right.
LEMMA ShelteredUnlessBoth ==
  ASSUME CoordInv, ~Both, NEW x \in Txn
  PROVE  Sheltered(x)
<1>1. \A b \in Bounded : spent[b] \in Nat
  BY ZenonT(60) DEF CoordInv, TypeOK
<1>2. \A b \in Bounded : ~(spent[b] > 0) => spent[b] = 0
  BY <1>1
<1>3. "crash" \in Bounded
  BY ZenonT(60) DEF Bounded
<1> QED
  BY ZenonT(60), <1>2, <1>3 DEF Both, Sheltered, FaultFree

\* Two-phase commit is atomic, for any number of shards and transactions: when a
\* participant has made the writes of a transaction visible, every other one has or
\* still can.  No fault of the shards and of the calls takes that away (lost, late
\* and orphaned requests, proposals that fail, restarts), nor do crashes of the
\* coordinator at any point of Commit or Recover; only both together can.
THEOREM Atomicity == Spec => []AtomicUnlessBoth
<1>1. ASSUME CoordInv PROVE AtomicUnlessBoth
  <2>1. ASSUME ~Both PROVE NoPartialCommit
    <3>1. \A x \in Txn : parts[x] \subseteq Shard
      BY <1>1 DEF CoordInv, TypeOK
    <3> QED
      BY ZenonT(60), <1>1, <2>1, <3>1, ShelteredUnlessBoth, CommittedFollows DEF NoPartialCommit
  <2> QED
    BY ZenonT(60), <2>1 DEF AtomicUnlessBoth, Both
<1> QED
  BY <1>1, InvariantHolds, PTL

\* What Commit and Abort return is true and stays true, whatever faults and crashes
\* there are, both together included: OK means that every participant has
\* committed, Conflict that none ever will.
THEOREM ClientsAreToldTheTruth == Spec => []OutcomeIsTrue
<1>1. ASSUME CoordInv PROVE OutcomeIsTrue
  <2>1. ASSUME NEW x \in Txn, NEW s \in Shard, outcome[x] = "conflict" PROVE x \notin committed[s]
    BY ZenonT(60), <1>1, <2>1, InvFacts DEF OutcomeOK, CellOK
  <2>2. ASSUME NEW x \in Txn, outcome[x] = "ok" PROVE \A s \in parts[x] : x \in committed[s]
    BY ZenonT(60), <1>1, <2>2, InvFacts DEF OutcomeOK
  <2> QED
    BY ZenonT(60), <2>1, <2>2 DEF OutcomeIsTrue
<1> QED
  BY <1>1, InvariantHolds, PTL

\* Recover may pass over what the coordinator log calls finished: COMMITTED is in it
\* when all participants have committed, ABORTED when none ever will, unless faults
\* and crashes have met.
THEOREM LogTellsTheTruth == Spec => [](Both \/ LogIsTruthful)
<1>1. ASSUME CoordInv, ~Both PROVE LogIsTruthful
  <2>1. ASSUME NEW x \in Txn, Logged("COMMITTED", x) PROVE \A s \in parts[x] : x \in committed[s]
    BY ZenonT(60), <1>1, <2>1, InvFacts, ShelteredUnlessBoth DEF AnswersOK
  <2>2. ASSUME NEW x \in Txn, Logged("ABORTED", x) PROVE Logged("ABORTING", x)
    <3>1. PICK j \in 1..Len(clog) : clog[j] = Record("ABORTED", x)
      BY ZenonT(60), <2>2 DEF Logged
    <3>2. PICK i \in 1..(j - 1) : clog[i] = Record("ABORTING", x)
      BY ZenonT(60), <1>1, <2>2, <3>1, InvFacts DEF LogOK, AbortedLast
    <3>3. Len(clog) \in Nat
      BY ZenonT(60), <1>1, <2>2, InvFacts, LogFacts
    <3>4. i \in 1..Len(clog)
      BY <3>1, <3>2, <3>3
    <3> QED
      BY ZenonT(60), <3>2, <3>4 DEF Logged
  <2>3. ASSUME NEW x \in Txn, NEW s \in Shard, Logged("ABORTED", x) PROVE x \notin committed[s]
    BY ZenonT(60), <1>1, <2>2, <2>3, ShelteredUnlessBoth, CommittedFollows DEF Aborting
  <2> QED
    BY ZenonT(60), <2>1, <2>3 DEF LogIsTruthful
<1>2. CoordInv => Both \/ LogIsTruthful
  BY ZenonT(60), <1>1
<1> QED
  BY <1>2, InvariantHolds, PTL

\* When nothing but crashes of the coordinator happens, however many and also while
\* it recovers, Recover finishes every transaction the way Commit would have.
THEOREM RecoveryIsAtomic ==
  ASSUME \A b \in Bounded \ {"crash"} : Budget[b] = 0
  PROVE  Spec => [](NoPartialCommit /\ LogIsTruthful)
<1>1. TypeOK => ~Both
  <2> SUFFICES ASSUME TypeOK, NEW b \in Bounded \ {"crash"} PROVE ~(spent[b] > 0)
    BY ZenonT(60) DEF Both
  <2>1. spent[b] \in Nat /\ spent[b] <= Budget[b] /\ Budget[b] = 0
    BY ZenonT(60) DEF TypeOK
  <2> QED
    BY <2>1
<1>2. TypeOK /\ AtomicUnlessBoth /\ (Both \/ LogIsTruthful) => NoPartialCommit /\ LogIsTruthful
  BY ZenonT(60), <1>1 DEF AtomicUnlessBoth, Both
<1> QED
  BY <1>2, TypesHold, Atomicity, LogTellsTheTruth, PTL
=============================================================================
