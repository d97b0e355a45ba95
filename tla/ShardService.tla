---------------------------- MODULE ShardService ----------------------------
(***************************************************************************)
(* The shards as a coordinator sees them: the RPC handlers of              *)
(* shard/shard_server.cpp on the state machine of                          *)
(* raft/raft_state_machine.cpp.                                            *)
(*                                                                         *)
(* Each shard has one service object and one leader, whose state machine   *)
(* and TxnManager are modelled; for the followers only their prepare       *)
(* results are kept.  The consensus group appears through what it promises *)
(* (ReplicatedLog): proposals enter one log and are applied in its order.  *)
(* A proposal that loses its leader is one that never entered the log.     *)
(*                                                                         *)
(* A handler runs in steps, between which other handlers of the same       *)
(* transaction run: it may wait for its proposal to be applied, give up    *)
(* waiting, and outlive the call that started it.  Its caller finds the    *)
(* answer in rpc.  Read sets, write sets and locks are not modelled: the   *)
(* outcome of read validation is left open.                                *)
(***************************************************************************)
EXTENDS Naturals, Sequences, FiniteSets

CONSTANTS
  Shard,
  Txn,        \* distributed transaction ids (raft_txn_id)
  Budget      \* bound on the number of faults of each kind

\* fault: a call misses its deadline, a shard has no leader, or a proposal is
\* not applied in time.  query: a state query fails.  restart: of a shard.
\* crash: of the coordinator.
Bounded == {"fault", "query", "restart", "crash"}

ASSUME BudgetAssumption == Budget \in [Bounded -> Nat]
ASSUME FiniteAssumption == IsFiniteSet(Shard) /\ IsFiniteSet(Txn)

VARIABLES
  pending,           \* pending_txns_: none, begun, or prepared_replicated
  terminal,          \* terminal_txn_states_
  local,             \* the state, in TxnManager, of the txn that OP_BEGIN made
  txn_id_map,        \* what txn_id_map_ leads to: that txn or an imported one
  prepare_results,   \* prepare_results_ of the leader holds a success
  follower_results,  \* prepare_results_ of the followers do
  slog,              \* the shard's replicated log
  last_applied,      \* how much of it the leader has applied
  committed,         \* the transactions whose writes the shard has made visible
  handlers,          \* the handler activations in progress
  rpc,               \* what the caller of each RPC knows
  spent              \* how much of the Budget is used up

tables == <<pending, terminal, local, txn_id_map, prepare_results>>
replicated == <<follower_results, slog, last_applied, committed>>
shardVars == <<tables, replicated, handlers, rpc, spent>>

Op == {"prepare", "commit", "abort"}
Handler == [op : Op, txn : Txn, shard : Shard, live : BOOLEAN, ix : Nat,
            at : {"sent", "prepared", "waiting", "taken", "unreplicated"}]

ForAll(v) == [s \in Shard |-> [x \in Txn |-> v]]

InitShards ==
  /\ pending = ForAll("none")
  /\ terminal = ForAll("none")
  /\ local = ForAll("none")
  /\ txn_id_map = ForAll("none")
  /\ prepare_results = ForAll(FALSE)
  /\ follower_results = ForAll(FALSE)
  /\ slog = [s \in Shard |-> <<>>]
  /\ last_applied = [s \in Shard |-> 0]
  /\ committed = [s \in Shard |-> {}]
  /\ handlers = {}
  /\ rpc = [op \in Op |-> ForAll("none")]
  /\ spent = [b \in Bounded |-> 0]

Spend(what) ==
  /\ spent[what] < Budget[what]
  /\ spent' = [spent EXCEPT ![what] = @ + 1]

-----------------------------------------------------------------------------
(* Building blocks of the handlers *)

Set(f, s, x, v) == [f EXCEPT ![s][x] = v]

\* The handler returns a to a caller that is still there.
Finish(h, a) ==
  /\ handlers' = handlers \ {h}
  /\ rpc' = IF h.live THEN [rpc EXCEPT ![h.op][h.shard][h.txn] = a] ELSE rpc

Goto(h, step, ix) ==
  /\ handlers' = (handlers \ {h}) \cup {[h EXCEPT !.at = step, !.ix = ix]}
  /\ UNCHANGED rpc

\* RaftNode::Propose, and on to WaitForCommit.
ProposeAndWait(h) ==
  /\ slog' = [slog EXCEPT ![h.shard] = Append(@, [op |-> h.op, txn |-> h.txn])]
  /\ Goto(h, "waiting", Len(slog'[h.shard]))
  /\ UNCHANGED <<follower_results, last_applied, committed>>

Applied(h) == h.at = "waiting" /\ last_applied[h.shard] >= h.ix

\* TxnManager::Abort of the local txn, ForgetTxn, and the pending entry erased.
DropLocal(s, x) ==
  /\ local' = Set(local, s, x, "none")
  /\ txn_id_map' = Set(txn_id_map, s, x, "none")
  /\ prepare_results' = Set(prepare_results, s, x, FALSE)
  /\ pending' = Set(pending, s, x, "none")

-----------------------------------------------------------------------------
(* Execute *)

\* OP_BEGIN.
Begin(s, x) ==
  /\ local' = Set(local, s, x, "active")
  /\ txn_id_map' = Set(txn_id_map, s, x, "local")
  /\ pending' = Set(pending, s, x, "begun")
  /\ UNCHANGED <<terminal, prepare_results>>

\* OP_WRITE or OP_DELETE ends in a conflict or a lock timeout: TxnManager has
\* aborted the local txn, the tables of the service still name it.
WriteConflict(s, x) ==
  /\ local[s][x] = "active"
  /\ local' = Set(local, s, x, "none")
  /\ UNCHANGED <<pending, terminal, txn_id_map, prepare_results>>

-----------------------------------------------------------------------------
(* Prepare *)

\* The handler up to and including TxnManager::Prepare.
PrepareLocal(h) ==
  LET s == h.shard
      x == h.txn
  IN
  /\ h.op = "prepare" /\ h.at = "sent"
  /\ \/ pending[s][x] = "none" /\ Finish(h, "no") /\ UNCHANGED tables
     \/ pending[s][x] # "none" /\ Finish(h, "no") /\ DropLocal(s, x) /\ UNCHANGED terminal
     \/ /\ pending[s][x] # "none" /\ local[s][x] = "active"
        /\ local' = Set(local, s, x, "prepared")
        /\ Goto(h, "prepared", 0)
        /\ UNCHANGED <<pending, terminal, txn_id_map, prepare_results>>
  /\ UNCHANGED <<replicated, spent>>

\* The local txn may be gone by now; otherwise its writes are proposed.
PreparePropose(h) ==
  LET s == h.shard
      x == h.txn
  IN
  /\ h.op = "prepare" /\ h.at = "prepared"
  /\ \/ /\ local[s][x] = "none"
        /\ Finish(h, "no") /\ DropLocal(s, x) /\ UNCHANGED <<terminal, replicated>>
     \/ local[s][x] # "none" /\ ProposeAndWait(h) /\ UNCHANGED tables
  /\ UNCHANGED spent

\* The proposal was refused, lost or not applied within 5 s.
PrepareNotReplicated(h) ==
  /\ h.op = "prepare" /\ h.at \in {"prepared", "waiting"} /\ ~Applied(h)
  /\ Finish(h, "no")
  /\ DropLocal(h.shard, h.txn)
  /\ Spend("fault")
  /\ UNCHANGED <<terminal, replicated>>

\* TakePrepareResult.
PrepareTake(h) ==
  LET s == h.shard
      x == h.txn
  IN
  /\ h.op = "prepare" /\ Applied(h)
  /\ IF prepare_results[s][x] THEN Goto(h, "taken", 0) ELSE Finish(h, "no")
  /\ prepare_results' = Set(prepare_results, s, x, FALSE)
  /\ UNCHANGED <<pending, terminal, local, txn_id_map, replicated, spent>>

\* prepared_replicated is set, if the entry is still there; the vote is yes.
PrepareVote(h) ==
  /\ h.op = "prepare" /\ h.at = "taken"
  /\ pending' = [pending EXCEPT ![h.shard][h.txn] =
                   IF @ = "none" THEN @ ELSE "prepared"]
  /\ Finish(h, "yes")
  /\ UNCHANGED <<terminal, local, txn_id_map, prepare_results, replicated, spent>>

-----------------------------------------------------------------------------
(* Commit and Abort *)

CommitPropose(h) ==
  /\ h.op = "commit" /\ h.at = "sent"
  /\ ProposeAndWait(h)
  /\ UNCHANGED <<tables, spent>>

\* Abort copies the pending entry under pending_mu_ and acts on the copy.
AbortStart(h) ==
  /\ h.op = "abort" /\ h.at = "sent"
  /\ \/ pending[h.shard][h.txn] = "begun" /\ Goto(h, "unreplicated", 0) /\ UNCHANGED replicated
     \/ pending[h.shard][h.txn] # "begun" /\ ProposeAndWait(h)
  /\ UNCHANGED <<tables, spent>>

\* A transaction that was not prepared_replicated is aborted on the leader alone.
AbortLocal(h) ==
  /\ h.op = "abort" /\ h.at = "unreplicated"
  /\ DropLocal(h.shard, h.txn)
  /\ terminal' = Set(terminal, h.shard, h.txn, "aborted")
  /\ Finish(h, "yes")
  /\ UNCHANGED <<replicated, spent>>

\* Fault: a decision on a transaction that is not pending gets no answer.
DecisionApplied_OnlyPending(h) ==
  LET s == h.shard
      x == h.txn
  IN
  /\ h.op \in {"commit", "abort"} /\ Applied(h)
  /\ pending[s][x] # "none"
  /\ pending' = Set(pending, s, x, "none")
  /\ terminal' = Set(terminal, s, x, IF h.op = "commit" THEN "committed" ELSE "aborted")
  /\ Finish(h, "yes")
  /\ UNCHANGED <<local, txn_id_map, prepare_results, replicated, spent>>

\* WaitForCommit returns true in Commit or in Abort.
DecisionApplied(h) ==
  LET s == h.shard
      x == h.txn
  IN
  /\ h.op \in {"commit", "abort"} /\ Applied(h)
  /\ pending' = Set(pending, s, x, "none")
  /\ terminal' = Set(terminal, s, x, IF h.op = "commit" THEN "committed" ELSE "aborted")
  /\ Finish(h, "yes")
  /\ UNCHANGED <<local, txn_id_map, prepare_results, replicated, spent>>

\* Fault: Commit reports success whatever ProposeAndWait returned.
DecisionNotReplicated_AnswersYes(h) ==
  /\ h.op \in {"commit", "abort"} /\ h.at = "waiting" /\ ~Applied(h)
  /\ Finish(h, "yes")
  /\ Spend("fault")
  /\ UNCHANGED <<tables, replicated>>

\* It returns false, or Propose did.  The coordinator never looks at what an
\* Abort answers.
DecisionNotReplicated(h) ==
  /\ h.op \in {"commit", "abort"} /\ h.at = "waiting" /\ ~Applied(h)
  /\ Finish(h, "no")
  /\ Spend("fault")
  /\ UNCHANGED <<tables, replicated>>

\* FindLeader finds none: every handler returns without effect.
NoLeader(h) ==
  /\ h.at = "sent"
  /\ Finish(h, IF h.op = "abort" THEN "yes" ELSE "no")
  /\ Spend("fault")
  /\ UNCHANGED <<tables, replicated>>

\* QueryTxnState.  replicas_[0] may be the leader or a follower.
TxnState(s, x) ==
  IF terminal[s][x] # "none" THEN {terminal[s][x]}
  ELSE IF pending[s][x] # "none"
       THEN {IF pending[s][x] = "prepared" THEN "prepared" ELSE "in_flight"}
  ELSE {IF found THEN "prepared" ELSE "unknown" :
          found \in {prepare_results[s][x], follower_results[s][x]}}
-----------------------------------------------------------------------------
(* The state machine *)

\* TXN_PREPARE_BATCH: a transaction this replica does not know is imported.
ApplyPrepare(s, x) ==
  /\ txn_id_map' = [txn_id_map EXCEPT ![s][x] = IF @ = "none" THEN "import" ELSE @]
  /\ prepare_results' = Set(prepare_results, s, x, TRUE)
  /\ follower_results' = Set(follower_results, s, x, TRUE)
  /\ UNCHANGED <<local, committed>>

Prepared(s, x) ==
  \/ txn_id_map[s][x] = "import"
  \/ txn_id_map[s][x] = "local" /\ local[s][x] = "prepared"

\* TXN_COMMIT: an unknown transaction is passed over in silence.
ApplyCommit(s, x) ==
  /\ committed' = IF Prepared(s, x) THEN [committed EXCEPT ![s] = @ \cup {x}]
                                    ELSE committed
  /\ local' = [local EXCEPT ![s][x] = IF txn_id_map[s][x] = "local" /\ @ = "prepared"
                                      THEN "none" ELSE @]

\* TXN_ABORT.
ApplyAbort(s, x) ==
  /\ local' = [local EXCEPT ![s][x] = IF txn_id_map[s][x] = "local" THEN "none" ELSE @]
  /\ UNCHANGED committed

\* A decision is the last entry of its transaction: the mapping goes.
ForgetMapping(s, x) ==
  /\ prepare_results' = [prepare_results EXCEPT
                           ![s][x] = IF txn_id_map[s][x] = "none" THEN @ ELSE FALSE]
  /\ txn_id_map' = Set(txn_id_map, s, x, "none")
  /\ follower_results' = Set(follower_results, s, x, FALSE)

Apply(s) ==
  LET e == slog[s][last_applied[s] + 1] IN
  /\ last_applied[s] < Len(slog[s])
  /\ last_applied' = [last_applied EXCEPT ![s] = @ + 1]
  /\ \/ e.op = "prepare" /\ ApplyPrepare(s, e.txn)
     \/ e.op = "commit" /\ ApplyCommit(s, e.txn) /\ ForgetMapping(s, e.txn)
     \/ e.op = "abort" /\ ApplyAbort(s, e.txn) /\ ForgetMapping(s, e.txn)
  /\ UNCHANGED <<pending, terminal, slog, handlers, rpc, spent>>

\* Fault: the log is lost but the position in it is not reset.
ShardRestart_LosesLog(s) ==
  LET Clear(f, v) == [f EXCEPT ![s] = [x \in Txn |-> v]] IN
  /\ Spend("restart")
  /\ pending' = Clear(pending, "none")
  /\ terminal' = Clear(terminal, "none")
  /\ local' = Clear(local, "none")
  /\ txn_id_map' = Clear(txn_id_map, "none")
  /\ prepare_results' = Clear(prepare_results, FALSE)
  /\ follower_results' = Clear(follower_results, FALSE)
  /\ slog' = [slog EXCEPT ![s] = <<>>]
  /\ LET dead == {h \in handlers : h.shard = s} IN
     /\ handlers' = handlers \ dead
     /\ rpc' = [op \in Op |-> [t \in Shard |-> [x \in Txn |->
                  IF \E h \in dead : h.live /\ h.op = op /\ h.shard = t /\ h.txn = x
                  THEN "no" ELSE rpc[op][t][x]]]]
  /\ UNCHANGED <<last_applied, committed>>

\* The shard's processes die and come back.  The tables of the service are
\* empty, its handlers are gone, and Raft applies the log again from the start.
ShardRestart(s) ==
  LET Clear(f, v) == [f EXCEPT ![s] = [x \in Txn |-> v]] IN
  /\ Spend("restart")
  /\ pending' = Clear(pending, "none")
  /\ terminal' = Clear(terminal, "none")
  /\ local' = Clear(local, "none")
  /\ txn_id_map' = Clear(txn_id_map, "none")
  /\ prepare_results' = Clear(prepare_results, FALSE)
  /\ follower_results' = Clear(follower_results, FALSE)
  /\ last_applied' = [last_applied EXCEPT ![s] = 0]
  /\ LET dead == {h \in handlers : h.shard = s} IN
     /\ handlers' = handlers \ dead
     /\ rpc' = [op \in Op |-> [t \in Shard |-> [x \in Txn |->
                  IF \E h \in dead : h.live /\ h.op = op /\ h.shard = t /\ h.txn = x
                  THEN "no" ELSE rpc[op][t][x]]]]
  /\ UNCHANGED <<slog, committed>>

HandlerStep(h) ==
  \/ PrepareLocal(h) \/ PreparePropose(h) \/ PrepareNotReplicated(h)
  \/ PrepareTake(h) \/ PrepareVote(h)
  \/ CommitPropose(h) \/ AbortStart(h) \/ AbortLocal(h)
  \/ DecisionApplied(h) \/ DecisionNotReplicated(h)
  \/ NoLeader(h)

ShardStep ==
  \/ \E h \in handlers : HandlerStep(h)
  \/ \E s \in Shard : Apply(s) \/ ShardRestart(s)
=============================================================================
