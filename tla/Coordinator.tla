---------------------------- MODULE Coordinator ----------------------------
(***************************************************************************)
(* The transaction coordinator, coordinator/coordinator.cpp, its log       *)
(* coordinator_log.cpp, and the shards it drives (ShardService).           *)
(*                                                                         *)
(* Each transaction is driven by one client thread.  The calls of a phase  *)
(* are made in parallel, one per participant, without retries (a shard     *)
(* with one address has one attempt).  A record that was written and not   *)
(* yet flushed may or may not survive a crash of the coordinator.          *)
(*                                                                         *)
(* Left out: snapshot and commit timestamps, what statements return, and   *)
(* the numbering of transactions: a transaction that starts after a crash  *)
(* has an id of its own here.                                              *)
(***************************************************************************)
EXTENDS ShardService

VARIABLES
  up,       \* the coordinator: "up", "recovering" (in its constructor), "down"
  pc,       \* where the thread of each transaction is
  parts,    \* participant_shards
  clog,     \* the coordinator log: records written
  synced,   \* how many of them are flushed
  seen,     \* what Recover's queries have returned
  outcome   \* what Commit returned to the client

coordVars == <<up, pc, parts, clog, synced, seen, outcome>>
vars == <<shardVars, coordVars>>

RecordType == {"PREPARING", "COMMITTING", "COMMITTED", "ABORTING", "ABORTED"}
Record(type, x) == [type |-> type, txn |-> x]

Nothing == [s \in Shard |-> "none"]

Init ==
  /\ InitShards
  /\ up = "up"
  /\ pc = [x \in Txn |-> "new"]
  /\ parts = [x \in Txn |-> {}]
  /\ clog = <<>>
  /\ synced = 0
  /\ seen = [x \in Txn |-> Nothing]
  /\ outcome = [x \in Txn |-> "none"]

\* AppendCoordinatorRecordWrite.
Write(type, x) ==
  /\ clog' = Append(clog, Record(type, x))
  /\ UNCHANGED synced

\* DurableFileSync: everything written is on disk.
Flush == synced' = Len(clog')

\* AppendCoordinatorRecord: write and flush.
WriteAndFlush(type, x) ==
  /\ clog' = Append(clog, Record(type, x))
  /\ Flush

Logged(type, x) == \E i \in 1..Len(clog) : clog[i] = Record(type, x)

Become(x, where) == pc' = [pc EXCEPT ![x] = where]
Return(x, what) == outcome' = [outcome EXCEPT ![x] = what]

\* One call per participant, all at once.
Send(op, x) ==
  /\ handlers' = handlers \cup
       {[op |-> op, txn |-> x, shard |-> s, live |-> TRUE, ix |-> 0, at |-> "sent"] :
          s \in parts[x]}
  /\ rpc' = [rpc EXCEPT ![op] = [s \in Shard |->
               IF s \in parts[x] THEN [@[s] EXCEPT ![x] = "asked"] ELSE @[s]]]

Answers(op, x) == {rpc[op][s][x] : s \in parts[x]}

-----------------------------------------------------------------------------
(* Begin and the statements of a transaction *)

BeginTxn(x) ==
  /\ up = "up" /\ pc[x] = "new"
  /\ Become(x, "active")
  /\ UNCHANGED <<shardVars, up, parts, clog, synced, seen, outcome>>

\* ExecuteWithLeaderRetry gives up: the answers to all its attempts are lost.
AttemptsFail == Spend("fault")

\* OP_BEGIN has reached the shard; it participates if the coordinator learns so.
EnsureShardParticipant(x, s) ==
  /\ Begin(s, x)
  /\ \/ parts' = [parts EXCEPT ![x] = @ \cup {s}] /\ UNCHANGED spent
     \/ AttemptsFail /\ UNCHANGED parts

\* The first access to a shard, by a statement of any kind.
Execute(x, s) ==
  /\ up = "up" /\ pc[x] = "active" /\ s \notin parts[x]
  /\ EnsureShardParticipant(x, s)
  /\ UNCHANGED <<replicated, handlers, rpc, up, pc, clog, synced, seen, outcome>>

ExecuteConflict(x, s) ==
  /\ up = "up" /\ pc[x] = "active" /\ s \in parts[x]
  /\ WriteConflict(s, x)
  /\ UNCHANGED <<replicated, handlers, rpc, spent, coordVars>>

\* A call misses its 5 s deadline.  A request the shard has received is still
\* being handled; one it has not received may never arrive.
Deadline(h) ==
  /\ h \in handlers /\ h.live
  /\ rpc' = [rpc EXCEPT ![h.op][h.shard][h.txn] = "no"]
  /\ handlers' \in {(handlers \ {h}) \cup {[h EXCEPT !.live = FALSE]}}
                   \cup IF h.at = "sent" THEN {handlers \ {h}} ELSE {}
  /\ Spend("fault")
  /\ UNCHANGED <<tables, replicated, coordVars>>

-----------------------------------------------------------------------------
(* Commit: SingleShardCommit and TwoPhaseCommit *)

Commit(x) ==
  /\ up = "up" /\ pc[x] = "active"
  /\ \/ /\ parts[x] = {}
        /\ Become(x, "done") /\ Return(x, "ok")
        /\ UNCHANGED <<clog, synced, handlers, rpc>>
     \/ /\ parts[x] # {}
        /\ WriteAndFlush("PREPARING", x)
        /\ Send("prepare", x)
        /\ Become(x, "preparing") /\ UNCHANGED outcome
  /\ UNCHANGED <<tables, replicated, spent, up, parts, seen>>

\* Fault: the votes are not all waited for.
VotedCommit_Early(x) ==
  /\ pc[x] = "preparing"
  /\ "yes" \in Answers("prepare", x) /\ "no" \notin Answers("prepare", x)
  /\ Write("COMMITTING", x)
  /\ Send("commit", x)
  /\ Become(x, "committing")
  /\ UNCHANGED <<tables, replicated, spent, up, parts, seen, outcome>>

\* Every vote is yes.  COMMITTING is written and not flushed.
VotedCommit(x) ==
  /\ pc[x] = "preparing"
  /\ Answers("prepare", x) = {"yes"}
  /\ Write("COMMITTING", x)
  /\ Send("commit", x)
  /\ Become(x, "committing")
  /\ UNCHANGED <<tables, replicated, spent, up, parts, seen, outcome>>

\* A vote is missing or no; the loop leaves at the first one, with Prepare calls
\* to other shards perhaps still going on.  With a single shard the coordinator
\* returns at once and aborts nothing.
VotedAbort(x) ==
  /\ pc[x] = "preparing"
  /\ "no" \in Answers("prepare", x)
  /\ \/ /\ Cardinality(parts[x]) = 1
        /\ Become(x, "done") /\ Return(x, "error")
        /\ UNCHANGED <<clog, synced, handlers, rpc>>
     \/ /\ Cardinality(parts[x]) > 1
        /\ Write("ABORTING", x)
        /\ Send("abort", x)
        /\ Become(x, "aborting") /\ UNCHANGED outcome
  /\ UNCHANGED <<tables, replicated, spent, up, parts, seen>>

\* Fault: the answers of slow shards are not waited for.
CommitDone_NoWait(x) ==
  /\ pc[x] = "committing"
  /\ Answers("commit", x) \subseteq {"yes", "asked"}
  /\ WriteAndFlush("COMMITTED", x)
  /\ Become(x, "done") /\ Return(x, "ok")
  /\ UNCHANGED <<shardVars, up, parts, seen>>

\* All Commit calls succeeded.
CommitDone(x) ==
  /\ pc[x] = "committing"
  /\ Answers("commit", x) = {"yes"}
  /\ WriteAndFlush("COMMITTED", x)
  /\ Become(x, "done") /\ Return(x, "ok")
  /\ UNCHANGED <<shardVars, up, parts, seen>>

\* One of them failed: the client gets an error, the rest is left as it is.  The
\* futures, on their way out of scope, wait for the calls that are still made.
CommitFailed(x) ==
  /\ pc[x] = "committing"
  /\ "no" \in Answers("commit", x) /\ "asked" \notin Answers("commit", x)
  /\ Become(x, "done") /\ Return(x, "error")
  /\ UNCHANGED <<shardVars, up, parts, clog, synced, seen>>

\* All Abort calls returned, whatever their result.
AbortDone(x) ==
  /\ pc[x] = "aborting"
  /\ "asked" \notin Answers("abort", x)
  /\ WriteAndFlush("ABORTED", x)
  /\ Become(x, "aborted")
  /\ UNCHANGED <<shardVars, up, parts, seen, outcome>>

\* The futures of the Prepare calls go out of scope when these have returned.
AbortReturn(x) ==
  /\ pc[x] = "aborted"
  /\ "asked" \notin Answers("prepare", x)
  /\ Become(x, "done") /\ Return(x, "conflict")
  /\ UNCHANGED <<shardVars, up, parts, clog, synced, seen>>

\* The client's Abort, from ABORTING to ABORTED.
Abort(x) ==
  /\ up = "up" /\ pc[x] = "active"
  /\ \/ /\ parts[x] = {}
        /\ Become(x, "done") /\ Return(x, "conflict")
        /\ UNCHANGED <<clog, synced, handlers, rpc>>
     \/ /\ parts[x] # {}
        /\ WriteAndFlush("ABORTING", x)
        /\ Send("abort", x)
        /\ Become(x, "aborting") /\ UNCHANGED outcome
  /\ UNCHANGED <<tables, replicated, spent, up, parts, seen>>
-----------------------------------------------------------------------------
(* Crash and recovery *)

\* Requests on their way may or may not arrive; those that did are handled.
Crash ==
  /\ up # "down"
  /\ Spend("crash")
  /\ up' = "down"
  /\ pc' = [x \in Txn |-> IF pc[x] \in {"new", "done"} THEN pc[x] ELSE "lost"]
  /\ \E n \in synced..Len(clog) : clog' = SubSeq(clog, 1, n) /\ synced' = n
  /\ \E cut \in SUBSET {h \in handlers : h.at = "sent"} :
       handlers' = {[h EXCEPT !.live = FALSE] : h \in handlers \ cut}
  /\ rpc' = [op \in Op |-> ForAll("none")]
  /\ seen' = [x \in Txn |-> Nothing]
  /\ UNCHANGED <<tables, replicated, parts, outcome>>

\* The constructor opens the log and calls Recover.
Reopen ==
  /\ up = "down"
  /\ up' = "recovering"
  /\ UNCHANGED <<shardVars, pc, parts, clog, synced, seen, outcome>>

InDoubt(x) ==
  Logged("PREPARING", x) /\ ~Logged("COMMITTED", x) /\ ~Logged("ABORTED", x)

Drive(op, x) ==
  /\ WriteAndFlush(IF op = "commit" THEN "COMMITTING" ELSE "ABORTING", x)
  /\ Send(op, x)
  /\ Become(x, IF op = "commit" THEN "recommit" ELSE "reabort")

\* Recover takes up the transactions in doubt one after the other.
RecoverTxn(x) ==
  /\ up = "recovering" /\ InDoubt(x)
  /\ \A y \in Txn : pc[y] \notin {"query", "recommit", "reabort"}
  /\ \/ Logged("COMMITTING", x) /\ Drive("commit", x)
     \/ /\ ~Logged("COMMITTING", x)
        /\ Logged("ABORTING", x) /\ Drive("abort", x)
     \/ /\ ~Logged("COMMITTING", x) /\ ~Logged("ABORTING", x)
        /\ Become(x, "query") /\ UNCHANGED <<clog, synced, handlers, rpc>>
  /\ UNCHANGED <<tables, replicated, spent, up, parts, seen, outcome>>

\* QueryTxnStateOnShard gets no answer from any replica.
QueryFails == Spend("query")

\* QueryShardTxnState: a query that fails counts as unknown.
Query(x, s) ==
  /\ pc[x] = "query" /\ s \in parts[x] /\ seen[x][s] = "none"
  /\ \/ /\ \E a \in TxnState(s, x) : seen' = [seen EXCEPT ![x][s] = a]
        /\ UNCHANGED spent
     \/ /\ QueryFails
        /\ seen' = [seen EXCEPT ![x][s] = "unknown"]
  /\ UNCHANGED <<tables, replicated, handlers, rpc, up, pc, parts, clog, synced,
                 outcome>>

\* Fault: one prepared shard is enough.
Decision_AnyPrepared(answers) ==
  IF "aborted" \notin answers /\ answers \cap {"prepared", "committed"} # {}
  THEN "commit" ELSE "abort"

\* What Recover concludes from the answers.
Decision(answers) ==
  IF /\ "aborted" \notin answers
     /\ answers \subseteq {"prepared", "committed"} \/ "committed" \in answers
  THEN "commit" ELSE "abort"

RecoverDecide(x) ==
  /\ pc[x] = "query"
  /\ \A s \in parts[x] : seen[x][s] # "none"
  /\ Drive(Decision({seen[x][s] : s \in parts[x]}), x)
  /\ UNCHANGED <<tables, replicated, spent, up, parts, seen, outcome>>

RecoverTxnDone(x) ==
  /\ \/ /\ pc[x] = "recommit" /\ Answers("commit", x) = {"yes"}
        /\ WriteAndFlush("COMMITTED", x)
     \/ /\ pc[x] = "reabort" /\ "asked" \notin Answers("abort", x)
        /\ WriteAndFlush("ABORTED", x)
  /\ Become(x, "done")
  /\ UNCHANGED <<shardVars, up, parts, seen, outcome>>

\* DriveCommit fails: the constructor throws and the process ends.
RecoverFails(x) ==
  /\ pc[x] = "recommit"
  /\ "no" \in Answers("commit", x) /\ "asked" \notin Answers("commit", x)
  /\ up' = "down"
  /\ Become(x, "lost")
  /\ UNCHANGED <<shardVars, parts, clog, synced, seen, outcome>>

RecoverDone ==
  /\ up = "recovering"
  /\ \A x \in Txn : ~InDoubt(x)
  /\ up' = "up"
  /\ UNCHANGED <<shardVars, pc, parts, clog, synced, seen, outcome>>

-----------------------------------------------------------------------------
ClientStep ==
  \E x \in Txn :
    \/ BeginTxn(x) \/ Commit(x) \/ Abort(x)
    \/ VotedCommit(x) \/ VotedAbort(x)
    \/ CommitDone(x) \/ CommitFailed(x)
    \/ AbortDone(x) \/ AbortReturn(x)
    \/ \E s \in Shard : Execute(x, s) \/ ExecuteConflict(x, s)

RecoverStep ==
  \/ Reopen \/ RecoverDone
  \/ \E x \in Txn :
       \/ RecoverTxn(x) \/ RecoverDecide(x) \/ RecoverTxnDone(x) \/ RecoverFails(x)
       \/ \E s \in Shard : Query(x, s)

Next ==
  \/ ClientStep
  \/ RecoverStep
  \/ Crash
  \/ \E h \in handlers : Deadline(h)
  \/ ShardStep /\ UNCHANGED coordVars

Spec == Init /\ [][Next]_vars

\* The coordinator is restarted and its constructor runs; the shards work off
\* the requests they have received and apply what is in their logs.
Fairness ==
  /\ WF_vars(RecoverStep)
  /\ \A s \in Shard :
       /\ WF_vars(Apply(s) /\ UNCHANGED coordVars)
       /\ \A x \in Txn, op \in Op :
            WF_vars(/\ \E h \in handlers : /\ h.shard = s /\ h.txn = x /\ h.op = op
                                          /\ HandlerStep(h)
                    /\ UNCHANGED coordVars)

FairSpec == Spec /\ Fairness

-----------------------------------------------------------------------------
(* Properties *)

\* The tables of the shards, the calls and the coordinator's log have their types,
\* and the budget is kept.
TypeOK ==
  /\ pending \in [Shard -> [Txn -> {"none", "begun", "prepared"}]]
  /\ terminal \in [Shard -> [Txn -> {"none", "committed", "aborted"}]]
  /\ local \in [Shard -> [Txn -> {"none", "active", "prepared"}]]
  /\ txn_id_map \in [Shard -> [Txn -> {"none", "local", "import"}]]
  /\ prepare_results \in [Shard -> [Txn -> BOOLEAN]]
  /\ follower_results \in [Shard -> [Txn -> BOOLEAN]]
  /\ slog \in [Shard -> Seq([op : Op, txn : Txn])]
  /\ last_applied \in [Shard -> Nat]
  /\ \A s \in Shard : last_applied[s] <= Len(slog[s])
  /\ committed \in [Shard -> SUBSET Txn]
  /\ handlers \subseteq Handler
  /\ rpc \in [Op -> [Shard -> [Txn -> {"none", "asked", "yes", "no"}]]]
  /\ spent \in [Bounded -> Nat]
  /\ \A b \in Bounded : spent[b] <= Budget[b]
  /\ up \in {"up", "recovering", "down"}
  /\ pc \in [Txn -> {"new", "active", "preparing", "committing", "aborting",
                     "aborted", "lost", "query", "recommit", "reabort", "done"}]
  /\ parts \in [Txn -> SUBSET Shard]
  /\ clog \in Seq([type : RecordType, txn : Txn])
  /\ synced \in 0..Len(clog)
  /\ seen \in [Txn -> [Shard -> {"none", "unknown", "in_flight", "prepared",
                                "committed", "aborted"}]]
  /\ outcome \in [Txn -> {"none", "ok", "error", "conflict"}]

\* Shard s can still commit x: it has it prepared, or will when the rest of its
\* log is applied.
CanCommit(x, s) ==
  \/ x \in committed[s]
  \/ Prepared(s, x)
  \/ \E i \in last_applied[s] + 1 .. Len(slog[s]) :
       /\ slog[s][i] = [op |-> "prepare", txn |-> x]
       /\ \A j \in i + 1 .. Len(slog[s]) : slog[s][j] # [op |-> "abort", txn |-> x]

\* Atomicity: when one participant has made the writes of a transaction visible
\* every other one has done so or still can.
NoPartialCommit ==
  \A x \in Txn :
    (\E s \in parts[x] : x \in committed[s]) => \A s \in parts[x] : CanCommit(x, s)

\* Atomicity survives faults of the shards and of the calls to them, and it
\* survives crashes of the coordinator: it is only lost when both meet.
AtomicUnlessBoth ==
  \/ spent["crash"] > 0 /\ \E b \in Bounded \ {"crash"} : spent[b] > 0
  \/ NoPartialCommit

\* What the client was told is true and stays true.  Commit returns OK only when
\* every participant has committed, although a shard acknowledges the commit of
\* a transaction it does not know; a transaction whose Commit returned Conflict,
\* or that was aborted, is visible nowhere, neither now nor after a recovery.
OutcomeIsTrue ==
  \A x \in Txn :
    /\ outcome[x] = "ok" => \A s \in parts[x] : x \in committed[s]
    /\ outcome[x] = "conflict" => \A s \in Shard : x \notin committed[s]

\* Recovery leaves alone what the log calls finished.  It can: COMMITTED is
\* logged when all participants have committed, ABORTED when none ever will.
LogIsTruthful ==
  \A x \in Txn :
    /\ Logged("COMMITTED", x) => \A s \in parts[x] : x \in committed[s]
    /\ Logged("ABORTED", x) => \A s \in Shard : x \notin committed[s]

\* Abort cleans up: once the client has been told of the abort and the shards are
\* at rest, no participant holds the transaction as prepared.
AbortCleansUp ==
  \A x \in Txn :
    /\ outcome[x] = "conflict"
    /\ handlers = {}
    /\ \A s \in Shard : last_applied[s] = Len(slog[s])
    => \A s \in parts[x] : ~Prepared(s, x)

\* Recovery ends, whenever the coordinator died and however often it dies while
\* it recovers: it answers to clients again.
RecoveryCompletes == up = "down" ~> up = "up"
=============================================================================
