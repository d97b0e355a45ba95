# TLA+ verification of trans-db

trans-db is a distributed transactional store in C++20: keys are hashed over
shards, every shard is a Raft group of replicas, a coordinator runs two-phase
commit over the shards of a transaction, and SQL and the PostgreSQL wire
protocol sit on top. This directory holds TLA+ modules for the parts where
threads, messages, crashes and timeouts meet, TLC runs over small instances, and
TLAPS proofs for every size. Every definition is translated from the code;
`PROJECT.json` maps each one to the lines it stands for, and lists the
components, the hazards, the findings and the theorems.

## The system

| part | state | operations | hard behaviour |
|---|---|---|---|
| lock manager | owner, hold count and FIFO queue per key, keys per transaction | Acquire, Release, ReleaseAll | hand-over against timeout, several threads of one transaction |
| Raft node and log | term, vote, role, log, commit and apply index, next/match index | election, broadcast, three handlers, Propose, WaitForCommit, restart | calls block without the mutex; lost, late, duplicate calls; stepping down |
| Raft state machine | raft id -> local transaction, prepare results | apply PREPARE_BATCH / COMMIT / ABORT | the whole log is applied again after a restart |
| shard service | pending and terminal transactions | Execute, Prepare, Commit, Abort, QueryTxnState | handlers of one transaction overlap and outlive their callers |
| coordinator | transactions, participants | Begin, Write, Commit, Abort, Recover | one of several calls fails; crash between two calls |
| coordinator log | records, those flushed | append, flush, replay | a record that is not flushed |
| transaction manager, WAL | write and read sets, prepared transactions | Begin, Read, Scan, Write, Delete, Prepare, Commit, Abort, Recover | validation without read locks, recovery of prepared transactions |
| group commit | queue of syncs, generations | QueueSync, worker | a request that joins during a flush |
| MVCC store, iterator, key encoding | versions | Put, Get, Seek | order of encoded keys, tombstones |
| Raft log file, term and vote on disk | file, stream buffer, entries | append, rewrite, sync, load | torn ends without a checksum, failing writes, crashes of process and machine |
| SQL executor, joins | rows as text under text keys | INSERT, UPDATE, DELETE, SELECT, three join algorithms | text order against number order, the ends of int64_t, who is the build side |
| wire server | sessions, worker threads, sockets | Start, accept, Stop; simple and extended queries | session state across errors, Stop against accept |
| parser, launcher | none | parse text, start processes | none |

A client's write goes coordinator -> shard leader -> transaction manager ->
lock manager and stays in the leader's memory. Commit prepares every
participant: the leader validates and prepares locally, then replicates the
write set as one Raft entry, which every replica imports as a prepared
transaction; a second round replicates the decision, which the thread that
applies the Raft log carries out. A transaction with one participant takes the
same steps one after the other. After a crash the coordinator replays its log and
finishes what is open, asking the shards when the log does not know; a restarted
shard first replays its WAL and then applies its Raft log from the first entry.

What should be true: one owner per lock and no lost hand-over; one leader per
term, one sequence of committed entries; a transaction commits on all its shards
or on none, at the latest when recovery has ended; what a client was told stays
true; an aborted transaction leaves nothing behind; everything that waits
eventually returns.

## Modules

**LockManager** (`txn/lock_manager.cpp`). One action per critical section of
`mu_`: AcquireReentrant, AcquireFree and AcquireEnqueue are the entry of Acquire,
AcquireGranted and AcquireTimedOut the two ends of its wait, Release, and the
parts of ReleaseAll, which takes its list under one lock (ReleaseAllMove) and
releases the keys under another (ReleaseAllLock, ReleaseAllKey, ReleaseAllDone).
`ReleaseInternal` is the hand-over. A model thread is a server thread working for
a transaction; t1 has two. The history variable `shared` holds the keys that two
threads of one transaction have waited for at once, which takes a retried
OP_WRITE; once there are more than MaxShared of them no thread queues up any more.
`Claims` counts the grants that the threads of a transaction obtained and have not
given back, or will obtain from the queue.

**RaftNode** (`raft/raft_node.cpp`, `raft_log.cpp`, the transports). Every node
has the ticker thread (elections, heartbeats) and threads that propose; the
constant Sender names the threads that can be in a broadcast at the same time. A
call is split where the code blocks: the request is built under the mutex,
handled by the peer, and its reply digested under the mutex again; `elec` holds
the vote calls of an election, `round` those of a broadcast, and `late` the
requests whose callers have given up. A call can be lost before or after the
peer handled it, can be handled after its caller gave up (at most MaxLate
requests linger), or be handled twice. Restart keeps term, vote and log, and
forgets the rest. MaxLog bounds the log. Budget is a set of limits on the number
of elections, broadcasts and faults, and a behaviour stays within one of them.
The bounds are guards of the environment, and the theorems hold for all values.
**RaftSafety** states the safety properties and the refinement, **ReplicatedLog**
is the abstract specification - one sequence of chosen entries that only grows,
of which every replica applies a prefix in order - and **RaftPropose** adds the
callers of Propose and WaitForCommit.

**RaftStore** (`raft/raft_log.cpp`, PersistMeta and LoadMeta of `raft_node.cpp`) is
what RaftNode takes for granted: the log file and the file with term and vote. The
log file is a sequence of pieces, whole or cut short; `flushed` and `durable` say how
many the operating system has and an fsync has covered, `ofs` is the stream, and
`older` is the file that the last rename may be undone to. A call is split into its
disk operations (`doing`), of which each may fail and after which the process or the
machine may die. The node's role is there too: a leader that steps down clears its vote
on disk, and what keeps it from voting again is the NOOP in its log file. Of the other
nodes the model has what RaftNode shows: a candidate's last entry is of an earlier
term, and a term has one leader. `promised` and `cast` record what the node has told
its peers; `unmarked` the terms it led without its NOOP stored, because Append failed;
`harm` records in which of the cases the code does not handle it has been.

**ShardService** (`shard/shard_server.cpp`, `raft/raft_state_machine.cpp`) is one
shard in the in-process deployment. A handler runs in the steps between which
other handlers can act: validate locally, propose, be applied, take the result,
answer. A proposed entry is applied later, at once or never within the wait of
the handler; the Raft group is used through the guarantee of ReplicatedLog
(entries are applied in one order). **Coordinator** (`coordinator/coordinator.cpp`,
`coordinator_log.cpp`) composes it with a coordinator that calls every shard in
parallel, may be told of a missed deadline while the handler runs on, crashes
at any step, and recovers. `clog` is the coordinator log and `synced` the length
of its flushed part: a crash keeps that part and any prefix of the rest.

**WAL** (`txn/wal.cpp`, `txn/group_commit.cpp`) is two log files and the registry
of syncs they share. A file is a sequence of pieces, one per record written, each
whole or torn; parsing stops at the first torn one, and Open appends behind it.
AppendSync writes its record under the mutex of the log and then either flushes
by itself (window 0) or queues the log and waits for the next generation of the
worker, which takes the queue, flushes every log in it once, and publishes one
status for all. fsync can fail; a crash keeps what was flushed and any torn
prefix of the rest. **MCLogFiles** puts WAL and RaftStore side by side: they share
no state, so each behaviour is one of the first or one of the second.

**TxnManager** (`txn/txn_manager.cpp`, `wal.cpp`, `storage/mvcc_store.cpp`,
`raft_state_machine.cpp`) is one shard's leader seen from inside: the table of
transactions, the owner of every lock, the versions in the store, the WAL, and
the thread that applies the Raft log. Locks are used through what LockManager
guarantees. Write is split where it returns from Acquire, since the transaction
may be aborted before it looks at `txns_` again; Commit is split into taking the
transaction out of `txns_`, one step per write, and the COMMIT record. Every id is
that of one TxnManager object: a transaction has one id when it is begun and
another one when the Raft log imports it, before or after a restart. The WAL is kept
per id, as the type of the last record and the writes before it, which is what Recover
gathers from it. Restart loses any versions the store has not synced, and is the whole of Recover. When Recover
would wait for a lock it has given away itself the process stays down.
WriteRetried is a Write whose call missed its deadline and was sent again: the
second handler buffers the write and answers while the first has yet to look at
`txns_`. When it does and the transaction is prepared by then, it releases its locks;
`robbed` records the transactions this has happened to.

**MVCCStore** (`storage/key_encoding.cpp`, `mvcc_store.cpp`, `mvcc_iterator.cpp`) has
no state of its own: encoded keys as sequences of symbols with the order RocksDB
gives them, and Put, Delete, Get and the iterator as operators on a database.
`Newest` is the reference Get is compared with. **Executor** (`coordinator/executor.cpp`,
`distributed_join.cpp`, `row_codec.cpp`, `shard/distributed_join_handler.cpp`) puts one
such database on every shard and has one action per statement that writes; SELECT
and the joins are operators on the stores. `rows` is what the statements should have
made of the tables. **PgSession** (`pgwire/pgwire_server.cpp`, transaction control of
the executor) has the accept thread, the worker threads, the thread that calls
Stop, and the sessions. An action is one statement or one message that holds none,
since a session touches what others see only there. `txns` is the coordinator's
table of transactions. **MCFrontEnd** puts Executor and PgSession side by side, in the
way of MCLogFiles.

## Runs

| run | instance | shows |
|---|---|---|
| lock_manager | 4 threads, 3 transactions, 2 keys, hold count 2; 32 452 states | RecordedIsOwned, HoldCountMatchesClaims, QueueMatchesWaiters, HandOverIsFifo, AcquireReturns |
| raft_node | 3 nodes, log of 2; 3 elections, 1 broadcast, 1 fault, or 2, 3 and 1, or 2, 1 and 2; 1.5 M states | ElectionSafety, LogMatching, LeaderCompleteness, MatchIndexIsReplicated, ImplementsReplicatedLog |
| raft_propose | 3 nodes, 2 values, no fault | violation of AcknowledgedIsChosen |
| coordinator_faults | 2 shards, 1 fault, 1 failing query, 1 shard restart, 1 crash; 1.6 M states | AtomicUnlessBoth, OutcomeIsTrue |
| coordinator_recovery | 2 shards, 2 coordinator crashes; 0.3 M states | NoPartialCommit, LogIsTruthful, RecoveryCompletes |
| abort_race | 2 shards, no fault | violation of AbortCleansUp |
| txn_manager | 2 transactions, 1 key, 2 reads, 3 writes, 1 retried write, 1 restart; 2.7 M states | LockedUntilCommitted, NoLeakedLocks, NoLostUpdate, OnlyCommittedIsStored, CommittedSurvives, VersionsInOrder |
| serializability | 2 transactions, 2 keys, 2 reads, 2 writes | violation of Serializable |
| orphan_locks | 2 transactions, 2 keys, 2 writes, 1 restart | violation of DecidedReleasesLocks |
| log_files | WAL: 2 threads, 2 logs, 3 records, 1 failing fsync, 2 crashes; Raft files: 2 entries, 2 terms, 3 crashes or failing operations; 0.55 M states | AckedIsDurable, LsnsIncrease, QueueSyncEnds, PromisesSurvive, FileIsLog |
| front_end | 2 connections, 1 block each, extended protocol on one; 2 tables, 2 shards, 3 statements, 4 keys; 0.34 M states | LeftoversExplained, IndicatorIsTrue, CommittedIsClean, StoppedIsQuiet, StopEnds, GetIsExact, TableIsExact, SelectIsExact, JoinsAgree |
| mvcc_get | the statements of front_end | violation of GetFindsNewest |

lock_manager, raft_node, coordinator_faults, txn_manager and log_files also check a
type invariant. Every property has a mutant of the model, a plausible mistake in the code it
models, that breaks it.

Bounds. Two keys give the lock manager cyclic waits and hand-overs of one key
while a thread waits for another; four threads give queues of length two and two
threads of one transaction. Three nodes are the smallest group in which a
majority is not everyone; three elections let a leader fall behind, return and be
elected again, three broadcasts let a follower be brought back after a conflict
and the commit index reach it, and a log of two entries has room for a conflict
and for an entry of an earlier term under a newer one. Two threads and two logs
let a request join a flush that is under way, for its own log or for another one;
two crashes let records be written behind a torn end and be lost with it. Two
shards are enough for a partial commit. One transaction is enough for atomicity:
transactions meet only in the transaction manager, whose validation is a free
choice between yes and no in ShardService. In TxnManager two transactions meet at
a key, and its properties speak of one key at a time; three writes let one of
them write the key twice, and let a crash fall between the two. Cycles over
several keys are the subject of serializability, which has two. A Write is retried
once at a time, before a restart and before any transaction was robbed. Two entries
and three pieces give a Raft log file a conflict, a rewrite and a torn end with
something behind it. Keys are written to base 3, so that four of them have a sign,
one length or two, and one that continues another, on the same shard and on the
other; int64_t is -2..5, which puts its upper end within reach of a condition. One
connection sends every kind of statement, the other meets it in the catalog and in
Stop.

Deadlock checking is off where the budget or the log bound lets the model stop;
LockManager runs with it.

Fairness. LockManager's FairSpec makes a waiting thread wake up or time out
(strong fairness: `wait_until` has a deadline, and the mutex it needs is free again
and again) and lets a ReleaseAll that has begun end; nothing forces a transaction
to release a lock. Coordinator's FairSpec makes recovery proceed, every handler
run (threads of a live process) and a proposed entry be applied (the group has a
majority); crashes, faults and client requests are never forced. WAL's FairSpec
makes the worker thread run and a caller that was notified wake up. PgFairness makes
the threads of the wire server run, the accept thread end once the server is not
running (its socket is shut down), and a session whose client is gone notice when
it next reads; what clients do is up to them.

What the coordinator runs show together: without a coordinator crash, atomicity
survives a lost call, a replication timeout, a missing leader and a shard
restart. With coordinator crashes it survives as long as calls succeed and shards
keep running, even when the requests of the dead coordinator arrive late. A
crash together with a shard restart or a failing query breaks it (COMMITTING is not
flushed before the Commit calls, and recovery takes UNKNOWN or no answer for "not
committed", `coordinator.cpp:801`): AtomicUnlessBoth excepts behaviours with a crash
and another fault. What the client was told is right in all of these.

What the lock manager's run shows: claims, queues and hand-overs are exact for every
key that no two threads of one transaction have waited for at once. For a `shared`
key they are not: the second queue entry stays behind, and the lock is later handed
to a transaction that has released everything (`lock_manager.cpp:86`).

What log_files shows. WAL: a record whose AppendSync was answered by a flush of its
own is replayed after every crash, unless it was written behind a torn end that
Open left in the file. With a window, a caller can be answered by another flush:
it joins while a flush is under way, or sleeps through a round and takes the
status of the next one. Those answers are outside what AckedIsDurable promises.
The default window is 0, where only the torn end matters. Raft files: entries and
votes that peers were told of survive, and file and memory agree, except in the
cases the code leaves open, with which a behaviour of the model ends: the log goes
on behind a torn end (Load does not cut it off, and the next Load takes what follows
for its rest); a rewrite failed half-way, or its flush, close or fsync failed, which
nobody looks at, so that a short or unsynced file takes the place of the log
(`raft_log.cpp:325`); a crash undid a rename (the directory is not synced); or the
file with term and vote was not written or not synced. A case with which it does not
end: the NOOP of a new leader could not be stored, and the node leads all the same
(`raft_node.cpp:116`). When it steps down its log does not show that it led, and it can
vote for another candidate of that term; PromisesSurvive excepts such a term.

What the transaction manager's runs show: the write locks are strict, from the
yes vote over a restart to the COMMIT record, and with the validation of reads
they exclude lost updates; nothing uncommitted reaches the store, and what was
acknowledged is there as soon as Recover has ended. They do not make the
transactions serializable, and locks recovered from the WAL are never released.
One case is excepted: a retried Write that finds its transaction prepared
releases all its locks (`txn_manager.cpp:192`); another transaction can then overwrite
what it read or wrote, and TLC shows the lost update when `robbed` is not excepted.

What front_end shows. Sessions: whatever fails, in a block or outside, the status a
client reads is true of the coordinator; a block with a refused statement is not
committed; a client that disconnects leaves its open block with the coordinator
(nothing aborts it) and nothing else; Stop returns unless a client stays on a
connection that was accepted before Stop and listed after it had shut the listed ones
down, and no thread is left when it has returned. Statements: point reads,
updates, range queries and the three join algorithms agree with what was written, and
the properties name the exceptions: a key that a longer one continues is not
found, an UPDATE of the primary key leaves the row under the old one, ranges are
compared as texts and so are right only among non-negative keys of one length, a
condition beyond the ends of int64_t wraps, and columns of one name come from
another table when the right one is the smaller.

## Findings

1. `raft_propose`: WaitForCommit checks the index and not the entry; a deposed
   leader acknowledges an entry that was overwritten (`raft_node.cpp:510`).
2. `abort_race`: Abort is sent while Prepare handlers are running, and is lost on a
   shard that has proposed its Prepare entry (`coordinator.cpp:775`).
3. `serializability`: two transactions that read what the other one writes are both
   validated before either is in the store, and both commit (`txn_manager.cpp:280`).
4. `orphan_locks`: a transaction recovered from the WAL as prepared is committed or
   aborted under another id, and keeps its locks (`txn_manager.cpp:468`).
5. `mvcc_get`: the versions of "10" lie between the place where Get starts to look for
   "1" and the versions of "1", and Get gives up at the first of them
   (`mvcc_store.cpp:68`).

## Proofs

TLAPS checks the theorems below for every value of the constants, under the named
assumptions of the module they are about. Each rests on an inductive invariant: it
holds at the start, every step keeps it, and the property follows from it.

**Raft** (`RaftNodeProofs`, `RaftElectionProofs`, `RaftLogProofs`): `Spec => []TypeOK`,
`Spec => []ElectionSafety`, `Spec => []LogMatching`. Assumed: Server is finite, Nil is
not a server, the ticker is one of the senders, NOOP is not a value, and the bounds are
numbers.

ElectionSafety is not inductive. ElectionInv (NodeInv and CallsInv) strengthens it
with: every vote is remembered by the voter while it stays in the term - or the voter
has led that term; a node votes once per term; every leader of a term has the votes of
a majority; a leader of its current term has an entry of that term at the end of its
log; no entry is ahead of its node's term; and requests and replies on their way carry
the truth about the term they were sent in. The NOOP at the end of a leader's log is
what makes the code right: at its end `SendAppendEntriesToAll` calls
`BecomeFollower(current_term_)` when no majority has answered, which clears the vote of the current term, and a
second vote is refused only because the old leader's NOOP makes its log newer than
that of any candidate of the term. Two majorities intersect by FiniteSetTheorems.

LogMatching speaks of logs, but a log takes over what a request carries, also one that
was sent long ago. So the invariant LogInv is about pieces: a log, and the slice of a
log in an AppendEntries request, are pieces, and any two pieces in the system match.
JoinMatches shows that a log that has taken over a request matches whatever the log and
the request matched, and a new entry is the only one of its index and term because its
leader is the only one of that term.

**Lock manager** (`LockManagerProofs`): TypeOK, RecordedIsOwned, HoldCountMatchesClaims,
QueueMatchesWaiters and the action property HandOverIsFifo. Assumed: Thread is finite,
every thread works for a transaction, NoTxn, NoKey and NoThread are no transaction, key
or thread, and the bounds are numbers. The invariant is an account per transaction and key: what callers
may still give back (Claims) against what the table will let them have, the holds of
the owner and the places in the queue. It never runs short; on a key that no two
threads of one transaction have waited for it is exact, at most one thread waits, and a
transaction is owner or in the queue but not both. ReleaseInternal keeps the account of
both sides of a hand-over (a hold less for one, a place turned into a hold for the
other), and a timeout takes a place and a claim.

**Transaction manager** (`TxnManagerProofs`): NoLeakedLocks, OnlyCommittedIsStored,
LockedUntilCommitted. Assumed: NoId is neither a key nor an id, and the bounds are
numbers. A restart rebuilds tables, locks and store from the WAL, and the replicated log is then
applied again under new ids, so none of the three is inductive. TxnInv says what the log
knows of a transaction in each phase (LogOK), which ids it can have (IdsOK, Imports),
that the WAL holds the writes of every prepared id and that these are the writes in the
replicated log (WalOK), and who owns the locks of an active and of a prepared id
(ActiveLocked, PreparedLocked): an imported id need not own them when the begun one
does, which is why both have to be followed.

**Coordinator and shards** (`CoordinatorSteps`, `CoordinatorProofs`): TypeOK,
AtomicUnlessBoth and OutcomeIsTrue for any number of shards and transactions and any
budget; LogIsTruthful unless faults and crashes have met; NoPartialCommit and
LogIsTruthful when the budget has crashes only. Assumed: the budget is made of numbers,
Shard and Txn are finite.

The argument is local: CellStep says what any step does to one transaction at one shard
(tables, entries in the shard's log, handlers, answers), Moves what it does to the
coordinator's view of one transaction, and every conjunct of the invariant CoordInv is
shown to survive from these two. CoordInv says: what is logged fits where the thread is,
and Recover is at work on one transaction at most (LogOK, UpOK); a shard has of a
transaction only what its log explains, there is one Prepare per participant, and a
handler that waits waits for its own entry (CellOK); a vote is kept, and between
validation and vote nothing disturbs a Prepare unless an abort has reached the shard
(FlowOK); once somebody has decided to commit nobody has decided to abort, and every
participant is ready: it has the transaction prepared, or will have when its log is
applied, and no Prepare handler is left that could take it back (ModeOK). Ready is the
heart of it: a shard that restarts forgets its tables but not its log, and a request
whose caller has given up runs on, so "has voted" is not what lasts, "is ready" is.
ModeOK holds for a transaction while its client's thread works on it, or no crash, or
nothing but crashes has happened (Sheltered). Recover has to decide from tables and
unflushed records; that it decides alike each time, and as the dead coordinator's
requests will, needs CalmCell and CalmOK: without other faults the tables show a vote as
long as it counts, and an abort that was sent is on disk or a participant has refused.
OutcomeIsTrue needs no such condition, since the thread that tells the client has
collected all the answers itself.

**Wire server** (`PgSessionProofs`): IndicatorIsTrue, CommittedIsClean,
LeftoversExplained and StoppedIsQuiet as invariants of PgSpec, for every set of
connections, every choice of queries and every bound. Assumed: queries are non-empty
sequences of statements, and NoTxn is not a transaction. IndicatorIsTrue is not
inductive, since a later statement starts from a block it says nothing about.
SessionInv adds, per connection: the coordinator holds no transaction of the session but
its block (Block), and holds that block unless it has failed (Held); a refused statement
has failed the block, and a failed block is one; and what the worker is doing fits what
the client read last (Phase). ExecuteOutcome says what any statement may do to the
table of transactions, ProcessSingleKeeps lifts it to the session, and OthersKeep shows
that the other sessions stay as they are. StopInv adds to StoppedIsQuiet that the accept
thread is done once Stop joins the workers, so that no worker can be started behind its
back.

Only model-checked: liveness (AcquireReturns, RecoveryCompletes, QueueSyncEnds,
StopEnds), which the prover cannot treat; of Raft LeaderCompleteness,
MatchIndexIsReplicated and the refinement of ReplicatedLog, whose invariant has to
follow majorities of match indices through elections; of the transaction manager
TypeOK, NoLostUpdate, CommittedSurvives and VersionsInOrder; the files (WAL and
RaftStore); and the store and the executor, whose operators are recursive over data.

## Not modelled, and the plan

Left out of the modelled parts:

- disk failures and torn records in the coordinator log and in TxnManager, which takes
  what is written to its WAL for kept;
- timing beyond "a timeout may happen", and memory lifetime;
- in TxnManager a first Write that is still waiting for its lock when Commit is called,
  and the coordinator's Abort during a Prepare (ShardService has it);
- in RaftNode a disk that fails (RaftStore has it): the NOOP of a new leader is stored;
- an OP_BEGIN that is sent again, or arrives late, after a failed call: the shard would
  begin another transaction and forget the one it had (`shard_server.cpp:252`), and its
  writes. AtomicUnlessBoth and OutcomeIsTrue are about behaviours without it;
- exceptions that nobody catches (std::stoll and std::stod in `executor.cpp`, lines 337,
  1076 and 1085) and SIGPIPE, which end the process, and the reuse of a socket
  descriptor that Stop has closed under a worker (`pgwire_server.cpp:166`);
- in TxnManager the moments within Abort between the erasure from `txns_`, the ABORT
  record and ReleaseAll, which are one step;
- transaction ids and timestamps that start at 1 again with a new coordinator: the
  collision needs coordinator log, shard tables and timestamps in one model, which is
  out of TLC's reach;
- the deployment with one process per replica, and retries over replica addresses;
- functions that nothing but tests calls (RaftLog::TruncateFrom, WAL::Truncate) and
  Raft entry types that no handler proposes;
- in the executor ORDER BY, LIMIT, aggregates and projection, FLOAT and VARCHAR keys,
  and literals of another type than their column; in the joins calls that fail;
- byte formats of files and messages, and the substitution of parameters.

The parser, process start-up and the launcher are sequential string handling or pure
I/O and stay out.

Next, in this order:

1. Proofs: MatchIndexIsReplicated, LeaderCompleteness and the refinement of
   ReplicatedLog; NoLostUpdate and CommittedSurvives of TxnManager; the files.
2. Replica mode of the shard service with changes of leader.
3. Ids and timestamps across restarts of the coordinator, in a model of their own.
