--------------------------------- MODULE WAL ---------------------------------
(***************************************************************************)
(* Write-ahead logs and group commit: txn/wal.cpp, txn/group_commit.cpp.   *)
(*                                                                         *)
(* A process has several logs (one WAL per shard in the in-process         *)
(* deployment) and one DurableSyncRegistry.  AppendSync writes a record    *)
(* under the log's mu_ and then asks the registry for a sync: at once when *)
(* window_us is 0, otherwise through a queue that a worker thread empties, *)
(* flushing every log of its batch and then waking all callers by a        *)
(* generation number.                                                      *)
(*                                                                         *)
(* A log file is a sequence of pieces.  A piece is a whole record or,      *)
(* after a crash, the first part of one.  The pieces behind `synced' are   *)
(* in the stream's buffer or in the page cache: a crash keeps any prefix   *)
(* of them and may cut the next one.  Abstraction: the payload of a record *)
(* is the call that wrote it, and the checksum is taken to detect every    *)
(* piece that is not a whole record.  A flush that fails is an fsync that  *)
(* fails.  Truncate, which only tests call, is left out.                   *)
(***************************************************************************)
EXTENDS Naturals, Sequences, FiniteSets

CONSTANTS
  Thread,     \* threads that append records
  Records,    \* bound on the records of all lives
  Log,        \* the logs of the process
  NoLog,      \* a thread that is in no call
  Crashes,    \* bound on crashes
  Failures    \* bound on failing fsyncs

ASSUME NoLogAssumption == NoLog \notin Log
ASSUME BoundAssumption ==
  Records \in Nat /\ Crashes \in Nat /\ Failures \in Nat

VARIABLES
  window,             \* cfg_.window_us > 0
  file,               \* the pieces of each log, in the order of writing
  synced,             \* how many of them an fsync has covered
  next_lsn,           \* WAL::next_lsn_
  pc,                 \* where each thread is
  log,                \* the log its AppendSync is about
  call,               \* the number of that AppendSync, and of its record
  wait_generation,    \* local to QueueSync
  pending_syncs,      \* DurableSyncRegistry::pending_syncs_, the keys
  batch,              \* local to WorkerLoop: keys not flushed yet
  worker,             \* "wait" or "flush"
  merged,             \* local to WorkerLoop: no flush has failed
  synced_generation,  \* DurableSyncRegistry::synced_generation_
  last_status,        \* DurableSyncRegistry::last_status_ is OK
  appended,           \* records written so far
  life,               \* crashes so far
  failures,           \* failed fsyncs so far
  joined,             \* history: threads that queued during a flush
  acked               \* history: records whose AppendSync returned OK

logVars == <<file, synced, next_lsn, appended>>
registryVars == <<pending_syncs, batch, worker, merged, synced_generation,
                  last_status>>
threadVars == <<pc, log, call, wait_generation, joined>>
vars == <<window, logVars, threadVars, registryVars, life, failures, acked>>

-----------------------------------------------------------------------------
(* Files *)

Piece == [call : 1..Records, lsn : Nat \ {0}, whole : BOOLEAN]

\* ParseRecordsFromBytes: the records up to the first piece whose length or
\* checksum does not fit.
ParseRecordsFromBytes(pieces) ==
  LET good == {n \in 0..Len(pieces) : \A i \in 1..n : pieces[i].whole}
  IN  SubSeq(pieces, 1, CHOOSE n \in good : \A m \in good : m <= n)

\* max_lsn of ParseRecordsFromBytes.
MaxLsn(records) ==
  CHOOSE n \in {0} \cup {records[i].lsn : i \in DOMAIN records} :
    \A i \in DOMAIN records : records[i].lsn <= n

\* What a crash may leave of f: the synced pieces, some of those behind them
\* and perhaps a part of the next one.
Remains(f) ==
  LET cut(n) == Append(SubSeq(file[f], 1, n),
                       [file[f][n + 1] EXCEPT !.whole = FALSE])
  IN  {SubSeq(file[f], 1, n) : n \in synced[f]..Len(file[f])}
        \cup {cut(n) : n \in synced[f]..(Len(file[f]) - 1)}

-----------------------------------------------------------------------------
Init ==
  /\ window \in BOOLEAN
  /\ file = [f \in Log |-> <<>>]
  /\ synced = [f \in Log |-> 0]
  /\ next_lsn = [f \in Log |-> 1]
  /\ pc = [th \in Thread |-> "idle"]
  /\ log = [th \in Thread |-> NoLog]
  /\ call = [th \in Thread |-> 0]
  /\ wait_generation = [th \in Thread |-> 0]
  /\ joined = {}
  /\ pending_syncs = {} /\ batch = {} /\ worker = "wait"
  /\ merged = TRUE /\ synced_generation = 0 /\ last_status = TRUE
  /\ appended = 0 /\ life = 0 /\ failures = 0 /\ acked = {}

-----------------------------------------------------------------------------
(* Appending *)

\* WriteRecord under mu_, with the next LSN.
WriteRecord(f) ==
  /\ file' = [file EXCEPT ![f] = Append(@, [call |-> appended + 1,
                                            lsn |-> next_lsn[f],
                                            whole |-> TRUE])]
  /\ next_lsn' = [next_lsn EXCEPT ![f] = @ + 1]
  /\ appended < Records
  /\ appended' = appended + 1
  /\ UNCHANGED synced

\* WAL::Append: the record is written and not synced.
AppendRecord(f) ==
  /\ WriteRecord(f)
  /\ UNCHANGED <<window, threadVars, registryVars, life, failures, acked>>

\* The first part of WAL::AppendSync; mu_ is free again behind it.
AppendSync(th, f) ==
  /\ pc[th] = "idle"
  /\ WriteRecord(f)
  /\ pc' = [pc EXCEPT ![th] = "written"]
  /\ log' = [log EXCEPT ![th] = f]
  /\ call' = [call EXCEPT ![th] = appended + 1]
  /\ UNCHANGED <<window, wait_generation, joined, registryVars, life, failures,
                 acked>>

\* WAL::Sync, a flush and an fsync under mu_, with its outcome.
Sync(f, ok) ==
  \/ /\ ok
     /\ synced' = [synced EXCEPT ![f] = Len(file[f])]
     /\ UNCHANGED <<file, next_lsn, appended, failures>>
  \/ /\ ~ok
     /\ failures < Failures
     /\ failures' = failures + 1
     /\ UNCHANGED logVars

\* AppendSync returns; own tells whether the answer is that of the flush the
\* call asked for.
Returns(th, ok, own) ==
  /\ pc' = [pc EXCEPT ![th] = "idle"]
  /\ log' = [log EXCEPT ![th] = NoLog]
  /\ call' = [call EXCEPT ![th] = 0]
  /\ wait_generation' = [wait_generation EXCEPT ![th] = 0]
  /\ joined' = joined \ {th}
  /\ acked' = IF ok
              THEN acked \cup {[log |-> log[th], call |-> call[th], own |-> own]}
              ELSE acked

\* QueueSync without a window: the caller flushes.
FlushSync(th) ==
  /\ pc[th] = "written"
  /\ ~window
  /\ \E ok \in BOOLEAN : Sync(log[th], ok) /\ Returns(th, ok, TRUE)
  /\ UNCHANGED <<window, registryVars, life>>

-----------------------------------------------------------------------------
(* DurableSyncRegistry *)

\* QueueSync with a window: note the generation, join the queue, wait.
QueueSync(th) ==
  /\ pc[th] = "written"
  /\ window
  /\ wait_generation' = [wait_generation EXCEPT ![th] = synced_generation]
  /\ pending_syncs' = pending_syncs \cup {log[th]}
  /\ pc' = [pc EXCEPT ![th] = "waiting"]
  /\ joined' = IF worker = "flush" THEN joined \cup {th} ELSE joined
  /\ UNCHANGED <<window, logVars, log, call, batch, worker, merged,
                 synced_generation, last_status, life, failures, acked>>

\* Fault: the caller misses the first generation that ends while it waits.
QueueSyncReturns_NextRound(th) ==
  /\ pc[th] = "waiting"
  /\ synced_generation > wait_generation[th] + 1
  /\ Returns(th, last_status, FALSE)
  /\ UNCHANGED <<window, logVars, registryVars, life, failures>>

\* The generation has moved on: return the last status.
QueueSyncReturns(th) ==
  /\ pc[th] = "waiting"
  /\ synced_generation > wait_generation[th]
  /\ Returns(th, last_status,
             th \notin joined /\ synced_generation = wait_generation[th] + 1)
  /\ UNCHANGED <<window, logVars, registryVars, life, failures>>

\* The worker takes the queue: the batch is full or the window is over.
WorkerTake ==
  /\ worker = "wait"
  /\ pending_syncs # {}
  /\ batch' = pending_syncs
  /\ pending_syncs' = {}
  /\ worker' = "flush"
  /\ merged' = TRUE
  /\ UNCHANGED <<window, logVars, threadVars, synced_generation, last_status,
                 life, failures, acked>>

\* Fault: the status of the batch is that of its last flush.
WorkerFlush_LastStatus(f) ==
  /\ worker = "flush"
  /\ f \in batch
  /\ \E ok \in BOOLEAN : Sync(f, ok) /\ merged' = ok
  /\ batch' = batch \ {f}
  /\ UNCHANGED <<window, threadVars, pending_syncs, worker, synced_generation,
                 last_status, life, acked>>

\* One flush per key of the batch; a failure fails the whole batch.
WorkerFlush(f) ==
  /\ worker = "flush"
  /\ f \in batch
  /\ \E ok \in BOOLEAN : Sync(f, ok) /\ merged' = (merged /\ ok)
  /\ batch' = batch \ {f}
  /\ UNCHANGED <<window, threadVars, pending_syncs, worker, synced_generation,
                 last_status, life, acked>>

\* The batch is flushed: publish its status and wake everybody.
WorkerDone ==
  /\ worker = "flush"
  /\ batch = {}
  /\ last_status' = merged
  /\ synced_generation' = synced_generation + 1
  /\ worker' = "wait"
  /\ UNCHANGED <<window, logVars, threadVars, pending_syncs, batch, merged, life,
                 failures, acked>>

-----------------------------------------------------------------------------
(* Crash and restart *)

\* Fault: a reopened log gives the last number out again.
Open_LastLsn(pieces) == MaxLsn(ParseRecordsFromBytes(pieces))

\* Fault: a reopened log numbers its records from the start.
Open_FirstLsn(pieces) == 1

\* WAL::Open: the next LSN follows the last record that can be read.  The file
\* is opened for appending, and what cannot be read is not cut off.
Open(pieces) == MaxLsn(ParseRecordsFromBytes(pieces)) + 1

\* The machine goes down and the process starts again.
Restart ==
  /\ life < Crashes
  /\ life' = life + 1
  /\ \E left \in [Log -> UNION {Remains(f) : f \in Log}] :
       /\ \A f \in Log : left[f] \in Remains(f)
       /\ file' = left
       /\ synced' = [f \in Log |-> Len(left[f])]
       /\ next_lsn' = [f \in Log |-> Open(left[f])]
  /\ pc' = [th \in Thread |-> "idle"]
  /\ log' = [th \in Thread |-> NoLog]
  /\ call' = [th \in Thread |-> 0]
  /\ wait_generation' = [th \in Thread |-> 0]
  /\ joined' = {}
  /\ pending_syncs' = {} /\ batch' = {} /\ worker' = "wait"
  /\ merged' = TRUE /\ synced_generation' = 0 /\ last_status' = TRUE
  /\ UNCHANGED <<window, appended, failures, acked>>

Next ==
  \/ \E th \in Thread :
       \/ \E f \in Log : AppendSync(th, f)
       \/ FlushSync(th)
       \/ QueueSync(th)
       \/ QueueSyncReturns(th)
  \/ WorkerTake
  \/ \E f \in Log : AppendRecord(f) \/ WorkerFlush(f)
  \/ WorkerDone
  \/ Restart

\* The worker runs: its window has a deadline and a flush returns.  A caller
\* that was notified wakes up.  Nothing makes a thread start a call.
Fairness ==
  /\ WF_vars(WorkerTake)
  /\ \A f \in Log : WF_vars(WorkerFlush(f))
  /\ WF_vars(WorkerDone)
  /\ \A th \in Thread : WF_vars(QueueSyncReturns(th))

Spec == Init /\ [][Next]_vars
FairSpec == Spec /\ Fairness

-----------------------------------------------------------------------------
(* Properties *)

\* Every variable has its type; an fsync never covers more than was written.
TypeOK ==
  /\ window \in BOOLEAN
  /\ file \in [Log -> Seq(Piece)]
  /\ synced \in [Log -> Nat]
  /\ \A f \in Log : synced[f] <= Len(file[f])
  /\ next_lsn \in [Log -> Nat \ {0}]
  /\ pc \in [Thread -> {"idle", "written", "waiting"}]
  /\ log \in [Thread -> Log \cup {NoLog}]
  /\ call \in [Thread -> 0..Records]
  /\ wait_generation \in [Thread -> Nat]
  /\ pending_syncs \subseteq Log
  /\ batch \subseteq Log
  /\ worker \in {"wait", "flush"}
  /\ merged \in BOOLEAN
  /\ synced_generation \in Nat
  /\ last_status \in BOOLEAN
  /\ appended \in 0..Records
  /\ life \in 0..Crashes
  /\ failures \in 0..Failures
  /\ joined \subseteq Thread
  /\ acked \subseteq [log : Log, call : 1..Records, own : BOOLEAN]

\* The record of a was appended behind the remains of an earlier crash.
BehindTornPiece(a) ==
  \E i, j \in DOMAIN file[a.log] :
    i < j /\ ~file[a.log][i].whole /\ file[a.log][j].call = a.call

\* Durability: a record whose AppendSync returned OK is found by every later
\* Replay, whatever a crash leaves of the file.  Two kinds of record are not
\* covered by what the code does: one that stands behind the torn end of an
\* earlier life, which Open leaves in the file, and one whose answer came from
\* another flush than its own (it joined during a flush, or slept through a
\* round), since QueueSync compares generations only.
AckedIsDurable ==
  \A a \in acked :
    LET safe == ParseRecordsFromBytes(SubSeq(file[a.log], 1, synced[a.log]))
    IN  \/ \E i \in DOMAIN safe : safe[i].call = a.call
        \/ BehindTornPiece(a)
        \/ ~a.own

\* The records Replay visits have strictly increasing LSNs, over all restarts:
\* Open never gives a number out again that a readable record has.
LsnsIncrease ==
  \A f \in Log :
    LET read == ParseRecordsFromBytes(file[f])
    IN  \A i, j \in DOMAIN read : i < j => read[i].lsn < read[j].lsn

\* Every QueueSync returns, whether its flush succeeds or fails, and also when
\* it joins the queue while the worker is flushing.
QueueSyncEnds ==
  \A th \in Thread : pc[th] = "waiting" ~> pc[th] # "waiting"
=============================================================================
