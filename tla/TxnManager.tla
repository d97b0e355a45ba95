----------------------------- MODULE TxnManager -----------------------------
(***************************************************************************)
(* The transactions of one shard's leader: txn/txn_manager.cpp on the      *)
(* version store (storage/mvcc_store.cpp), the write-ahead log             *)
(* (txn/wal.cpp) and the lock table, with the thread that applies the      *)
(* replicated log (raft/raft_state_machine.cpp).                           *)
(*                                                                         *)
(* A transaction is known to the coordinator as a member of Txn.  Each     *)
(* TxnManager object numbers its own: an Id names the transaction, the     *)
(* life of the process in which the number was given out, and whether      *)
(* OP_BEGIN or ImportPreparedTxn did so.                                   *)
(*                                                                         *)
(* Locks are used through what LockManager guarantees: one owner, and a    *)
(* waiting Acquire ends with the lock or with a timeout.  The WAL is kept  *)
(* as what Recover gathers from the records of each id: the type of the    *)
(* last one and the writes before it.  An id whose PREPARE, COMMIT or      *)
(* ABORT is not on disk is nothing to it.  A value is the position of the  *)
(* write in its transaction.                                               *)
(***************************************************************************)
EXTENDS Naturals, Sequences, FiniteSets

CONSTANTS
  Txn,         \* distributed transaction ids (raft_txn_id)
  Key,
  NoId,        \* no transaction
  MaxReads,    \* bounds on the reads and the writes of all transactions
  MaxWrites,
  Restarts     \* bound on the restarts of the process

ASSUME IdAssumption ==
  NoId \notin Key /\ NoId \notin Txn \X (0..Restarts) \X {"begun", "imported"}
ASSUME BoundAssumption == {MaxReads, MaxWrites, Restarts} \subseteq Nat

VARIABLES
  clock,         \* the coordinator's TimestampOracle
  snapshot_ts,   \* the timestamps of each transaction
  commit_ts,
  pc,            \* how far the coordinator is with each transaction
  writing,       \* the OP_WRITE or OP_DELETE handler of each transaction
  retried,       \* transactions whose handler is an attempt that was retried since
  robbed,        \* prepared transactions whose locks such a handler released
  state,         \* txns_: Transaction::state, or none if the id is not there
  write_set,     \* Transaction::write_set
  read_set,      \* Transaction::read_set, kept after the commit
  owner,         \* the owner of each lock
  store,         \* the versions in the store
  wal,           \* the WAL records of each id
  txn_id_map,    \* txn_id_map_ of the state machine
  rlog,          \* the replicated log
  last_applied,
  applying,      \* the TxnManager::Commit in progress
  life           \* the number of restarts so far

coordVars == <<clock, snapshot_ts, commit_ts, pc>>
txnVars == <<state, write_set, read_set>>
diskVars == <<store, wal, rlog>>
writeVars == <<writing, retried, robbed>>
vars == <<coordVars, writeVars, txnVars, owner, diskVars, txn_id_map, last_applied,
          applying, life>>

Id == Txn \X (0..Restarts) \X {"begun", "imported"}
Begun(x) == <<x, life, "begun">>
Imported(x) == <<x, life, "imported">>

Write == [key : Key, del : BOOLEAN]
Tombstone == 0
Version == [key : Key, ts : Nat, val : Nat]
\* The records of an id in the WAL: the type of the last one, and the writes.
\* WRITE stands for WRITE and DELETE.
Records == [last : {"none", "BEGIN", "WRITE", "PREPARE", "COMMIT", "ABORT"},
            writes : Seq(Write)]
NoRecords == [last |-> "none", writes |-> <<>>]
\* An entry of the replicated log.
Entry == [op : {"prepare", "commit", "abort"}, txn : Txn, writes : Seq(Write)]
\* How far the coordinator is with a transaction.
Phase == {"new", "active", "preparing", "prepared", "proposed", "voted", "refused",
          "committing", "committed", "aborted"}
NoWrite == [key |-> NoId, del |-> FALSE]
NoCommit == [id |-> NoId, next |-> 0]

Init ==
  /\ clock = 1
  /\ snapshot_ts = [x \in Txn |-> 0]
  /\ commit_ts = [x \in Txn |-> 0]
  /\ pc = [x \in Txn |-> "new"]
  /\ writing = [x \in Txn |-> NoWrite]
  /\ retried = {} /\ robbed = {}
  /\ state = [i \in Id |-> "none"]
  /\ write_set = [i \in Id |-> <<>>]
  /\ read_set = [x \in Txn |-> {}]
  /\ owner = [k \in Key |-> NoId]
  /\ store = {[key |-> k, ts |-> 0, val |-> 1] : k \in Key}
  /\ wal = [i \in Id |-> NoRecords]
  /\ txn_id_map = [x \in Txn |-> NoId]
  /\ rlog = <<>>
  /\ last_applied = 0
  /\ applying = NoCommit
  /\ life = 0

-----------------------------------------------------------------------------
(* The store *)

\* Fault: the newest version of all.
Visible_Newest(k, ts) ==
  {v \in store : v.key = k /\ v.val # Tombstone /\ \A w \in store : w.key = k => w.ts <= v.ts}

\* MVCCStore::Get: the newest version of k not after ts, if there is one and it is
\* no tombstone.
Visible(k, ts) ==
  LET old == {v \in store : v.key = k /\ v.ts <= ts}
  IN  {v \in old : v.val # Tombstone /\ \A w \in old : w.ts <= v.ts}

\* MVCCIterator: the rows of a range that are visible, one per key.
Scan(K, ts) == UNION {Visible(k, ts) : k \in K}

\* MVCCStore::Put and Delete: a version with the same key and timestamp is
\* replaced.
Put(versions, v) == {w \in versions : w.key # v.key \/ w.ts # v.ts} \cup {v}

\* What the n-th write of a transaction puts into the store.
VersionOf(w, ts, n) ==
  [key |-> w.key, ts |-> ts, val |-> IF w.del THEN Tombstone ELSE n]

-----------------------------------------------------------------------------
(* Building blocks of TxnManager *)

Log(i, type) == wal' = [wal EXCEPT ![i].last = type]

Without(i) == [k \in Key |-> IF owner[k] = i THEN NoId ELSE owner[k]]
ReleaseAll(i) == owner' = Without(i)

\* TxnManager::Abort.  Of the records of an id only ABORT matters from now on.
AbortTxn(i) ==
  IF state[i] = "none"
  THEN UNCHANGED <<txnVars, wal, owner>>
  ELSE /\ state' = [state EXCEPT ![i] = "none"]
       /\ write_set' = [write_set EXCEPT ![i] = <<>>]
       /\ read_set' = [read_set EXCEPT ![i[1]] = {}]
       /\ wal' = [wal EXCEPT ![i] = [last |-> "ABORT", writes |-> <<>>]]
       /\ ReleaseAll(i)

Become(x, where) == pc' = [pc EXCEPT ![x] = where]
Forget(x) == txn_id_map' = [txn_id_map EXCEPT ![x] = NoId]

KeysOf(writes) == {writes[n].key : n \in DOMAIN writes}

-----------------------------------------------------------------------------
(* OP_BEGIN, OP_READ, OP_SCAN, OP_WRITE, OP_DELETE *)

Begin(x) ==
  /\ pc[x] = "new"
  /\ clock' = clock + 1
  /\ snapshot_ts' = [snapshot_ts EXCEPT ![x] = clock]
  /\ Become(x, "active")
  /\ state' = [state EXCEPT ![Begun(x)] = "active"]
  /\ Log(Begun(x), "BEGIN")
  /\ txn_id_map' = [txn_id_map EXCEPT ![x] = Begun(x)]
  /\ UNCHANGED <<commit_ts, writeVars, write_set, read_set, owner, store, rlog,
                 last_applied, applying, life>>

\* The reads and writes so far.
Reads == UNION {{<<x, r>> : r \in read_set[x]} : x \in Txn}
Written ==
  UNION {{<<i, n>> : n \in DOMAIN wal[i].writes} : i \in {j \in Id : j[3] = "begun"}}

\* What the read set gains from reading the keys K: a key that is buffered or not
\* found leaves no trace.
Observed(x, K) ==
  LET fresh == K \ KeysOf(write_set[Begun(x)])
  IN  {[key |-> v.key, ts |-> v.ts] : v \in Scan(fresh, snapshot_ts[x])}

\* No request of the client is under way.
Answered(x) == writing[x] = NoWrite \/ x \in retried

\* OP_READ finds the transaction, and it is active.
MayRead(x) ==
  /\ pc[x] = "active" /\ Answered(x)
  /\ state[Begun(x)] = "active"
  /\ Cardinality(Reads) < MaxReads

Observe(x, K) ==
  /\ read_set' = [read_set EXCEPT ![x] = @ \cup Observed(x, K)]
  /\ UNCHANGED <<coordVars, writeVars, state, write_set, owner, diskVars, txn_id_map,
                 last_applied, applying, life>>

Read(x, k) == MayRead(x) /\ Observe(x, {k})

\* OP_SCAN of the table.
ScanAll(x) == MayRead(x) /\ Observe(x, Key)

\* A Write or Delete may call Acquire: at the next request of the client, or late,
\* when its caller has given up and aborted the transaction.
MayWrite(x) ==
  /\ pc[x] \in {"active", "aborted"} /\ commit_ts[x] = 0
  /\ wal[Begun(x)] # NoRecords
  /\ writing[x] = NoWrite
  /\ Cardinality(Written) + Cardinality({y \in Txn : writing[y] # NoWrite}) < MaxWrites

\* Acquire returns OK, at once or after a wait.
WriteLocked(x, w) ==
  /\ MayWrite(x)
  /\ owner[w.key] \in {NoId, Begun(x)}
  /\ owner' = [owner EXCEPT ![w.key] = Begun(x)]
  /\ writing' = [writing EXCEPT ![x] = w]
  /\ UNCHANGED <<coordVars, retried, robbed, txnVars, diskVars, txn_id_map,
                 last_applied, applying, life>>

\* Acquire times out: the transaction is aborted.
WriteTimedOut(x, w) ==
  /\ MayWrite(x)
  /\ owner[w.key] \notin {NoId, Begun(x)}
  /\ AbortTxn(Begun(x))
  /\ UNCHANGED <<coordVars, writeVars, store, rlog, txn_id_map, last_applied, applying,
                 life>>

\* Write logs and buffers.
Buffer(x) ==
  /\ write_set' = [write_set EXCEPT ![Begun(x)] = Append(@, writing[x])]
  /\ wal' = [wal EXCEPT ![Begun(x)] =
               [last |-> "WRITE", writes |-> Append(@.writes, writing[x])]]

\* Fault: the lock of a transaction that is gone is kept.
WriteBuffer_KeepsLock(x) ==
  /\ writing[x] # NoWrite
  /\ IF state[Begun(x)] = "active"
     THEN Buffer(x)
     ELSE UNCHANGED <<write_set, wal>>
  /\ writing' = [writing EXCEPT ![x] = NoWrite]
  /\ retried' = retried \ {x}
  /\ UNCHANGED <<coordVars, robbed, state, read_set, owner, store, rlog, txn_id_map,
                 last_applied, applying, life>>

\* The rest of Write: log and buffer, unless the transaction is not active by now:
\* then all its locks go, also those of a transaction that is prepared.
WriteBuffer(x) ==
  /\ writing[x] # NoWrite
  /\ IF state[Begun(x)] = "active"
     THEN Buffer(x) /\ UNCHANGED <<owner, robbed>>
     ELSE /\ ReleaseAll(Begun(x))
          /\ robbed' = IF state[Begun(x)] = "prepared" \/ applying.id = Begun(x)
                         THEN robbed \cup {x} ELSE robbed
          /\ UNCHANGED <<write_set, wal>>
  /\ writing' = [writing EXCEPT ![x] = NoWrite]
  /\ retried' = retried \ {x}
  /\ UNCHANGED <<coordVars, state, read_set, store, rlog, txn_id_map, last_applied,
                 applying, life>>

\* The call misses its deadline and the coordinator sends it again; the second
\* handler finds the lock taken by its own transaction and returns, while the
\* first has yet to look at txns_.  The bound: one such call at a time, an
\* OP_WRITE, before any transaction was robbed and before a restart.
WriteRetried(x) ==
  /\ writing[x] # NoWrite /\ pc[x] = "active" /\ state[Begun(x)] = "active"
  /\ retried = {} /\ robbed = {} /\ life = 0 /\ ~writing[x].del
  /\ Cardinality(Written) + Cardinality({y \in Txn : writing[y] # NoWrite}) < MaxWrites
  /\ Buffer(x)
  /\ retried' = {x}
  /\ UNCHANGED <<coordVars, writing, robbed, state, read_set, owner, store, rlog,
                 txn_id_map, last_applied, applying, life>>

\* The coordinator's Abort before the vote, also while a Write that missed its
\* deadline is still going on.
Abort(x) ==
  /\ pc[x] = "active"
  /\ AbortTxn(Begun(x))
  /\ Forget(x)
  /\ Become(x, "aborted")
  /\ UNCHANGED <<clock, snapshot_ts, commit_ts, writeVars, store, rlog, last_applied,
                 applying, life>>

-----------------------------------------------------------------------------
(* Prepare *)

\* Fault: the commit timestamp is that of the snapshot.
CallPrepare_AtSnapshot(x) ==
  /\ pc[x] = "active" /\ Answered(x)
  /\ commit_ts' = [commit_ts EXCEPT ![x] = snapshot_ts[x]]
  /\ Become(x, "preparing")
  /\ UNCHANGED <<clock, snapshot_ts, writeVars, txnVars, owner, diskVars, txn_id_map,
                 last_applied, applying, life>>

\* The coordinator's Commit takes a timestamp and calls Prepare.
CallPrepare(x) ==
  /\ pc[x] = "active" /\ Answered(x)
  /\ clock' = clock + 1
  /\ commit_ts' = [commit_ts EXCEPT ![x] = clock]
  /\ Become(x, "preparing")
  /\ UNCHANGED <<snapshot_ts, writeVars, txnVars, owner, diskVars, txn_id_map,
                 last_applied, applying, life>>

\* Fault: the reads are validated at the snapshot they were made at.
ValidateReadSet_AtSnapshot(x) ==
  \A r \in read_set[x] : \E v \in Visible(r.key, snapshot_ts[x]) : v.ts = r.ts

\* ValidateReadSet: at the commit timestamp every key still shows the version
\* that was read.
ValidateReadSet(x) ==
  \A r \in read_set[x] : \E v \in Visible(r.key, commit_ts[x]) : v.ts = r.ts

\* TxnManager::Prepare succeeds.
Prepare(x) ==
  /\ pc[x] = "preparing"
  /\ state[Begun(x)] = "active" /\ ValidateReadSet(x)
  /\ state' = [state EXCEPT ![Begun(x)] = "prepared"]
  /\ Log(Begun(x), "PREPARE")
  /\ Become(x, "prepared")
  /\ UNCHANGED <<clock, snapshot_ts, commit_ts, writeVars, write_set, read_set, owner,
                 store, rlog, txn_id_map, last_applied, applying, life>>

\* It finds a conflict, or the transaction is gone: the vote is no.
PrepareFails(x) ==
  /\ pc[x] = "preparing"
  /\ state[Begun(x)] # "active" \/ ~ValidateReadSet(x)
  /\ AbortTxn(Begun(x))
  /\ Forget(x)
  /\ Become(x, "refused")
  /\ UNCHANGED <<clock, snapshot_ts, commit_ts, writeVars, store, rlog, last_applied,
                 applying, life>>

\* The write set goes to the replicated log as TXN_PREPARE_BATCH.
ProposePrepare(x) ==
  /\ pc[x] = "prepared"
  /\ rlog' = Append(rlog, [op |-> "prepare", txn |-> x, writes |-> write_set[Begun(x)]])
  /\ Become(x, "proposed")
  /\ UNCHANGED <<clock, snapshot_ts, commit_ts, writeVars, txnVars, owner, store, wal,
                 txn_id_map, last_applied, applying, life>>

InLog(op, x) == {n \in DOMAIN rlog : rlog[n].op = op /\ rlog[n].txn = x}
AppliedUpTo(op, x) == \E n \in InLog(op, x) : n <= last_applied

\* The entry is applied in time: the vote is yes.
Vote(x) ==
  /\ pc[x] = "proposed"
  /\ AppliedUpTo("prepare", x)
  /\ Become(x, "voted")
  /\ UNCHANGED <<clock, snapshot_ts, commit_ts, writeVars, txnVars, owner, diskVars,
                 txn_id_map, last_applied, applying, life>>

\* Propose fails or the wait for the entry ends without it: the transaction is
\* aborted here and the vote is no.  The entry may be applied before or later.
PrepareNotReplicated(x) ==
  /\ pc[x] \in {"prepared", "proposed"}
  /\ AbortTxn(Begun(x))
  /\ Forget(x)
  /\ Become(x, "refused")
  /\ UNCHANGED <<clock, snapshot_ts, commit_ts, writeVars, store, rlog, last_applied,
                 applying, life>>

\* The coordinator's Commit of a transaction that all have voted for goes to the
\* replicated log.
Commit(x) ==
  /\ pc[x] = "voted"
  /\ rlog' = Append(rlog, [op |-> "commit", txn |-> x, writes |-> <<>>])
  /\ Become(x, "committing")
  /\ UNCHANGED <<clock, snapshot_ts, commit_ts, writeVars, txnVars, owner, store, wal,
                 txn_id_map, last_applied, applying, life>>

\* The entry is applied and the client learns of the commit.
CommitReturns(x) ==
  /\ pc[x] = "committing"
  /\ AppliedUpTo("commit", x)
  /\ Become(x, "committed")
  /\ UNCHANGED <<clock, snapshot_ts, commit_ts, writeVars, txnVars, owner, diskVars,
                 txn_id_map, last_applied, applying, life>>

\* The coordinator's Abort after this shard or another one voted no.
AbortVoted(x) ==
  /\ pc[x] \in {"voted", "refused"}
  /\ rlog' = Append(rlog, [op |-> "abort", txn |-> x, writes |-> <<>>])
  /\ Become(x, "aborted")
  /\ UNCHANGED <<clock, snapshot_ts, commit_ts, writeVars, txnVars, owner, store, wal,
                 txn_id_map, last_applied, applying, life>>

-----------------------------------------------------------------------------
(* The thread that applies the replicated log *)

NextEntry(op) ==
  /\ last_applied < Len(rlog)
  /\ rlog[last_applied + 1].op = op

\* A prepared transaction with these writes and no locks.
ImportPreparedTxn(i, writes) ==
  /\ state' = [state EXCEPT ![i] = "prepared"]
  /\ write_set' = [write_set EXCEPT ![i] = writes]
  /\ wal' = [wal EXCEPT ![i] = [last |-> "PREPARE", writes |-> writes]]

\* TXN_PREPARE_BATCH of a transaction the state machine knows changes nothing; one
\* it does not know is imported.
ApplyPrepare ==
  /\ NextEntry("prepare")
  /\ last_applied' = last_applied + 1
  /\ LET e == rlog[last_applied + 1] IN
     IF txn_id_map[e.txn] # NoId
     THEN UNCHANGED <<state, write_set, wal, txn_id_map>>
     ELSE /\ ImportPreparedTxn(Imported(e.txn), e.writes)
          /\ txn_id_map' = [txn_id_map EXCEPT ![e.txn] = Imported(e.txn)]
  /\ UNCHANGED <<coordVars, writeVars, read_set, owner, store, rlog, applying, life>>

\* TXN_COMMIT: TxnManager::Commit takes the transaction out of txns_ ...
ApplyCommit ==
  /\ NextEntry("commit")
  /\ applying = NoCommit
  /\ LET i == txn_id_map[rlog[last_applied + 1].txn] IN
     IF i # NoId /\ state[i] = "prepared"
     THEN /\ state' = [state EXCEPT ![i] = "none"]
          /\ applying' = [id |-> i, next |-> 1]
          /\ UNCHANGED <<last_applied, txn_id_map>>
     ELSE /\ last_applied' = last_applied + 1
          /\ Forget(rlog[last_applied + 1].txn)
          /\ UNCHANGED <<state, applying>>
  /\ UNCHANGED <<coordVars, writeVars, write_set, read_set, owner, diskVars, life>>

\* ... ApplyWrites puts its writes into the store one by one ...
ApplyWrite ==
  /\ applying # NoCommit
  /\ LET i == applying.id
         n == applying.next
     IN
     /\ n <= Len(write_set[i])
     /\ store' = Put(store, VersionOf(write_set[i][n], commit_ts[i[1]], n))
     /\ applying' = [applying EXCEPT !.next = n + 1]
  /\ UNCHANGED <<coordVars, writeVars, txnVars, owner, wal, rlog, txn_id_map,
                 last_applied, life>>

\* ... and the COMMIT record is synced before the locks are released.
CommitDone ==
  /\ applying # NoCommit
  /\ applying.next > Len(write_set[applying.id])
  /\ Log(applying.id, "COMMIT")
  /\ ReleaseAll(applying.id)
  /\ Forget(applying.id[1])
  /\ last_applied' = last_applied + 1
  /\ write_set' = [write_set EXCEPT ![applying.id] = <<>>]
  /\ applying' = NoCommit
  /\ UNCHANGED <<coordVars, writeVars, state, read_set, store, rlog, life>>

\* TXN_ABORT.
ApplyAbort ==
  /\ NextEntry("abort")
  /\ LET x == rlog[last_applied + 1].txn IN
     /\ IF txn_id_map[x] = NoId THEN UNCHANGED <<txnVars, wal, owner>>
                                ELSE AbortTxn(txn_id_map[x])
     /\ Forget(x)
  /\ last_applied' = last_applied + 1
  /\ UNCHANGED <<coordVars, writeVars, store, rlog, applying, life>>

-----------------------------------------------------------------------------
(* Restart *)

\* Fault: of several writes to a key the first one is left.
Replayed_First(i) ==
  LET ws == wal[i].writes
  IN  {VersionOf(ws[n], commit_ts[i[1]], n) :
         n \in {m \in DOMAIN ws : \A l \in DOMAIN ws : ws[l].key = ws[m].key => m <= l}}

\* The versions that replaying a committed id leaves in the store: of several
\* writes to a key the last one.
Replayed(i) ==
  LET ws == wal[i].writes
  IN  {VersionOf(ws[n], commit_ts[i[1]], n) :
         n \in {m \in DOMAIN ws : \A l \in DOMAIN ws : ws[l].key = ws[m].key => l <= m}}

\* Fault: what is only prepared is replayed as well.
Durable_Prepared == {i \in Id : wal[i].last \in {"COMMIT", "PREPARE"}}

\* The ids whose writes Recover replays, and those it makes PREPARED again.
Durable == {i \in Id : wal[i].last = "COMMIT"}
InDoubt == {i \in Id : wal[i].last = "PREPARE"}

\* Recover waits for a lock that it has given to another id: it blocks for days.
RecoverBlocks ==
  \E i, j \in InDoubt : i # j /\ KeysOf(wal[i].writes) \cap KeysOf(wal[j].writes) # {}

\* Fault: the locks of prepared transactions are not taken again.
RecoveredOwner_None(k) == NoId

\* Recover takes the locks of every transaction in doubt.
RecoveredOwner(k) ==
  LET writers == {i \in InDoubt : k \in KeysOf(wal[i].writes)}
  IN  IF writers = {} THEN NoId ELSE CHOOSE i \in writers : TRUE

\* The process dies; versions that the store has not synced may be gone.  Then
\* TxnManager::Recover replays the WAL, and Raft will apply its log again from
\* the first entry.
Restart ==
  /\ life < Restarts
  /\ ~RecoverBlocks
  /\ life' = life + 1
  /\ \E lost \in SUBSET {v \in store : v.ts > 0} :
       LET redo == UNION {Replayed(i) : i \in Durable}
       IN  store' = redo \cup {v \in store \ lost :
                                 \A w \in redo : w.key # v.key \/ w.ts # v.ts}
  /\ state' = [i \in Id |-> IF i \in InDoubt THEN "prepared" ELSE "none"]
  /\ write_set' = [i \in Id |-> IF i \in InDoubt THEN wal[i].writes ELSE <<>>]
  /\ owner' = [k \in Key |-> RecoveredOwner(k)]
  /\ txn_id_map' = [x \in Txn |-> NoId]
  /\ writing' = [x \in Txn |-> NoWrite]
  /\ retried' = {}
  /\ last_applied' = 0
  /\ applying' = NoCommit
  /\ pc' = [x \in Txn |->
              IF pc[x] \in {"active", "preparing", "prepared", "proposed"} THEN "refused"
                                                                         ELSE pc[x]]
  /\ wal' = [i \in Id |-> IF i \in InDoubt \cup Durable THEN wal[i] ELSE NoRecords]
  /\ UNCHANGED <<clock, snapshot_ts, commit_ts, robbed, read_set, rlog>>

-----------------------------------------------------------------------------
Next ==
  \/ \E x \in Txn :
       \/ Begin(x) \/ Abort(x)
       \/ ScanAll(x) \/ \E k \in Key : Read(x, k)
       \/ \E w \in Write : WriteLocked(x, w) \/ WriteTimedOut(x, w)
       \/ WriteBuffer(x) \/ WriteRetried(x)
       \/ CallPrepare(x) \/ Prepare(x) \/ PrepareFails(x)
       \/ ProposePrepare(x) \/ Vote(x) \/ PrepareNotReplicated(x)
       \/ Commit(x) \/ CommitReturns(x) \/ AbortVoted(x)
  \/ ApplyPrepare \/ ApplyCommit \/ ApplyWrite \/ CommitDone \/ ApplyAbort
  \/ Restart

Spec == Init /\ [][Next]_vars

-----------------------------------------------------------------------------
(* Properties *)

\* Every variable holds a value of the kind the code keeps there, and what a
\* transaction has read is older than its snapshot.
TypeOK ==
  /\ clock \in Nat
  /\ snapshot_ts \in [Txn -> Nat] /\ commit_ts \in [Txn -> Nat]
  /\ pc \in [Txn -> Phase]
  /\ writing \in [Txn -> Write \cup {NoWrite}]
  /\ retried \in SUBSET Txn /\ robbed \in SUBSET Txn
  /\ state \in [Id -> {"none", "active", "prepared"}]
  /\ write_set \in [Id -> Seq(Write)]
  /\ read_set \in [Txn -> SUBSET [key : Key, ts : Nat]]
  /\ \A x \in Txn : \A r \in read_set[x] : r.ts < snapshot_ts[x]
  /\ owner \in [Key -> Id \cup {NoId}]
  /\ store \subseteq Version
  /\ wal \in [Id -> Records]
  /\ txn_id_map \in [Txn -> Id \cup {NoId}]
  /\ rlog \in Seq(Entry)
  /\ last_applied \in 0..Len(rlog)
  /\ applying \in [id : Id \cup {NoId}, next : Nat]
  /\ life \in 0..Restarts

CommittedTxns == {x \in Txn : InLog("commit", x) # {}}
WritesOf(x) == rlog[CHOOSE n \in InLog("prepare", x) : TRUE].writes
Wrote(x, k) == InLog("prepare", x) # {} /\ k \in KeysOf(WritesOf(x))

\* Some TxnManager of the replica has finished the Commit of x.
HasCommitRecord(x) == \E i \in Id : i[1] = x /\ wal[i].last = "COMMIT"

\* Strict two-phase locking: from its yes vote to its COMMIT record a transaction
\* owns the locks of the keys it wrote, also when the process restarts between
\* the two (Write, Recover, ImportPreparedTxn).  One thing takes them from it: an
\* attempt of a Write that was retried and finds the transaction prepared.
LockedUntilCommitted ==
  \A x \in Txn \ robbed :
    pc[x] \in {"voted", "committing"} /\ ~HasCommitRecord(x) =>
      \A k \in KeysOf(WritesOf(x)) : owner[k] # NoId /\ owner[k][1] = x

\* A lock belongs to a transaction that txns_ knows, that Commit is working on, or
\* whose Write has yet to look at txns_: no early return forgets one.
NoLeakedLocks ==
  \A k \in Key :
    LET i == owner[k] IN
    i # NoId => \/ state[i] # "none"
                \/ applying.id = i
                \/ i = Begun(i[1]) /\ writing[i[1]] # NoWrite

\* No lost update: between the version a committed transaction read of a key it
\* then wrote and its own version no version that reached the store lies
\* (ValidateReadSet at the commit timestamp under the lock of the key), unless a
\* transaction was robbed of its locks between its validation and its commit.
NoLostUpdate ==
  robbed = {} => \A x \in CommittedTxns : \A y \in {z \in Txn : HasCommitRecord(z)} : \A r \in read_set[x] :
    Wrote(x, r.key) /\ Wrote(y, r.key) =>
      ~(r.ts < commit_ts[y] /\ commit_ts[y] < commit_ts[x])

\* The store holds versions of transactions that the replicated log commits and of
\* no others, whatever Recover replays.
OnlyCommittedIsStored ==
  \A v \in store : v.ts > 0 =>
    \E x \in CommittedTxns : v.ts = commit_ts[x] /\ Wrote(x, v.key)

FinalVersions(x) ==
  LET ws == WritesOf(x)
  IN  {VersionOf(ws[n], commit_ts[x], n) :
         n \in {m \in DOMAIN ws : \A l \in DOMAIN ws : ws[l].key = ws[m].key => l <= m}}

\* What a client was told is committed is in the store, after a restart too and
\* before the replicated log is applied again; only while that happens to the
\* transaction itself may an earlier write of it show (Commit, Recover).
CommittedSurvives ==
  \A x \in Txn :
    pc[x] = "committed" /\ (applying # NoCommit => applying.id[1] # x) =>
      FinalVersions(x) \subseteq store

\* Outside recovery the versions of a key appear in the order of their
\* timestamps, so the history of a key is only extended at its end (the commit
\* timestamp is taken while the locks are held, and Commit keeps them until the
\* writes are in the store), unless a transaction was robbed of its locks.
VersionsInOrder ==
  [][life' = life /\ robbed = {} =>
       \A v \in store' \ store : \A w \in store :
         w.key = v.key => w.ts < v.ts \/ \E u \in store : u.key = v.key /\ u.ts = v.ts]_vars

-----------------------------------------------------------------------------
(* What the documentation says and the code does not do *)

\* y must come after x in an equal serial execution: y read or overwrote what x
\* wrote, or overwrote what x read.
DependsOn(x, y) ==
  /\ x # y
  /\ \/ \E r \in read_set[y] : Wrote(x, r.key) /\ r.ts = commit_ts[x]
     \/ \E r \in read_set[x] : Wrote(y, r.key) /\ r.ts < commit_ts[y]
     \/ \E k \in Key : Wrote(x, k) /\ Wrote(y, k) /\ commit_ts[x] < commit_ts[y]

\* The committed transactions are serializable: their dependencies have no cycle
\* (Prepare validates the read set, Write locks).
Serializable ==
  \A S \in SUBSET CommittedTxns : S # {} =>
    \E y \in S : \A x \in S : ~DependsOn(y, x)

\* When the replicated log is applied, a transaction that it commits or aborts
\* owns no lock (Commit and Abort release the locks).
DecidedReleasesLocks ==
  last_applied = Len(rlog) /\ applying = NoCommit =>
    \A k \in Key : owner[k] # NoId =>
      InLog("commit", owner[k][1]) = {} /\ InLog("abort", owner[k][1]) = {}
=============================================================================
