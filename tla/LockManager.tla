----------------------------- MODULE LockManager -----------------------------
(***************************************************************************)
(* The write-lock table of one replica: txn/lock_manager.cpp.              *)
(*                                                                         *)
(* Every method of LockManager runs under mu_.  Acquire gives mu_ up while *)
(* it waits on the entry's condition variable.  ReleaseAll takes mu_       *)
(* twice: it moves the transaction's list of lock keys out in a first      *)
(* critical section and releases them in a second one.  An action below is *)
(* one critical section, except that the loop of ReleaseAll is one action  *)
(* per key with `mu' held by the looping thread, so nothing else runs      *)
(* between its iterations.                                                 *)
(*                                                                         *)
(* Abstraction: a (table_id, key) pair is a member of Key.  The list       *)
(* txn_locks_[t] is kept as the number of occurrences of each key, because *)
(* no method looks at the order of the list.  An entry that is not in      *)
(* locks_ is the same as the default entry (no owner, count 0, no queue).  *)
(***************************************************************************)
EXTENDS Naturals, Sequences, FiniteSets

CONSTANTS
  Thread,        \* server threads that call the lock manager
  Txn,           \* transaction ids
  Key,           \* lock keys
  TxnOf,         \* the transaction a thread works for
  NoTxn,         \* owner = 0: the lock is free
  NoKey,         \* a thread that waits for nothing
  NoThread,      \* mu_ is not held across steps
  MaxHold,       \* bound on re-entrant acquisitions that TLC explores
  MaxShared      \* bound on the keys that two threads of one transaction share

ASSUME TxnOfAssumption == TxnOf \in [Thread -> Txn]
ASSUME ThreadAssumption == IsFiniteSet(Thread)
ASSUME NoneAssumption ==
  NoTxn \notin Txn /\ NoKey \notin Key /\ NoThread \notin Thread
ASSUME BoundAssumption == MaxHold \in Nat /\ MaxShared \in Nat

VARIABLES
  owner,       \* LockEntry::owner
  hold_count,  \* LockEntry::hold_count
  wait_queue,  \* LockEntry::wait_queue
  txn_locks,   \* txn_locks_, as a count of each key
  pc,          \* where each thread is
  wants,       \* the key a waiting thread is waiting for
  keys,        \* the local list `keys' of ReleaseAll, as counts
  mu,          \* the thread that holds mu_ across steps, or NoThread
  shared       \* history: keys that two threads of one transaction have waited
               \* for at once (a write that was retried while its first call
               \* was still waiting)

entryVars == <<owner, hold_count, wait_queue>>
threadVars == <<pc, wants, keys, mu>>
vars == <<entryVars, txn_locks, threadVars, shared>>

NoKeys == [k \in Key |-> 0]

Init ==
  /\ owner = [k \in Key |-> NoTxn]
  /\ hold_count = [k \in Key |-> 0]
  /\ wait_queue = [k \in Key |-> <<>>]
  /\ txn_locks = [t \in Txn |-> NoKeys]
  /\ pc = [th \in Thread |-> "idle"]
  /\ wants = [th \in Thread |-> NoKey]
  /\ keys = [th \in Thread |-> NoKeys]
  /\ mu = NoThread
  /\ shared = {}

-----------------------------------------------------------------------------
(* Acquire *)

Waiting(th, k) == wants[th] = k

Return(th) ==
  /\ pc' = [pc EXCEPT ![th] = "idle"]
  /\ wants' = [wants EXCEPT ![th] = NoKey]

MayAcquire(th, k) ==
  /\ mu = NoThread
  /\ pc[th] = "idle"

Record(t, k) == txn_locks' = [txn_locks EXCEPT ![t][k] = @ + 1]

\* Fault: the owner's second Acquire is recorded but not counted.
AcquireReentrant_NoCount(th, k) ==
  /\ MayAcquire(th, k)
  /\ owner[k] = TxnOf[th]
  /\ txn_locks[TxnOf[th]][k] < MaxHold
  /\ Record(TxnOf[th], k)
  /\ UNCHANGED <<entryVars, threadVars, shared>>

\* Acquire by the transaction that already owns the lock.
AcquireReentrant(th, k) ==
  /\ MayAcquire(th, k)
  /\ owner[k] = TxnOf[th]
  /\ hold_count[k] < MaxHold /\ txn_locks[TxnOf[th]][k] < MaxHold
  /\ hold_count' = [hold_count EXCEPT ![k] = @ + 1]
  /\ Record(TxnOf[th], k)
  /\ UNCHANGED <<owner, wait_queue, threadVars, shared>>

\* Acquire of a free lock.
AcquireFree(th, k) ==
  /\ MayAcquire(th, k)
  /\ owner[k] = NoTxn
  /\ owner' = [owner EXCEPT ![k] = TxnOf[th]]
  /\ hold_count' = [hold_count EXCEPT ![k] = 1]
  /\ Record(TxnOf[th], k)
  /\ UNCHANGED <<wait_queue, threadVars, shared>>

\* Acquire of a lock another transaction owns: join the queue and wait.  A bound:
\* once threads of one transaction have met in more than MaxShared queues nobody
\* joins another, because entries may be left there and grow in number for ever.
AcquireEnqueue(th, k) ==
  /\ MayAcquire(th, k)
  /\ Cardinality(shared) <= MaxShared
  /\ owner[k] \notin {NoTxn, TxnOf[th]}
  /\ wait_queue' = [wait_queue EXCEPT ![k] = Append(@, TxnOf[th])]
  /\ pc' = [pc EXCEPT ![th] = "waiting"]
  /\ wants' = [wants EXCEPT ![th] = k]
  /\ shared' = IF \E o \in Thread : TxnOf[o] = TxnOf[th] /\ Waiting(o, k)
                 THEN shared \cup {k} ELSE shared
  /\ UNCHANGED <<owner, hold_count, txn_locks, keys, mu>>

\* Fault: any wake-up counts as a grant.
AcquireGranted_AnyWake(th) ==
  /\ mu = NoThread
  /\ pc[th] = "waiting"
  /\ Record(TxnOf[th], wants[th])
  /\ Return(th)
  /\ UNCHANGED <<entryVars, keys, mu, shared>>

\* A waiting thread sees, on a wake-up or at its deadline, that the lock was
\* handed to its transaction.
AcquireGranted(th) ==
  /\ mu = NoThread
  /\ pc[th] = "waiting"
  /\ LET k == wants[th] IN
     /\ owner[k] = TxnOf[th] /\ hold_count[k] > 0
     /\ Record(TxnOf[th], k)
  /\ Return(th)
  /\ UNCHANGED <<entryVars, keys, mu, shared>>

\* Fault: the queue loses its front, whoever that is.
WithoutFirst_PopFront(q, t) == IF q = <<>> THEN q ELSE Tail(q)

\* The queue without its first occurrence of t.
WithoutFirst(q, t) ==
  LET at == {i \in DOMAIN q : q[i] = t}
  IN  IF at = {} THEN q
      ELSE LET i == CHOOSE i \in at : \A j \in at : i <= j
           IN  SubSeq(q, 1, i - 1) \o SubSeq(q, i + 1, Len(q))

\* Fault: a thread that times out waits again instead of giving up.
AcquireTimedOut_WaitsAgain(th) ==
  /\ mu = NoThread
  /\ pc[th] = "waiting"
  /\ LET k == wants[th] IN
     /\ ~(owner[k] = TxnOf[th] /\ hold_count[k] > 0)
     /\ wait_queue' = [wait_queue EXCEPT
                         ![k] = Append(WithoutFirst(@, TxnOf[th]), TxnOf[th])]
  /\ UNCHANGED <<owner, hold_count, txn_locks, threadVars, shared>>

\* The deadline passes and the lock is not ours: leave the queue, TimedOut.
AcquireTimedOut(th) ==
  /\ mu = NoThread
  /\ pc[th] = "waiting"
  /\ LET k == wants[th] IN
     /\ ~(owner[k] = TxnOf[th] /\ hold_count[k] > 0)
     /\ wait_queue' = [wait_queue EXCEPT ![k] = WithoutFirst(@, TxnOf[th])]
  /\ Return(th)
  /\ UNCHANGED <<owner, hold_count, txn_locks, keys, mu, shared>>

-----------------------------------------------------------------------------
(* Release and ReleaseAll *)

\* Fault: the lock goes to the back of the queue.
ReleaseInternal_Lifo(k) ==
  \/ /\ hold_count[k] > 1
     /\ hold_count' = [hold_count EXCEPT ![k] = @ - 1]
     /\ UNCHANGED <<owner, wait_queue>>
  \/ /\ hold_count[k] = 1
     /\ wait_queue[k] = <<>>
     /\ owner' = [owner EXCEPT ![k] = NoTxn]
     /\ hold_count' = [hold_count EXCEPT ![k] = 0]
     /\ UNCHANGED wait_queue
  \/ /\ hold_count[k] = 1
     /\ wait_queue[k] # <<>>
     /\ owner' = [owner EXCEPT ![k] = wait_queue[k][Len(wait_queue[k])]]
     /\ wait_queue' = [wait_queue EXCEPT ![k] = SubSeq(@, 1, Len(@) - 1)]
     /\ UNCHANGED hold_count

\* ReleaseInternal: drop one hold; the last one hands the lock to the front
\* of the queue.
ReleaseInternal(k) ==
  \/ /\ hold_count[k] = 0
     /\ UNCHANGED entryVars
  \/ /\ hold_count[k] > 1
     /\ hold_count' = [hold_count EXCEPT ![k] = @ - 1]
     /\ UNCHANGED <<owner, wait_queue>>
  \/ /\ hold_count[k] = 1
     /\ wait_queue[k] = <<>>
     /\ owner' = [owner EXCEPT ![k] = NoTxn]
     /\ hold_count' = [hold_count EXCEPT ![k] = 0]
     /\ UNCHANGED wait_queue
  \/ /\ hold_count[k] = 1
     /\ wait_queue[k] # <<>>
     /\ owner' = [owner EXCEPT ![k] = Head(wait_queue[k])]
     /\ wait_queue' = [wait_queue EXCEPT ![k] = Tail(@)]
     /\ UNCHANGED hold_count

\* Fault: Release does not look for the key in txn_locks_.
Release_Unchecked(th, k) ==
  /\ mu = NoThread
  /\ pc[th] = "idle"
  /\ owner[k] = TxnOf[th]
  /\ txn_locks' = [txn_locks EXCEPT ![TxnOf[th]][k] = @ - 1]
  /\ ReleaseInternal(k)
  /\ UNCHANGED <<threadVars, shared>>

\* Release of one key that the transaction owns and has recorded; every other
\* call returns without effect.
Release(th, k) ==
  /\ mu = NoThread
  /\ pc[th] = "idle"
  /\ owner[k] = TxnOf[th]
  /\ txn_locks[TxnOf[th]][k] > 0
  /\ txn_locks' = [txn_locks EXCEPT ![TxnOf[th]][k] = @ - 1]
  /\ ReleaseInternal(k)
  /\ UNCHANGED <<threadVars, shared>>

\* First critical section of ReleaseAll: move the list out.
ReleaseAllMove(th) ==
  /\ mu = NoThread
  /\ pc[th] = "idle"
  /\ txn_locks[TxnOf[th]] # NoKeys
  /\ keys' = [keys EXCEPT ![th] = txn_locks[TxnOf[th]]]
  /\ txn_locks' = [txn_locks EXCEPT ![TxnOf[th]] = NoKeys]
  /\ pc' = [pc EXCEPT ![th] = "moved"]
  /\ UNCHANGED <<entryVars, wants, mu, shared>>

\* Second critical section: take mu_ again ...
ReleaseAllLock(th) ==
  /\ mu = NoThread
  /\ pc[th] = "moved"
  /\ mu' = th
  /\ UNCHANGED <<entryVars, txn_locks, pc, wants, keys, shared>>

\* ... release every key of the list that the transaction still owns ...
ReleaseAllKey(th, k) ==
  /\ mu = th
  /\ keys[th][k] > 0
  /\ keys' = [keys EXCEPT ![th][k] = @ - 1]
  /\ IF owner[k] = TxnOf[th] THEN ReleaseInternal(k) ELSE UNCHANGED entryVars
  /\ UNCHANGED <<txn_locks, pc, wants, mu, shared>>

\* ... and return.
ReleaseAllDone(th) ==
  /\ mu = th
  /\ keys[th] = NoKeys
  /\ mu' = NoThread
  /\ pc' = [pc EXCEPT ![th] = "idle"]
  /\ UNCHANGED <<entryVars, txn_locks, wants, keys, shared>>

-----------------------------------------------------------------------------
Next ==
  \E th \in Thread :
    \/ \E k \in Key :
         \/ AcquireReentrant(th, k)
         \/ AcquireFree(th, k)
         \/ AcquireEnqueue(th, k)
         \/ Release(th, k)
         \/ ReleaseAllKey(th, k)
    \/ AcquireGranted(th)
    \/ AcquireTimedOut(th)
    \/ ReleaseAllMove(th)
    \/ ReleaseAllLock(th)
    \/ ReleaseAllDone(th)

\* A thread inside a call keeps running: notify_all and the deadline wake a
\* waiter, and the rest is straight-line code.  Every step needs mu_, which
\* other threads take and give up; a thread that contends for it is assumed to
\* get it eventually (strong fairness).  Nothing makes a client start a call.
Fairness ==
  \A th \in Thread :
    /\ SF_vars(AcquireGranted(th) \/ AcquireTimedOut(th))
    /\ SF_vars(ReleaseAllLock(th))
    /\ WF_vars(ReleaseAllDone(th) \/ \E k \in Key : ReleaseAllKey(th, k))

Spec == Init /\ [][Next]_vars
FairSpec == Spec /\ Fairness

-----------------------------------------------------------------------------
(* Properties *)

\* Every field of the table and of the threads has its type: no count is taken
\* below zero by a release too many.
TypeOK ==
  /\ owner \in [Key -> Txn \cup {NoTxn}]
  /\ hold_count \in [Key -> Nat]
  /\ wait_queue \in [Key -> Seq(Txn)]
  /\ txn_locks \in [Txn -> [Key -> Nat]]
  /\ pc \in [Thread -> {"idle", "waiting", "moved"}]
  /\ wants \in [Thread -> Key \cup {NoKey}]
  /\ keys \in [Thread -> [Key -> Nat]]
  /\ mu \in Thread \cup {NoThread}

\* Mutual exclusion: a transaction whose Acquire returned OK and that has not
\* started to release owns the lock, so no two transactions hold a key at
\* once.  txn_locks_ (what callers were told) is related to LockEntry::owner.
\* Not covered is a key that two threads of one transaction have waited for: the
\* hand-over wakes both and counts one.
RecordedIsOwned ==
  \A t \in Txn, k \in Key \ shared : txn_locks[t][k] > 0 => owner[k] = t

\* What transaction t may still give back of lock k: recorded acquisitions,
\* those a ReleaseAll in progress has moved out (one pair for each), and one for
\* each thread whose wait is not over.
Moved(t, k) ==
  UNION {{th} \X (1..keys[th][k]) : th \in {x \in Thread : TxnOf[x] = t}}

Waiters(t, k) == {th \in Thread : TxnOf[th] = t /\ Waiting(th, k)}

Claims(t, k) ==
  txn_locks[t][k] + Cardinality(Moved(t, k)) + Cardinality(Waiters(t, k))

\* hold_count is exactly the number of releases the owner still owes.  A
\* smaller count frees the lock under its owner, a larger one leaks it.  Not
\* covered is a key that two threads of one transaction have waited for: the
\* second entry in the queue is handed the lock although nobody waits for it
\* any more, and when the transaction is over nobody will ever release it.
HoldCountMatchesClaims ==
  \A k \in Key \ shared :
    IF owner[k] = NoTxn THEN hold_count[k] = 0
                        ELSE hold_count[k] = Claims(owner[k], k)

\* The queue and the threads inside Acquire agree.  A thread that is blocked
\* keeps a reference to its LockEntry, which must not be erased: its transaction
\* is queued there or already owns it.  And every queued transaction has a
\* thread waiting there: a hand-over never goes to one that stopped waiting, if
\* it has not waited there twice and was woken twice.
QueueMatchesWaiters ==
  \A k \in Key :
    /\ \A th \in Thread : Waiting(th, k) =>
         owner[k] = TxnOf[th] \/ \E i \in DOMAIN wait_queue[k] : wait_queue[k][i] = TxnOf[th]
    /\ k \notin shared => \A i \in DOMAIN wait_queue[k] :
         \E th \in Thread : TxnOf[th] = wait_queue[k][i] /\ Waiting(th, k)

\* Locks are handed over in arrival order and nobody overtakes the queue: a
\* new owner is the front of the queue, or the queue was empty.
HandOverIsFifo ==
  [][\A k \in Key :
       owner'[k] \notin {owner[k], NoTxn} =>
         \/ wait_queue[k] = <<>>
         \/ owner[k] # NoTxn /\ owner'[k] = Head(wait_queue[k])]_vars

\* Every Acquire returns, also when transactions wait for each other in a
\* cycle: the deadline breaks the deadlock.
AcquireReturns ==
  \A th \in Thread : pc[th] = "waiting" ~> pc[th] = "idle"
=============================================================================
