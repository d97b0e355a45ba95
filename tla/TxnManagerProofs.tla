-------------------------- MODULE TxnManagerProofs --------------------------
(***************************************************************************)
(* Proofs about TxnManager, for every set of transactions and keys and     *)
(* every bound.                                                            *)
(***************************************************************************)
EXTENDS TxnManager, TLAPS

\* A leaf is tried with SMT and then with Zenon, unless it names its prover.
USE SMTT(30), ZenonT(30)

\* Commit is at work on i, or will be: the transaction is prepared.
Busy(i) == state[i] = "prepared" \/ applying.id = i

\* The types of the variables that the ids of a transaction depend on.
Types ==
  /\ pc \in [Txn -> Phase] /\ writing \in [Txn -> Write \cup {NoWrite}]
  /\ state \in [Id -> {"none", "active", "prepared"}]
  /\ write_set \in [Id -> Seq(Write)] /\ wal \in [Id -> Records]
  /\ owner \in [Key -> Id \cup {NoId}]
  /\ txn_id_map \in [Txn -> Id \cup {NoId}]
  /\ rlog \in Seq(Entry) /\ last_applied \in 0..Len(rlog)
  /\ applying \in [id : Id \cup {NoId}, next : Nat]
  /\ life \in 0..Restarts

\* What the replicated log says of a transaction and how far it is.
LogOK ==
  /\ \A n \in DOMAIN rlog :
       /\ rlog[n].op = "prepare" =>
            pc[rlog[n].txn] \notin {"new", "active", "preparing", "prepared"}
       /\ rlog[n].op = "commit" => pc[rlog[n].txn] \in {"committing", "committed"}
       /\ rlog[n].op = "abort" => pc[rlog[n].txn] = "aborted"
  /\ \A m, n \in DOMAIN rlog :
       rlog[m].op = "prepare" /\ rlog[n].op = "prepare" /\ rlog[m].txn = rlog[n].txn => m = n
  /\ \A x \in Txn : pc[x] \in {"proposed", "voted", "committing", "committed"} =>
       \E n \in DOMAIN rlog : rlog[n].op = "prepare" /\ rlog[n].txn = x
  /\ \A x \in Txn : pc[x] \in {"committing", "committed"} =>
       \E n \in DOMAIN rlog : rlog[n].op = "commit" /\ rlog[n].txn = x

\* Until the vote, a transaction has no other id than the one of OP_BEGIN.
FreshIds ==
  /\ \A i \in Id :
       \/ pc[i[1]] = "new"
       \/ pc[i[1]] \in {"active", "preparing", "prepared", "proposed"} /\ i # Begun(i[1])
       => state[i] = "none" /\ wal[i] = NoRecords /\ write_set[i] = <<>>
  /\ \A x \in Txn : pc[x] = "new" => writing[x] = NoWrite

Mapped ==
  \A x \in Txn :
    /\ txn_id_map[x] # NoId => txn_id_map[x][1] = x
    /\ pc[x] \in {"active", "preparing", "prepared", "proposed"} => txn_id_map[x] = Begun(x)
    /\ pc[x] \in {"prepared", "proposed"} => state[Begun(x)] = "prepared"

\* The WAL knows the writes of a transaction, and they are those in the
\* replicated log.
WalAt(i) ==
  /\ Busy(i) => wal[i].last = "PREPARE" /\ wal[i].writes = write_set[i]
  /\ state[i] = "active" =>
       wal[i].last \in {"BEGIN", "WRITE"} /\ wal[i].writes = write_set[i]
  /\ wal[i].last \in {"PREPARE", "COMMIT"} =>
       \A n \in DOMAIN rlog : rlog[n].op = "prepare" /\ rlog[n].txn = i[1] =>
         wal[i].writes = rlog[n].writes
  /\ wal[i].last = "COMMIT" => pc[i[1]] \in {"committing", "committed"}
WalOK == \A i \in Id : WalAt(i)

ApplyingOK ==
  applying # NoCommit =>
    /\ applying.id \in Id /\ applying.next > 0
    /\ last_applied < Len(rlog)
    /\ rlog[last_applied + 1].op = "commit" /\ rlog[last_applied + 1].txn = applying.id[1]
    /\ state[applying.id] = "none"

IdsOK == FreshIds /\ Mapped /\ WalOK /\ ApplyingOK

\* The records of an id are no older than the life it was given out in, and an id
\* of ImportPreparedTxn has none before its prepare entry is applied.
Imports ==
  \A i \in Id : wal[i] # NoRecords =>
    /\ i[2] <= life
    /\ i[2] = life /\ i[3] = "imported" => AppliedUpTo("prepare", i[1])

\* An active transaction owns the locks of what it buffered and is about to buffer.
ActiveLocked ==
  /\ \A x \in Txn : state[Begun(x)] = "active" /\ writing[x] # NoWrite =>
       owner[writing[x].key] = Begun(x)
  /\ \A i \in Id : state[i] = "active" =>
       i = Begun(i[1]) /\ \A k \in KeysOf(write_set[i]) : owner[k] = i

\* Of a transaction between its Prepare and its COMMIT record some id is alive that
\* owns the locks of its writes.
Pending(x) ==
  /\ x \notin robbed /\ ~HasCommitRecord(x)
  /\ pc[x] \in {"prepared", "proposed", "voted", "committing"}
Secured(x) == \E i \in Id : i[1] = x /\ Busy(i) /\ \A k \in KeysOf(wal[i].writes) : owner[k] = i
PreparedLocked == \A x \in Txn : Pending(x) => Secured(x)

TxnInv ==
  /\ Types /\ LogOK /\ IdsOK /\ NoLeakedLocks /\ OnlyCommittedIsStored
  /\ Imports /\ ActiveLocked /\ PreparedLocked

-----------------------------------------------------------------------------
(* Types *)

LEMMA IdFacts ==
  ASSUME Types, NEW x \in Txn
  PROVE  /\ Begun(x) \in Id /\ Imported(x) \in Id
         /\ Begun(x)[1] = x /\ Imported(x)[1] = x /\ Begun(x) # Imported(x)
BY ZenonT(60) DEF Types, Id, Begun, Imported

LEMMA IdTxn == NoId \notin Id /\ \A i \in Id : i[1] \in Txn
BY ZenonT(60), IdAssumption DEF Id

LEMMA EntryFacts ==
  ASSUME Types, NEW x \in Txn
  PROVE  /\ [op |-> "prepare", txn |-> x, writes |-> write_set[Begun(x)]] \in Entry
         /\ [op |-> "commit", txn |-> x, writes |-> <<>>] \in Entry
         /\ [op |-> "abort", txn |-> x, writes |-> <<>>] \in Entry
<1>1. write_set[Begun(x)] \in Seq(Write) /\ <<>> \in Seq(Write)
  BY IdFacts DEF Types
<1> QED
  BY ZenonT(60), <1>1 DEF Entry

LEMMA LogFacts ==
  ASSUME Types
  PROVE  /\ rlog \in Seq(Entry) /\ Len(rlog) \in Nat /\ DOMAIN rlog = 1..Len(rlog)
         /\ \A n \in DOMAIN rlog : rlog[n] \in Entry /\ rlog[n].txn \in Txn
<1>1. rlog \in Seq(Entry)
  BY ZenonT(60) DEF Types
<1>2. \A n \in DOMAIN rlog : rlog[n] \in Entry
  BY <1>1
<1> QED
  BY <1>1, <1>2 DEF Entry

LEMMA WriteKeys ==
  ASSUME NEW ws \in Seq(Write), NEW k \in KeysOf(ws)
  PROVE  k \in Key
<1>1. PICK n \in DOMAIN ws : k = ws[n].key
  BY ZenonT(60) DEF KeysOf
<1>2. ws[n] \in Write
  OBVIOUS
<1> QED
  BY ZenonT(60), <1>1, <1>2 DEF Write

LEMMA NextFacts ==
  ASSUME Types, NEW op, NextEntry(op)
  PROVE  /\ last_applied + 1 \in DOMAIN rlog /\ rlog[last_applied + 1] \in Entry
         /\ rlog[last_applied + 1].txn \in Txn /\ rlog[last_applied + 1].op = op
<1>1. last_applied + 1 \in DOMAIN rlog
  BY DEF NextEntry, Types
<1> QED
  BY ZenonT(60), <1>1, LogFacts DEF NextEntry

LEMMA AbortTxnType ==
  ASSUME Types, NEW i \in Id, AbortTxn(i)
  PROVE  /\ state' \in [Id -> {"none", "active", "prepared"}]
         /\ write_set' \in [Id -> Seq(Write)] /\ wal' \in [Id -> Records]
         /\ owner' \in [Key -> Id \cup {NoId}]
<1>1. <<>> \in Seq(Write)
  OBVIOUS
<1>2. [last |-> "ABORT", writes |-> <<>>] \in Records
  BY ZenonT(60), <1>1 DEF Records
<1>3. i[1] \in Txn
  BY ZenonT(60), IdTxn
<1>4. CASE state[i] = "none"
  BY ZenonT(60), <1>4 DEF AbortTxn, Types, txnVars
<1>5. CASE state[i] # "none"
  <2>1. /\ state' \in [Id -> {"none", "active", "prepared"}]
        /\ write_set' \in [Id -> Seq(Write)] /\ wal' \in [Id -> Records]
    BY ZenonT(60), <1>1, <1>2, <1>5 DEF AbortTxn, Types
  <2> QED
    BY <1>5, <2>1 DEF AbortTxn, Types, ReleaseAll, Without
<1> QED
  BY ZenonT(60), <1>4, <1>5

LEMMA TypesNext ==
  ASSUME Types, IdsOK, [Next]_vars
  PROVE  Types'
<1> USE IdTxn
<1>1. ASSUME NEW x \in Txn, Begin(x) PROVE Types'
  <2>1. wal[Begun(x)] \in Records
    BY ZenonT(60), IdFacts DEF Types
  <2>2. /\ wal' \in [Id -> Records] /\ state' \in [Id -> {"none", "active", "prepared"}]
        /\ txn_id_map' \in [Txn -> Id \cup {NoId}]
    BY ZenonT(60), <1>1, <2>1, IdFacts DEF Begin, Log, Types, Records
  <2> QED
    BY ZenonT(60), <1>1, <2>2 DEF Begin, Become, Types, Phase, writeVars
<1>2. CASE \/ \E x \in Txn : ScanAll(x) \/ \E k \in Key : Read(x, k)
           \/ UNCHANGED vars
  BY ZenonT(60), <1>2 DEF ScanAll, Read, Observe, Types, coordVars, writeVars, diskVars, txnVars, vars
<1>3. ASSUME NEW x \in Txn, NEW w \in Write, WriteLocked(x, w) PROVE Types'
  <2>1. owner' \in [Key -> Id \cup {NoId}] /\ writing' \in [Txn -> Write \cup {NoWrite}]
    BY ZenonT(60), <1>3, IdFacts DEF WriteLocked, Types, Write
  <2> QED
    BY ZenonT(60), <1>3, <2>1 DEF WriteLocked, Types, coordVars, txnVars, diskVars
<1>a. ASSUME NEW i \in Id, AbortTxn(i), UNCHANGED <<writing, rlog, applying, life>>,
             pc' \in [Txn -> Phase], txn_id_map' \in [Txn -> Id \cup {NoId}],
             last_applied' \in 0..Len(rlog)
      PROVE  Types'
  BY ZenonT(60), <1>a, AbortTxnType DEF Types
<1>4. ASSUME NEW x \in Txn, NEW w \in Write, WriteTimedOut(x, w) PROVE Types'
  BY ZenonT(60), <1>4, <1>a, IdFacts DEF WriteTimedOut, Types, coordVars, writeVars
<1>5. ASSUME NEW x \in Txn, Abort(x) \/ PrepareFails(x) \/ PrepareNotReplicated(x)
      PROVE  Types'
  <2>1. /\ AbortTxn(Begun(x)) /\ Forget(x) /\ (Become(x, "aborted") \/ Become(x, "refused"))
        /\ UNCHANGED <<writing, rlog, applying, life>> /\ last_applied' = last_applied
    BY ZenonT(60), <1>5 DEF Abort, PrepareFails, PrepareNotReplicated, writeVars
  <2>2. last_applied' \in 0..Len(rlog) /\ txn_id_map' \in [Txn -> Id \cup {NoId}]
    BY ZenonT(60), <2>1 DEF Forget, Types
  <2>3. pc' \in [Txn -> Phase]
    BY ZenonT(60), <2>1 DEF Become, Types, Phase
  <2> QED
    BY ZenonT(60), <1>a, <2>1, <2>2, <2>3, IdFacts
<1>b. ASSUME NEW x \in Txn, Buffer(x), writing[x] # NoWrite PROVE
        write_set' \in [Id -> Seq(Write)] /\ wal' \in [Id -> Records]
  <2>1. /\ writing[x] \in Write /\ Begun(x) \in Id
        /\ write_set[Begun(x)] \in Seq(Write) /\ wal[Begun(x)] \in Records
    BY ZenonT(60), <1>b, IdFacts DEF Types
  <2>2. [last |-> "WRITE", writes |-> Append(wal[Begun(x)].writes, writing[x])] \in Records
    BY <2>1 DEF Records
  <2> QED
    BY <1>b, <2>1, <2>2 DEF Buffer, Types
<1>6. ASSUME NEW x \in Txn, WriteBuffer(x) PROVE Types'
  <2>1. writing' \in [Txn -> Write \cup {NoWrite}]
    BY ZenonT(60), <1>6 DEF WriteBuffer, Types
  <2>2. /\ write_set' \in [Id -> Seq(Write)] /\ wal' \in [Id -> Records]
        /\ owner' \in [Key -> Id \cup {NoId}]
    BY ZenonT(60), <1>6, <1>b DEF WriteBuffer, Types, ReleaseAll, Without
  <2> QED
    BY ZenonT(60), <1>6, <2>1, <2>2 DEF WriteBuffer, Types, coordVars
<1>7. ASSUME NEW x \in Txn, WriteRetried(x) PROVE Types'
  BY ZenonT(60), <1>7, <1>b DEF WriteRetried, Types, coordVars
<1>8. ASSUME NEW x \in Txn, CallPrepare(x) PROVE Types'
  BY ZenonT(60), <1>8 DEF CallPrepare, Become, Types, Phase, writeVars, txnVars, diskVars
<1>9. ASSUME NEW x \in Txn, Prepare(x) PROVE Types'
  <2>1. wal' \in [Id -> Records]
    <3>1. wal[Begun(x)] \in Records
      BY ZenonT(60), IdFacts DEF Types
    <3> QED
      BY ZenonT(60), <1>9, <3>1, IdFacts DEF Prepare, Log, Types, Records
  <2> QED
    BY ZenonT(60), <1>9, <2>1, IdFacts DEF Prepare, Become, Types, Phase, writeVars
<1>c. ASSUME NEW e \in Entry, rlog' = Append(rlog, e), last_applied' = last_applied
      PROVE  rlog' \in Seq(Entry) /\ last_applied' \in 0..Len(rlog')
  BY <1>c DEF Types
<1>10. ASSUME NEW x \in Txn, ProposePrepare(x) \/ Commit(x) \/ AbortVoted(x) PROVE Types'
  <2>2. rlog' \in Seq(Entry) /\ last_applied' \in 0..Len(rlog')
    BY ZenonT(60), <1>10, <1>c, EntryFacts DEF ProposePrepare, Commit, AbortVoted
  <2>3. pc' \in [Txn -> Phase]
    BY ZenonT(60), <1>10 DEF ProposePrepare, Commit, AbortVoted, Become, Types, Phase
  <2>4. UNCHANGED <<writeVars, txnVars, owner, wal, txn_id_map, applying, life>>
    BY ZenonT(60), <1>10 DEF ProposePrepare, Commit, AbortVoted
  <2> QED
    BY ZenonT(60), <2>2, <2>3, <2>4 DEF Types, writeVars, txnVars
<1>11. ASSUME NEW x \in Txn, Vote(x) \/ CommitReturns(x) PROVE Types'
  BY ZenonT(60), <1>11 DEF Vote, CommitReturns, Become, Types, Phase, writeVars, txnVars, diskVars
<1>d. ASSUME NEW op, NextEntry(op)
      PROVE  /\ last_applied + 1 \in 0..Len(rlog) /\ last_applied + 1 \in DOMAIN rlog
             /\ rlog[last_applied + 1] \in Entry /\ rlog[last_applied + 1].txn \in Txn
  <2>1. last_applied + 1 \in 1..Len(rlog) /\ rlog \in Seq(Entry)
    BY <1>d DEF NextEntry, Types
  <2>2. rlog[last_applied + 1] \in Entry
    BY <2>1
  <2> QED
    BY <2>1, <2>2 DEF Entry
<1>12. ASSUME ApplyPrepare PROVE Types'
  <2> DEFINE e == rlog[last_applied + 1]
  <2>1. e \in Entry /\ e.txn \in Txn /\ e.writes \in Seq(Write) /\ last_applied' \in 0..Len(rlog)
    BY ZenonT(60), <1>12, <1>d DEF ApplyPrepare, Entry
  <2>2. \/ UNCHANGED <<state, write_set, wal, txn_id_map>>
        \/ /\ ImportPreparedTxn(Imported(e.txn), e.writes)
           /\ txn_id_map' = [txn_id_map EXCEPT ![e.txn] = Imported(e.txn)]
    BY ZenonT(60), <1>12 DEF ApplyPrepare
  <2> HIDE DEF e
  <2>3. [last |-> "PREPARE", writes |-> e.writes] \in Records /\ Imported(e.txn) \in Id
    BY ZenonT(60), <2>1, IdFacts DEF Records
  <2>4. /\ state' \in [Id -> {"none", "active", "prepared"}]
        /\ write_set' \in [Id -> Seq(Write)] /\ wal' \in [Id -> Records]
        /\ txn_id_map' \in [Txn -> Id \cup {NoId}]
    <3>1. CASE UNCHANGED <<state, write_set, wal, txn_id_map>>
      BY ZenonT(60), <3>1 DEF Types
    <3>2. CASE /\ ImportPreparedTxn(Imported(e.txn), e.writes)
               /\ txn_id_map' = [txn_id_map EXCEPT ![e.txn] = Imported(e.txn)]
      BY ZenonT(60), <2>1, <2>3, <3>2 DEF ImportPreparedTxn, Types
    <3> QED
      BY ZenonT(60), <2>2, <3>1, <3>2
  <2> QED
    BY ZenonT(60), <1>12, <2>1, <2>4 DEF ApplyPrepare, Types, coordVars, writeVars
<1>13. ASSUME ApplyCommit PROVE Types'
  <2> DEFINE i == txn_id_map[rlog[last_applied + 1].txn]
  <2>1. i \in Id \cup {NoId} /\ rlog[last_applied + 1].txn \in Txn /\ last_applied + 1 \in 0..Len(rlog)
    BY ZenonT(60), <1>13, <1>d DEF ApplyCommit, Types
  <2>2. \/ /\ i # NoId /\ state' = [state EXCEPT ![i] = "none"] /\ applying' = [id |-> i, next |-> 1]
           /\ UNCHANGED <<last_applied, txn_id_map>>
        \/ /\ last_applied' = last_applied + 1 /\ Forget(rlog[last_applied + 1].txn)
           /\ UNCHANGED <<state, applying>>
    BY ZenonT(60), <1>13 DEF ApplyCommit
  <2> HIDE DEF i
  <2>3. /\ state' \in [Id -> {"none", "active", "prepared"}]
        /\ txn_id_map' \in [Txn -> Id \cup {NoId}]
        /\ applying' \in [id : Id \cup {NoId}, next : Nat] /\ last_applied' \in 0..Len(rlog)
    <3>1. CASE /\ i # NoId /\ state' = [state EXCEPT ![i] = "none"]
               /\ applying' = [id |-> i, next |-> 1] /\ UNCHANGED <<last_applied, txn_id_map>>
      BY ZenonT(60), <2>1, <3>1 DEF Types
    <3>2. CASE /\ last_applied' = last_applied + 1 /\ Forget(rlog[last_applied + 1].txn)
               /\ UNCHANGED <<state, applying>>
      BY ZenonT(60), <2>1, <3>2 DEF Forget, Types
    <3> QED
      BY ZenonT(60), <2>2, <3>1, <3>2
  <2> QED
    BY ZenonT(60), <1>13, <2>3 DEF ApplyCommit, Types, coordVars, writeVars, diskVars
<1>14. ASSUME ApplyWrite PROVE Types'
  <2>1. applying' = [applying EXCEPT !.next = @ + 1] /\ applying \in [id : Id \cup {NoId}, next : Nat]
    BY ZenonT(60), <1>14 DEF ApplyWrite, Types
  <2>2. applying' \in [id : Id \cup {NoId}, next : Nat]
    BY <2>1
  <2> QED
    BY ZenonT(60), <1>14, <2>2 DEF ApplyWrite, Types, coordVars, writeVars, txnVars
<1>15. ASSUME CommitDone PROVE Types'
  <2> DEFINE i == applying.id
  <2>1. i \in Id /\ i[1] \in Txn /\ last_applied + 1 \in 0..Len(rlog) /\ wal[i] \in Records
    BY <1>15 DEF CommitDone, IdsOK, ApplyingOK, Types
  <2>2. /\ Log(i, "COMMIT") /\ ReleaseAll(i) /\ Forget(i[1])
        /\ write_set' = [write_set EXCEPT ![i] = <<>>] /\ applying' = NoCommit
        /\ last_applied' = last_applied + 1
    BY ZenonT(60), <1>15 DEF CommitDone
  <2> HIDE DEF i
  <2>3. wal' \in [Id -> Records]
    BY ZenonT(60), <2>1, <2>2 DEF Log, Records, Types
  <2>4. <<>> \in Seq(Write) /\ NoCommit \in [id : Id \cup {NoId}, next : Nat]
    BY DEF NoCommit
  <2>5. /\ write_set' \in [Id -> Seq(Write)] /\ owner' \in [Key -> Id \cup {NoId}]
        /\ txn_id_map' \in [Txn -> Id \cup {NoId}] /\ last_applied' \in 0..Len(rlog)
    BY ZenonT(60), <2>1, <2>2, <2>4 DEF ReleaseAll, Without, Forget, Types
  <2> QED
    BY ZenonT(60), <1>15, <2>2, <2>3, <2>4, <2>5 DEF CommitDone, Types, coordVars, writeVars
<1>16. ASSUME ApplyAbort PROVE Types'
  <2> DEFINE x == rlog[last_applied + 1].txn
  <2>1. x \in Txn /\ last_applied + 1 \in 0..Len(rlog) /\ txn_id_map[x] \in Id \cup {NoId}
    BY ZenonT(60), <1>16, <1>d DEF ApplyAbort, Types
  <2>2. /\ \/ UNCHANGED <<txnVars, wal, owner>>
           \/ txn_id_map[x] # NoId /\ AbortTxn(txn_id_map[x])
        /\ Forget(x)
        /\ last_applied' = last_applied + 1
        /\ UNCHANGED <<coordVars, writeVars, store, rlog, applying, life>>
    BY ZenonT(60), <1>16 DEF ApplyAbort
  <2> HIDE DEF x
  <2>3. txn_id_map' \in [Txn -> Id \cup {NoId}] /\ pc' \in [Txn -> Phase] /\ last_applied' \in 0..Len(rlog)
    BY ZenonT(60), <2>1, <2>2 DEF Forget, Types, coordVars
  <2>4. CASE UNCHANGED <<txnVars, wal, owner>>
    BY ZenonT(60), <2>2, <2>3, <2>4 DEF Types, writeVars, txnVars
  <2>5. CASE txn_id_map[x] # NoId /\ AbortTxn(txn_id_map[x])
    BY ZenonT(60), <1>a, <2>1, <2>2, <2>3, <2>5 DEF writeVars
  <2> QED
    BY ZenonT(60), <2>2, <2>4, <2>5
<1>17. ASSUME Restart PROVE Types'
  <2>1. /\ life < Restarts /\ life' = life + 1 /\ last_applied' = 0 /\ applying' = NoCommit
        /\ \A i \in Id : wal[i].writes \in Seq(Write) /\ wal[i] \in Records
        /\ life \in Nat /\ Restarts \in Nat /\ Len(rlog) \in Nat
    BY <1>17, BoundAssumption DEF Restart, Types, Records
  <2>2. life' \in 0..Restarts /\ last_applied' \in 0..Len(rlog)
    BY <2>1 DEF Types
  <2>3. /\ <<>> \in Seq(Write) /\ NoRecords \in Records
        /\ NoCommit \in [id : Id \cup {NoId}, next : Nat]
    BY DEF NoRecords, Records, NoCommit
  <2>4. /\ state' \in [Id -> {"none", "active", "prepared"}]
        /\ write_set' \in [Id -> Seq(Write)] /\ wal' \in [Id -> Records]
    BY ZenonT(60), <1>17, <2>1, <2>3 DEF Restart
  <2>5. owner' \in [Key -> Id \cup {NoId}]
    BY ZenonT(60), <1>17 DEF Restart, RecoveredOwner, InDoubt
  <2>8. pc' \in [Txn -> Phase]
    BY ZenonT(60), <1>17 DEF Restart, Types, Phase
  <2>9. /\ writing' \in [Txn -> Write \cup {NoWrite}] /\ txn_id_map' \in [Txn -> Id \cup {NoId}]
        /\ rlog' = rlog
    BY ZenonT(60), <1>17 DEF Restart
  <2> QED
    BY ZenonT(60), <2>1, <2>2, <2>3, <2>4, <2>5, <2>8, <2>9 DEF Types
<1> QED
  BY ZenonT(60), <1>1, <1>2, <1>3, <1>4, <1>5, <1>6, <1>7, <1>8, <1>9, <1>10, <1>11, <1>12, <1>13, <1>14,
     <1>15, <1>16, <1>17 DEF Next

-----------------------------------------------------------------------------
(* The replicated log and the timestamps *)

LEMMA LogNext ==
  ASSUME Types, LogOK, [Next]_vars
  PROVE  LogOK'
<1>1. CASE pc' = pc /\ rlog' = rlog
  BY <1>1 DEF LogOK
<1>2. ASSUME NEW x \in Txn, NEW b, pc' = [pc EXCEPT ![x] = b], rlog' = rlog,
             \/ pc[x] \in {"new", "active", "preparing"} /\ b \in {"active", "preparing", "prepared"}
             \/ pc[x] \in {"active", "preparing", "prepared", "proposed"} /\ b \in {"aborted", "refused"}
             \/ pc[x] = "proposed" /\ b = "voted"
             \/ pc[x] = "committing" /\ b = "committed"
      PROVE  LogOK'
  <2>1. pc \in [Txn -> Phase] /\ \A n \in DOMAIN rlog : rlog[n].txn \in Txn
    BY ZenonT(60), LogFacts DEF Types
  <2> QED
    BY <1>2, <2>1 DEF LogOK
<1>3. ASSUME NEW x \in Txn, NEW b, NEW e \in Entry, e.txn = x,
             pc' = [pc EXCEPT ![x] = b], rlog' = Append(rlog, e),
             \/ pc[x] = "prepared" /\ b = "proposed" /\ e.op = "prepare"
             \/ pc[x] = "voted" /\ b = "committing" /\ e.op = "commit"
             \/ pc[x] \in {"voted", "refused"} /\ b = "aborted" /\ e.op = "abort"
      PROVE  LogOK'
  <2>1. /\ pc \in [Txn -> Phase] /\ rlog \in Seq(Entry) /\ \A n \in DOMAIN rlog : rlog[n].txn \in Txn
        /\ Len(rlog) \in Nat /\ DOMAIN rlog = 1..Len(rlog)
    BY ZenonT(60), LogFacts DEF Types
  <2>2. /\ DOMAIN rlog' = 1..(Len(rlog) + 1) /\ rlog'[Len(rlog) + 1] = e
        /\ \A n \in DOMAIN rlog : n \in DOMAIN rlog' /\ rlog'[n] = rlog[n]
        /\ \A n \in DOMAIN rlog' : n \in DOMAIN rlog \/ n = Len(rlog) + 1
    BY <1>3, <2>1
  <2> QED
    BY <1>3, <2>1, <2>2 DEF LogOK
<1>4. ASSUME Restart PROVE LogOK'
  <2>1. /\ \A n \in DOMAIN rlog : rlog[n].txn \in Txn
        /\ \A x \in Txn : pc'[x] = IF pc[x] \in {"active", "preparing", "prepared", "proposed"}
                                   THEN "refused" ELSE pc[x]
        /\ rlog' = rlog
    BY ZenonT(60), <1>4, LogFacts DEF Restart
  <2> QED
    BY <2>1 DEF LogOK
<1>5. ASSUME NEW x \in Txn, ProposePrepare(x) \/ Commit(x) \/ AbortVoted(x) PROVE LogOK'
  BY ZenonT(60), <1>3, <1>5, EntryFacts DEF ProposePrepare, Commit, AbortVoted, Become
<1>6. ASSUME NEW x \in Txn,
             \/ Begin(x) \/ Abort(x) \/ CallPrepare(x) \/ Prepare(x) \/ PrepareFails(x)
             \/ PrepareNotReplicated(x) \/ Vote(x) \/ CommitReturns(x)
      PROVE  LogOK'
  BY ZenonT(60), <1>2, <1>6 DEF Begin, Abort, CallPrepare, Prepare, PrepareFails, PrepareNotReplicated,
                    Vote, CommitReturns, Become, diskVars
<1>7. ASSUME NEW x \in Txn,
             \/ ScanAll(x) \/ \E k \in Key : Read(x, k)
             \/ \E w \in Write : WriteLocked(x, w) \/ WriteTimedOut(x, w)
             \/ WriteBuffer(x) \/ WriteRetried(x)
      PROVE  LogOK'
  BY ZenonT(60), <1>1, <1>7 DEF ScanAll, Read, Observe, WriteLocked, WriteTimedOut, WriteBuffer,
                    WriteRetried, coordVars, diskVars
<1>8. CASE \/ ApplyPrepare \/ ApplyCommit \/ ApplyWrite \/ CommitDone \/ ApplyAbort
           \/ UNCHANGED vars
  BY ZenonT(60), <1>1, <1>8 DEF ApplyPrepare, ApplyCommit, ApplyWrite, CommitDone, ApplyAbort, vars,
                    coordVars, diskVars
<1> QED
  BY ZenonT(60), <1>4, <1>5, <1>6, <1>7, <1>8 DEF Next

-----------------------------------------------------------------------------
(* The ids of a transaction *)

Same(i) == state'[i] = state[i] /\ wal'[i] = wal[i] /\ write_set'[i] = write_set[i]

\* AbortTxn leaves nothing behind of an id, unless Commit has taken it over.
LEMMA AbortTxnIds ==
  ASSUME Types, IdsOK, NEW i \in Id, AbortTxn(i)
  PROVE  /\ \A j \in Id : j = i \/ Same(j)
         /\ state'[i] = "none"
         /\ \/ state[i] = "none" /\ Same(i)
            \/ i # applying.id /\ wal'[i].last = "ABORT" /\ write_set'[i] = <<>>
<1>1. CASE state[i] = "none"
  BY ZenonT(60), <1>1 DEF AbortTxn, txnVars, Same
<1>2. CASE state[i] # "none"
  <2>1. i # applying.id
    BY <1>2, IdTxn DEF IdsOK, ApplyingOK, NoCommit
  <2> QED
    BY <1>2, <2>1 DEF AbortTxn, Same, Types
<1> QED
  BY ZenonT(60), <1>1, <1>2

\* What keeps the three parts of IdsOK that quantify, when nothing is appended to
\* the log and the coordinator does nothing.
LEMMA FreshKept ==
  ASSUME Types, FreshIds, UNCHANGED <<pc, writing, life>>,
         \A i \in Id : \/ Same(i)
                      \/ pc[i[1]] \notin {"new", "active", "preparing", "prepared", "proposed"}
  PROVE  FreshIds'
<1>1. \A x \in Txn : Begun(x)' = Begun(x)
  BY ZenonT(60) DEF Begun
<1> QED
  BY ZenonT(60), <1>1, IdTxn DEF FreshIds, Same

LEMMA ForgetKeeps ==
  ASSUME Types, Mapped, NEW x \in Txn, Forget(x), UNCHANGED <<pc, life>>,
         pc[x] \notin {"active", "preparing", "prepared", "proposed"},
         \A i \in Id : i[1] # x => state'[i] = state[i]
  PROVE  Mapped'
<1>1. \A y \in Txn : Begun(y)' = Begun(y) /\ Begun(y) \in Id /\ Begun(y)[1] = y
  BY ZenonT(60), IdFacts DEF Begun
<1>2. \A y \in Txn : txn_id_map'[y] = IF y = x THEN NoId ELSE txn_id_map[y]
  BY ZenonT(60) DEF Forget, Types
<1> QED
  BY <1>1, <1>2 DEF Mapped

LEMMA WalKept ==
  ASSUME NEW i \in Id, WalAt(i), Same(i), Busy(i)' => Busy(i), UNCHANGED <<pc, rlog>>
  PROVE  WalAt(i)'
BY ZenonT(60) DEF WalAt, Same

LEMMA IdsNext ==
  ASSUME Types, Types', LogOK, IdsOK, [Next]_vars
  PROVE  IdsOK'
<1> USE IdTxn, IdFacts, LogFacts
<1>a. pc \in [Txn -> Phase] /\ txn_id_map \in [Txn -> Id \cup {NoId}] /\ writing \in [Txn -> Write \cup {NoWrite}]
  BY ZenonT(60) DEF Types
\* Nothing but the phase of x changes, and perhaps the id of OP_BEGIN is gone.
<1>b. ASSUME NEW x \in Txn, AbortTxn(Begun(x)), UNCHANGED <<writing, rlog, applying, life>>,
             last_applied' = last_applied,
             \/ UNCHANGED <<pc, txn_id_map>> /\ pc[x] \in {"active", "aborted"}
             \/ /\ pc[x] \in {"active", "preparing", "prepared", "proposed"}
                /\ Forget(x) /\ (Become(x, "aborted") \/ Become(x, "refused"))
      PROVE  IdsOK'
  <2> DEFINE i == Begun(x)
  <2>1. /\ \A j \in Id : j = i \/ Same(j)
        /\ state'[i] = "none"
        /\ \/ state[i] = "none" /\ Same(i)
           \/ i # applying.id /\ wal'[i].last = "ABORT" /\ write_set'[i] = <<>>
    BY ZenonT(60), <1>b, AbortTxnIds
  <2>2. i = Begun(x) /\ i \in Id /\ i[1] = x /\ \A y \in Txn : Begun(y)' = Begun(y)
    BY ZenonT(60), <1>b DEF Begun
  <2>3. /\ \A y \in Txn : y # x => pc'[y] = pc[y] /\ txn_id_map'[y] = txn_id_map[y]
        /\ pc'[x] \in {"active", "aborted", "refused"} /\ (pc'[x] = "active" => pc' = pc /\ txn_id_map' = txn_id_map)
        /\ txn_id_map'[x] \in {txn_id_map[x], NoId}
    BY ZenonT(60), <1>a, <1>b DEF Become, Forget
  <2> HIDE DEF i
  <2>4. FreshIds'
    BY <1>b, <2>1, <2>2, <2>3 DEF IdsOK, FreshIds, Same
  <2>7. Mapped'
    BY <1>b, <2>1, <2>2, <2>3 DEF IdsOK, Mapped, Same
  <2>5. WalOK'
    BY <1>b, <2>1, <2>2, <2>3 DEF IdsOK, WalOK, WalAt, Busy, Same
  <2>6. ApplyingOK'
    BY ZenonT(60), <1>b, <2>1 DEF IdsOK, ApplyingOK, Same
  <2> QED
    BY ZenonT(60), <2>4, <2>5, <2>6, <2>7 DEF IdsOK
<1>c. ASSUME NEW x \in Txn, NEW b, pc' = [pc EXCEPT ![x] = b],
             <<pc[x], b>> \in {<<"active", "preparing">>, <<"proposed", "voted">>, <<"committing", "committed">>},
             UNCHANGED <<writing, state, wal, write_set, txn_id_map, rlog>>,
             UNCHANGED <<last_applied, applying, life>>
      PROVE  IdsOK'
  <2>1. FreshIds' /\ Mapped' /\ ApplyingOK'
    BY <1>a, <1>c DEF IdsOK, FreshIds, Mapped, ApplyingOK, Begun
  <2>2. WalOK'
    BY <1>a, <1>c DEF IdsOK, WalOK, WalAt, Busy
  <2> QED
    BY ZenonT(60), <2>1, <2>2 DEF IdsOK
<1>d. ASSUME UNCHANGED <<pc, state, wal, write_set, txn_id_map, rlog>>,
             UNCHANGED <<last_applied, applying, life>>,
             \A x \in Txn : pc[x] = "new" => writing'[x] = NoWrite
      PROVE  IdsOK'
  BY <1>d DEF IdsOK, FreshIds, Mapped, ApplyingOK, WalOK, WalAt, Busy, Begun
<1>e. ASSUME NEW x \in Txn, Buffer(x), state[Begun(x)] = "active", writing[x] # NoWrite,
             UNCHANGED <<pc, state, txn_id_map, rlog>>,
             UNCHANGED <<last_applied, applying, life>>,
             \A y \in Txn : pc[y] = "new" => writing'[y] = NoWrite
      PROVE  IdsOK'
  <2>0. PICK i \in Id : i = Begun(x)
    BY ZenonT(60)
  <2>1. /\ i = Begun(x) /\ i \in Id /\ i[1] = x /\ \A y \in Txn : Begun(y)' = Begun(y)
        /\ \A j \in Id : j = i \/ Same(j)
        /\ wal'[i].last = "WRITE" /\ wal'[i].writes = Append(wal[i].writes, writing[x])
        /\ write_set'[i] = Append(write_set[i], writing[x])
    BY ZenonT(60), <1>e, <2>0 DEF Buffer, Begun, Same, Types
  <2>2. pc[x] # "new" /\ i # applying.id
    BY <1>e, <2>1 DEF IdsOK, FreshIds, ApplyingOK, NoCommit
  <2>3. FreshIds'
    BY <1>e, <2>1, <2>2 DEF IdsOK, FreshIds, Same
  <2>6. wal'[i].writes = write_set'[i] /\ state'[i] = "active" /\ applying' = applying
    <3>1. WalAt(i) /\ state[i] = "active"
      BY ZenonT(60), <1>e, <2>1 DEF IdsOK, WalOK
    <3> QED
      BY ZenonT(60), <1>e, <2>1, <3>1 DEF WalAt
  <2>7. WalAt(i)'
    BY ZenonT(60), <1>e, <2>1, <2>2, <2>6 DEF WalAt, Busy
  <2>8. ASSUME NEW j \in Id, j # i PROVE WalAt(j)'
    BY <1>e, <2>1, <2>8 DEF IdsOK, WalOK, WalAt, Busy, Same
  <2>4. WalOK'
    BY ZenonT(60), <2>7, <2>8 DEF WalOK
  <2>5. Mapped' /\ ApplyingOK'
    BY <1>e, <2>1 DEF IdsOK, Mapped, ApplyingOK
  <2> QED
    BY ZenonT(60), <2>3, <2>4, <2>5 DEF IdsOK
<1>1. ASSUME NEW x \in Txn, Begin(x) PROVE IdsOK'
  <2> DEFINE i == Begun(x)
  <2>1. /\ i = Begun(x) /\ i \in Id /\ i[1] = x /\ \A y \in Txn : Begun(y)' = Begun(y)
        /\ pc[x] = "new" /\ pc' = [pc EXCEPT ![x] = "active"]
        /\ txn_id_map' = [txn_id_map EXCEPT ![x] = i] /\ UNCHANGED <<rlog, last_applied, applying, life>>
        /\ writing' = writing
    BY ZenonT(60), <1>1 DEF Begin, Become, Begun, writeVars
  <2>2. /\ \A j \in Id : j = i \/ Same(j)
        /\ state'[i] = "active" /\ wal'[i].last = "BEGIN" /\ wal'[i].writes = wal[i].writes
        /\ write_set'[i] = write_set[i]
    <3>1. wal[i] \in Records /\ wal \in [Id -> Records] /\ state \in [Id -> {"none", "active", "prepared"}]
      BY ZenonT(60) DEF Types
    <3> QED
      BY ZenonT(60), <1>1, <3>1 DEF Begin, Log, Same, Records
  <2>3. wal[i] = NoRecords /\ write_set[i] = <<>> /\ state[i] = "none"
    BY ZenonT(60), <2>1 DEF IdsOK, FreshIds
  <2> HIDE DEF i
  <2>4. i # applying.id
    BY <2>1, <2>3 DEF IdsOK, WalOK, WalAt, Busy, NoRecords
  <2>5. FreshIds' /\ Mapped'
    BY <1>a, <2>1, <2>2, <2>3 DEF IdsOK, FreshIds, Mapped, Same
  <2>6. WalOK'
    BY <1>a, <2>1, <2>2, <2>3, <2>4 DEF IdsOK, WalOK, WalAt, Busy, Same, NoRecords
  <2>7. ApplyingOK'
    BY ZenonT(60), <2>1, <2>2, <2>4 DEF IdsOK, ApplyingOK, Same
  <2> QED
    BY ZenonT(60), <2>5, <2>6, <2>7 DEF IdsOK
<1>2. ASSUME NEW x \in Txn, Prepare(x) PROVE IdsOK'
  <2> DEFINE i == Begun(x)
  <2>1. /\ i = Begun(x) /\ i \in Id /\ i[1] = x /\ \A y \in Txn : Begun(y)' = Begun(y)
        /\ pc[x] = "preparing" /\ state[i] = "active" /\ pc' = [pc EXCEPT ![x] = "prepared"]
        /\ UNCHANGED <<txn_id_map, rlog, last_applied, applying, life>> /\ writing' = writing
    BY ZenonT(60), <1>2 DEF Prepare, Become, Begun, writeVars
  <2>2. /\ \A j \in Id : j = i \/ Same(j)
        /\ state'[i] = "prepared" /\ wal'[i].last = "PREPARE" /\ wal'[i].writes = wal[i].writes
        /\ write_set'[i] = write_set[i]
    <3>1. wal[i] \in Records /\ wal \in [Id -> Records] /\ state \in [Id -> {"none", "active", "prepared"}]
      BY ZenonT(60) DEF Types
    <3> QED
      BY ZenonT(60), <1>2, <3>1 DEF Prepare, Log, Same, Records
  <2>3. i # applying.id /\ \A n \in DOMAIN rlog : ~(rlog[n].op = "prepare" /\ rlog[n].txn = x)
    BY <2>1 DEF IdsOK, ApplyingOK, NoCommit, LogOK
  <2> HIDE DEF i
  <2>5. FreshIds' /\ Mapped'
    BY <1>a, <2>1, <2>2 DEF IdsOK, FreshIds, Mapped, Same
  <2>6. WalOK'
    BY <1>a, <2>1, <2>2, <2>3 DEF IdsOK, WalOK, WalAt, Busy, Same
  <2>7. ApplyingOK'
    BY ZenonT(60), <2>1, <2>2, <2>3 DEF IdsOK, ApplyingOK, Same
  <2> QED
    BY ZenonT(60), <2>5, <2>6, <2>7 DEF IdsOK
<1>3. ASSUME NEW x \in Txn, ProposePrepare(x) \/ Commit(x) \/ AbortVoted(x) PROVE IdsOK'
  <2>1. PICK e \in Entry, b \in Phase :
          /\ e.txn = x /\ rlog' = Append(rlog, e) /\ pc' = [pc EXCEPT ![x] = b]
          /\ \/ pc[x] = "prepared" /\ b = "proposed" /\ e.writes = write_set[Begun(x)]
             \/ pc[x] = "voted" /\ b = "committing" /\ e.op # "prepare"
             \/ pc[x] \in {"voted", "refused"} /\ b = "aborted" /\ e.op # "prepare"
    BY ZenonT(60), <1>3, EntryFacts DEF ProposePrepare, Commit, AbortVoted, Become, Phase
  <2>2. /\ UNCHANGED <<state, wal, write_set, txn_id_map, last_applied, applying>>
        /\ UNCHANGED <<life, writing>> /\ \A y \in Txn : Begun(y)' = Begun(y)
    BY ZenonT(60), <1>3 DEF ProposePrepare, Commit, AbortVoted, txnVars, writeVars, Begun
  <2>3. /\ \A n \in DOMAIN rlog' : (n \in DOMAIN rlog /\ rlog'[n] = rlog[n]) \/ rlog'[n] = e
        /\ Len(rlog') = Len(rlog) + 1 /\ \A n \in DOMAIN rlog : rlog'[n] = rlog[n]
    BY <2>1
  <2>4. FreshIds' /\ Mapped'
    BY <1>a, <2>1, <2>2 DEF IdsOK, FreshIds, Mapped
  <2>5. ASSUME NEW i \in Id PROVE WalAt(i)'
    <3>1. CASE i[1] = x /\ pc[x] = "prepared"
      <4>1. CASE i = Begun(x)
        <5>1. wal[i].last = "PREPARE" /\ wal[i].writes = write_set[i] /\ state[i] = "prepared"
          BY <3>1, <4>1 DEF IdsOK, Mapped, WalOK, WalAt, Busy
        <5>2. \A n \in DOMAIN rlog : ~(rlog[n].op = "prepare" /\ rlog[n].txn = x)
          BY <3>1 DEF LogOK
        <5> QED
          BY <2>1, <2>2, <2>3, <3>1, <4>1, <5>1, <5>2 DEF WalAt, Busy
      <4>2. CASE i # Begun(x)
        <5>1. wal[i] = NoRecords /\ state[i] = "none" /\ applying.id # i
          BY <3>1, <4>2 DEF IdsOK, FreshIds, WalOK, WalAt, Busy, NoRecords
        <5> QED
          BY <2>2, <5>1 DEF WalAt, Busy, NoRecords
      <4> QED
        BY ZenonT(60), <4>1, <4>2
    <3>2. CASE ~(i[1] = x /\ pc[x] = "prepared")
      BY <1>a, <2>1, <2>2, <2>3, <3>2 DEF IdsOK, WalOK, WalAt, Busy
    <3> QED
      BY ZenonT(60), <3>1, <3>2
  <2>6. ApplyingOK'
    <3>1. last_applied \in Nat
      BY DEF Types
    <3>2. last_applied < Len(rlog) => last_applied + 1 \in DOMAIN rlog
      BY <3>1
    <3> QED
      BY <2>2, <2>3, <3>1, <3>2 DEF IdsOK, ApplyingOK
  <2> QED
    BY ZenonT(60), <2>4, <2>5, <2>6 DEF IdsOK, WalOK
<1>f. ASSUME NEW op, NextEntry(op)
      PROVE  /\ last_applied + 1 \in DOMAIN rlog /\ rlog[last_applied + 1] \in Entry
             /\ rlog[last_applied + 1].txn \in Txn /\ rlog[last_applied + 1].op = op
             /\ (op # "commit" => applying = NoCommit)
  <2>1. last_applied + 1 \in DOMAIN rlog
    BY <1>f DEF NextEntry, Types
  <2> QED
    BY ZenonT(60), <1>f, <2>1 DEF NextEntry, IdsOK, ApplyingOK
<1>4. ASSUME ApplyPrepare PROVE IdsOK'
  <2>1. PICK e \in Entry : e = rlog[last_applied + 1] /\ e.txn \in Txn
    BY ZenonT(60), <1>4, <1>f DEF ApplyPrepare
  <2>2. /\ UNCHANGED <<pc, writing, rlog, life>> /\ \A y \in Txn : Begun(y)' = Begun(y)
        /\ applying = NoCommit /\ applying' = NoCommit /\ e.op = "prepare"
    BY ZenonT(60), <1>4, <1>f, <2>1 DEF ApplyPrepare, coordVars, writeVars, Begun
  <2>3. ApplyingOK'
    BY ZenonT(60), <2>2 DEF ApplyingOK
  <2>4. CASE UNCHANGED <<state, write_set, wal, txn_id_map>>
    BY <2>2, <2>3, <2>4 DEF IdsOK, FreshIds, Mapped, WalOK, WalAt, Busy
  <2>5. CASE /\ txn_id_map[e.txn] = NoId /\ ImportPreparedTxn(Imported(e.txn), e.writes)
             /\ txn_id_map' = [txn_id_map EXCEPT ![e.txn] = Imported(e.txn)]
    <3>1. PICK i \in Id : i = Imported(e.txn) /\ i[1] = e.txn
      BY ZenonT(60), <2>1
    <3>2. /\ \A j \in Id : j = i \/ Same(j)
          /\ state'[i] = "prepared" /\ wal'[i].last = "PREPARE" /\ wal'[i].writes = e.writes
          /\ write_set'[i] = e.writes
      BY <2>5, <3>1 DEF ImportPreparedTxn, Same, Types
    <3>3. pc[e.txn] \notin {"new", "active", "preparing", "prepared", "proposed"}
      <4>1. pc[e.txn] \notin {"new", "active", "preparing", "prepared"}
        BY ZenonT(60), <1>4, <1>f, <2>1, <2>2 DEF ApplyPrepare, LogOK
      <4>2. Begun(e.txn) # NoId
        BY ZenonT(60), <2>1
      <4> QED
        BY ZenonT(60), <2>1, <2>5, <4>1, <4>2 DEF IdsOK, Mapped
    <3>4. FreshIds'
      BY ZenonT(60), <2>2, <3>1, <3>2, <3>3, FreshKept DEF IdsOK
    <3>7. Mapped'
      BY <1>a, <2>1, <2>2, <2>5, <3>1, <3>2, <3>3 DEF IdsOK, Mapped, Same
    <3>5. WalAt(i)'
      <4>1. \A n \in DOMAIN rlog : rlog[n].op = "prepare" /\ rlog[n].txn = i[1] => rlog[n] = e
        BY <1>4, <1>f, <2>1, <2>2, <3>1 DEF LogOK, ApplyPrepare
      <4> QED
        BY ZenonT(60), <2>2, <3>2, <4>1 DEF WalAt, Busy
    <3>6. ASSUME NEW j \in Id, j # i PROVE WalAt(j)'
      BY ZenonT(60), <2>2, <3>2, <3>6, WalKept DEF IdsOK, WalOK, Busy, Same
    <3> QED
      BY ZenonT(60), <2>3, <3>4, <3>5, <3>6, <3>7 DEF IdsOK, WalOK
  <2> QED
    BY ZenonT(60), <1>4, <2>1, <2>4, <2>5 DEF ApplyPrepare
<1>5. ASSUME ApplyCommit PROVE IdsOK'
  <2>1. PICK x \in Txn : x = rlog[last_applied + 1].txn
    BY ZenonT(60), <1>5, <1>f DEF ApplyCommit
  <2>2. /\ UNCHANGED <<pc, writing, rlog, life, wal, write_set>> /\ \A y \in Txn : Begun(y)' = Begun(y)
        /\ applying = NoCommit /\ pc[x] \in {"committing", "committed"}
        /\ last_applied < Len(rlog) /\ rlog[last_applied + 1].op = "commit"
    BY ZenonT(60), <1>5, <1>f, <2>1 DEF ApplyCommit, NextEntry, coordVars, writeVars, diskVars, Begun, LogOK
  <2>3. CASE UNCHANGED <<state, applying>> /\ Forget(x)
    <3>1. FreshIds' /\ Mapped' /\ ApplyingOK'
      BY ZenonT(60), <2>2, <2>3, FreshKept, ForgetKeeps DEF IdsOK, Same, ApplyingOK
    <3>2. WalOK'
      BY ZenonT(60), <2>2, <2>3, WalKept DEF IdsOK, WalOK, Same, Busy
    <3> QED
      BY ZenonT(60), <3>1, <3>2 DEF IdsOK
  <2>4. CASE /\ txn_id_map[x] # NoId /\ state[txn_id_map[x]] = "prepared"
             /\ state' = [state EXCEPT ![txn_id_map[x]] = "none"]
             /\ applying' = [id |-> txn_id_map[x], next |-> 1]
             /\ UNCHANGED <<last_applied, txn_id_map>>
    <3>1. PICK i \in Id : i = txn_id_map[x] /\ i[1] = x
      BY <1>a, <2>4 DEF IdsOK, Mapped
    <3>2. /\ \A j \in Id : j # i => state'[j] = state[j]
          /\ state'[i] = "none" /\ applying' = [id |-> i, next |-> 1] /\ applying' # NoCommit
      BY <2>4, <3>1 DEF Types, NoCommit
    <3>3. FreshIds'
      BY ZenonT(60), <2>2, <3>1, <3>2, FreshKept DEF IdsOK, Same
    <3>5. Mapped'
      <4>1. pc[x] \notin {"prepared", "proposed"}
        BY ZenonT(60), <2>2
      <4>2. ASSUME NEW y \in Txn, y # x PROVE state'[Begun(y)] = state[Begun(y)]
        BY ZenonT(60), <3>1, <3>2, <4>2, IdFacts
      <4> QED
        BY ZenonT(60), <2>2, <2>4, <4>1, <4>2 DEF IdsOK, Mapped
    <3>6. ApplyingOK'
      BY <2>1, <2>2, <2>4, <3>1, <3>2 DEF ApplyingOK
    <3>7. WalAt(i)'
      BY ZenonT(60), <2>2, <2>4, <3>1, <3>2 DEF IdsOK, WalOK, WalAt, Busy
    <3>8. ASSUME NEW j \in Id, j # i PROVE WalAt(j)'
      BY ZenonT(60), <2>2, <3>2, <3>8, WalKept DEF IdsOK, WalOK, Busy, Same
    <3>4. WalOK'
      BY ZenonT(60), <3>7, <3>8 DEF WalOK
    <3> QED
      BY ZenonT(60), <3>3, <3>4, <3>5, <3>6 DEF IdsOK
  <2> QED
    BY ZenonT(60), <1>5, <2>1, <2>3, <2>4 DEF ApplyCommit
<1>6. ASSUME ApplyWrite PROVE IdsOK'
  <2>1. /\ UNCHANGED <<pc, writing, rlog, life, wal, write_set, state>> /\ \A y \in Txn : Begun(y)' = Begun(y)
        /\ UNCHANGED <<txn_id_map, last_applied>>
        /\ applying # NoCommit /\ applying' = [applying EXCEPT !.next = @ + 1]
    BY ZenonT(60), <1>6 DEF ApplyWrite, coordVars, writeVars, txnVars, Begun
  <2>2. applying'.id = applying.id /\ applying'.next > 0
    BY <2>1 DEF Types, IdsOK, ApplyingOK
  <2>3. FreshIds'
    BY ZenonT(60), <2>1, FreshKept DEF IdsOK, Same
  <2>6. Mapped'
    BY <2>1 DEF IdsOK, Mapped
  <2>5. ApplyingOK'
    BY ZenonT(60), <2>1, <2>2 DEF IdsOK, ApplyingOK
  <2>4. WalOK'
    BY ZenonT(60), <2>1, <2>2, WalKept DEF IdsOK, WalOK, Same, Busy
  <2> QED
    BY ZenonT(60), <2>3, <2>4, <2>5, <2>6 DEF IdsOK
<1>7. ASSUME CommitDone PROVE IdsOK'
  <2>1. PICK i \in Id : i = applying.id
    BY ZenonT(60), <1>7 DEF CommitDone, IdsOK, ApplyingOK
  <2>2. /\ UNCHANGED <<pc, writing, rlog, life, state>> /\ \A y \in Txn : Begun(y)' = Begun(y)
        /\ applying' = NoCommit /\ Forget(i[1])
    BY ZenonT(60), <1>7, <2>1 DEF CommitDone, coordVars, writeVars, Begun
  <2>3. /\ \A j \in Id : j = i \/ Same(j)
        /\ wal'[i].last = "COMMIT" /\ wal'[i].writes = wal[i].writes /\ write_set'[i] = <<>>
    <3>1. wal[i] \in Records
      BY ZenonT(60) DEF Types
    <3> QED
      BY <1>7, <2>1, <3>1 DEF CommitDone, Log, Same, Types, Records
  <2>4. /\ state[i] = "none" /\ wal[i].last = "PREPARE" /\ pc[i[1]] \in {"committing", "committed"}
    <3>1. last_applied + 1 \in DOMAIN rlog
      BY <1>7 DEF CommitDone, IdsOK, ApplyingOK, Types
    <3> QED
      BY ZenonT(60), <1>7, <2>1, <3>1 DEF CommitDone, IdsOK, ApplyingOK, WalOK, WalAt, Busy, LogOK
  <2>5. FreshIds' /\ Mapped' /\ ApplyingOK'
    BY ZenonT(60), <2>2, <2>3, <2>4, FreshKept, ForgetKeeps DEF IdsOK, ApplyingOK
  <2>6. WalAt(i)'
    BY ZenonT(60), <2>1, <2>2, <2>3, <2>4 DEF IdsOK, WalOK, WalAt, Busy, NoCommit
  <2>7. ASSUME NEW j \in Id, j # i PROVE WalAt(j)'
    BY ZenonT(60), <2>2, <2>3, <2>7, WalKept DEF IdsOK, WalOK, Busy, Same, NoCommit
  <2> QED
    BY ZenonT(60), <2>5, <2>6, <2>7 DEF IdsOK, WalOK
<1>8. ASSUME ApplyAbort PROVE IdsOK'
  <2>1. PICK x \in Txn : x = rlog[last_applied + 1].txn
    BY ZenonT(60), <1>8, <1>f DEF ApplyAbort
  <2>2. /\ UNCHANGED <<pc, writing, rlog, life>> /\ \A y \in Txn : Begun(y)' = Begun(y)
        /\ applying = NoCommit /\ applying' = NoCommit /\ pc[x] = "aborted" /\ Forget(x)
    BY <1>8, <1>f, <2>1 DEF ApplyAbort, coordVars, writeVars, Begun, LogOK
  <2>3. CASE UNCHANGED <<state, wal, write_set>>
    <3>1. FreshIds' /\ Mapped' /\ ApplyingOK'
      BY ZenonT(60), <2>2, <2>3, FreshKept, ForgetKeeps DEF IdsOK, Same, ApplyingOK
    <3>2. WalOK'
      BY ZenonT(60), <2>2, <2>3, WalKept DEF IdsOK, WalOK, Same, Busy
    <3> QED
      BY ZenonT(60), <3>1, <3>2 DEF IdsOK
  <2>4. CASE txn_id_map[x] # NoId /\ AbortTxn(txn_id_map[x])
    <3>1. PICK i \in Id : i = txn_id_map[x] /\ i[1] = x
      BY <1>a, <2>4 DEF IdsOK, Mapped
    <3>2. /\ \A j \in Id : j = i \/ Same(j)
          /\ state'[i] = "none"
          /\ \/ state[i] = "none" /\ Same(i)
             \/ wal'[i].last = "ABORT" /\ write_set'[i] = <<>>
      BY ZenonT(60), <2>4, <3>1, AbortTxnIds
    <3>3. FreshIds' /\ Mapped' /\ ApplyingOK'
      BY ZenonT(60), <2>2, <3>1, <3>2, FreshKept, ForgetKeeps DEF IdsOK, ApplyingOK, Same
    <3>4. ASSUME NEW j \in Id, Same(j) PROVE WalAt(j)'
      BY ZenonT(60), <2>2, <3>4, WalKept DEF IdsOK, WalOK, Busy, Same
    <3>5. ASSUME wal'[i].last = "ABORT" PROVE WalAt(i)'
      BY ZenonT(60), <2>2, <3>2, <3>5, IdTxn DEF WalAt, Busy, NoCommit
    <3> QED
      BY ZenonT(60), <3>2, <3>3, <3>4, <3>5 DEF IdsOK, WalOK
  <2> QED
    BY ZenonT(60), <1>8, <2>1, <2>3, <2>4 DEF ApplyAbort, txnVars
<1>9. ASSUME Restart PROVE IdsOK'
  <2>1. /\ \A i \in Id : /\ state'[i] = IF wal[i].last = "PREPARE" THEN "prepared" ELSE "none"
                         /\ write_set'[i] = IF wal[i].last = "PREPARE" THEN wal[i].writes ELSE <<>>
                         /\ wal'[i] = IF wal[i].last \in {"PREPARE", "COMMIT"} THEN wal[i] ELSE NoRecords
        /\ \A x \in Txn : /\ pc'[x] = IF pc[x] \in {"active", "preparing", "prepared", "proposed"}
                                      THEN "refused" ELSE pc[x]
                          /\ txn_id_map'[x] = NoId /\ writing'[x] = NoWrite
        /\ applying' = NoCommit /\ rlog' = rlog
    BY ZenonT(60), <1>9 DEF Restart, InDoubt, Durable
  <2>2. Mapped' /\ ApplyingOK'
    BY ZenonT(60), <2>1 DEF Mapped, ApplyingOK
  <2>4. FreshIds'
    BY <2>1 DEF IdsOK, FreshIds, NoRecords
  <2>3. WalOK'
    BY <2>1 DEF IdsOK, WalOK, WalAt, Busy, NoRecords, NoCommit
  <2> QED
    BY ZenonT(60), <2>2, <2>3, <2>4 DEF IdsOK
<1>10. ASSUME NEW x \in Txn,
              \/ \E w \in Write : WriteTimedOut(x, w)
              \/ Abort(x) \/ PrepareFails(x) \/ PrepareNotReplicated(x)
       PROVE  IdsOK'
  BY ZenonT(60), <1>b, <1>10 DEF WriteTimedOut, MayWrite, Abort, PrepareFails, PrepareNotReplicated, coordVars, writeVars
<1>11. ASSUME NEW x \in Txn, CallPrepare(x) \/ Vote(x) \/ CommitReturns(x) PROVE IdsOK'
  BY ZenonT(60), <1>c, <1>11 DEF CallPrepare, Vote, CommitReturns, Become, writeVars, txnVars, diskVars
<1>12. ASSUME NEW x \in Txn,
              \/ ScanAll(x) \/ \E k \in Key : Read(x, k)
              \/ \E w \in Write : WriteLocked(x, w)
       PROVE  IdsOK'
  <2>1. CASE ScanAll(x) \/ \E k \in Key : Read(x, k)
    BY ZenonT(60), <1>d, <2>1 DEF ScanAll, Read, Observe, coordVars, writeVars, diskVars, IdsOK, FreshIds
  <2>2. CASE \E w \in Write : WriteLocked(x, w)
    BY <1>a, <1>d, <2>2 DEF WriteLocked, MayWrite, coordVars, txnVars, diskVars, IdsOK, FreshIds
  <2> QED
    BY ZenonT(60), <1>12, <2>1, <2>2
<1>13. ASSUME NEW x \in Txn, WriteBuffer(x) \/ WriteRetried(x) PROVE IdsOK'
  <2>1. /\ \/ Buffer(x) /\ state[Begun(x)] = "active" /\ writing[x] # NoWrite
           \/ UNCHANGED <<write_set, wal>>
        /\ UNCHANGED <<pc, state, txn_id_map, rlog>> /\ UNCHANGED <<last_applied, applying, life>>
        /\ writing' = writing \/ writing' = [writing EXCEPT ![x] = NoWrite]
    BY ZenonT(60), <1>13 DEF WriteBuffer, WriteRetried, coordVars
  <2>2. \A y \in Txn : pc[y] = "new" => writing'[y] = NoWrite
    BY ZenonT(60), <1>a, <2>1 DEF IdsOK, FreshIds
  <2> QED
    BY ZenonT(60), <1>d, <1>e, <2>1, <2>2
<1>14. CASE UNCHANGED vars
  BY ZenonT(60), <1>d, <1>14 DEF vars, coordVars, writeVars, txnVars, diskVars, IdsOK, FreshIds
<1> HIDE IdTxn, IdFacts, LogFacts
<1> QED
  BY ZenonT(60), <1>1, <1>2, <1>3, <1>4, <1>5, <1>6, <1>7, <1>8, <1>9, <1>10, <1>11, <1>12, <1>13, <1>14
  DEF Next
-----------------------------------------------------------------------------
(* No lock is leaked *)

\* What NoLeakedLocks asks of the owner of a lock.
Holds(i) ==
  \/ state[i] # "none"
  \/ applying.id = i
  \/ i = Begun(i[1]) /\ writing[i[1]] # NoWrite

LEMMA LeakKept ==
  ASSUME Types, NoLeakedLocks, \A k \in Key : owner'[k] \in {NoId, owner[k]},
         \A i \in Id : Holds(i) => Holds(i)' \/ \A k \in Key : owner'[k] # i
  PROVE  NoLeakedLocks'
<1> SUFFICES ASSUME NEW k \in Key, owner'[k] # NoId
             PROVE  \E i \in Id : i = owner'[k] /\ Holds(i)'
  BY ZenonT(60) DEF NoLeakedLocks, Holds
<1>1. PICK i \in Id : i = owner[k] /\ i = owner'[k]
  BY ZenonT(60) DEF Types
<1>2. Holds(i)
  BY ZenonT(60), <1>1, IdTxn DEF NoLeakedLocks, Holds
<1> QED
  BY ZenonT(60), <1>1, <1>2

LEMMA AbortTxnLocks ==
  ASSUME Types, NEW i \in Id, AbortTxn(i)
  PROVE  /\ \A k \in Key : owner'[k] \in {NoId, owner[k]}
         /\ \A j \in Id : state'[j] = state[j] \/ (j = i /\ \A k \in Key : owner'[k] # j)
         /\ \A j \in Id : state[j] = "none" => state'[j] = "none"
<1>1. CASE state[i] = "none"
  BY ZenonT(60), <1>1 DEF AbortTxn, txnVars
<1>2. CASE state[i] # "none"
  <2>1. \A k \in Key : owner'[k] = IF owner[k] = i THEN NoId ELSE owner[k]
    BY ZenonT(60), <1>2 DEF AbortTxn, ReleaseAll, Without
  <2>2. state'[i] = "none" /\ \A j \in Id : j # i => state'[j] = state[j]
    BY ZenonT(60), <1>2 DEF AbortTxn, Types
  <2> QED
    BY ZenonT(60), <2>1, <2>2, IdTxn
<1> QED
  BY ZenonT(60), <1>1, <1>2

LEMMA LeakNext ==
  ASSUME Types, IdsOK, NoLeakedLocks, [Next]_vars
  PROVE  NoLeakedLocks'
<1>a. ASSUME UNCHANGED <<owner, writing, life, applying>>,
             \A i \in Id : state[i] # "none" => state'[i] # "none"
      PROVE  NoLeakedLocks'
  BY ZenonT(60), <1>a, LeakKept DEF Holds, Begun
<1>b. ASSUME NEW i \in Id, AbortTxn(i), UNCHANGED <<writing, life, applying>>
      PROVE  NoLeakedLocks'
  <2>1. \A j \in Id : Holds(j) => Holds(j)' \/ \A k \in Key : owner'[k] # j
    BY ZenonT(60), <1>b, AbortTxnLocks DEF Holds, Begun
  <2> QED
    BY ZenonT(60), <1>b, <2>1, AbortTxnLocks, LeakKept
<1>1. ASSUME NEW x \in Txn, NEW w \in Write, WriteLocked(x, w) PROVE NoLeakedLocks'
  <2>1. PICK i \in Id : i = Begun(x) /\ i[1] = x
    BY ZenonT(60), IdFacts
  <2>2. /\ \A k \in Key : owner'[k] = i \/ owner'[k] = owner[k]
        /\ writing'[x] = w /\ \A y \in Txn : y # x => writing'[y] = writing[y]
        /\ UNCHANGED <<state, life, applying>> /\ i = Begun(x)'
    BY ZenonT(60), <1>1, <2>1 DEF WriteLocked, Types, txnVars, Begun
  <2>3. w # NoWrite
    BY IdAssumption DEF Write, NoWrite
  <2>4. \A j \in Id : Holds(j) => Holds(j)'
    BY ZenonT(60), <2>1, <2>2, <2>3, IdTxn DEF Holds, Begun
  <2>5. Holds(i)'
    BY ZenonT(60), <2>1, <2>2, <2>3 DEF Holds
  <2> SUFFICES ASSUME NEW k \in Key, owner'[k] # NoId
               PROVE  \E j \in Id : j = owner'[k] /\ Holds(j)'
    BY ZenonT(60) DEF NoLeakedLocks, Holds
  <2>6. CASE owner'[k] = i
    BY ZenonT(60), <2>5, <2>6
  <2>7. CASE owner'[k] = owner[k]
    <3>1. PICK j \in Id : j = owner[k]
      BY ZenonT(60), <2>7 DEF Types
    <3>2. Holds(j)
      BY ZenonT(60), <3>1, IdTxn DEF NoLeakedLocks, Holds
    <3> QED
      BY ZenonT(60), <2>4, <2>7, <3>1, <3>2
  <2> QED
    BY ZenonT(60), <2>2, <2>6, <2>7
<1>2. ASSUME NEW x \in Txn, WriteBuffer(x) PROVE NoLeakedLocks'
  <2>1. PICK i \in Id : i = Begun(x) /\ i[1] = x
    BY ZenonT(60), IdFacts
  <2>2. /\ UNCHANGED <<state, life, applying>> /\ \A y \in Txn : y # x => writing'[y] = writing[y]
        /\ \/ owner' = owner /\ state[i] = "active"
           \/ owner' = Without(i)
    BY ZenonT(60), <1>2, <2>1 DEF WriteBuffer, ReleaseAll, Types
  <2>3. /\ \A k \in Key : owner'[k] \in {NoId, owner[k]}
        /\ state[i] = "active" \/ \A k \in Key : owner'[k] # i
    BY ZenonT(60), <2>2, IdTxn DEF Without
  <2>4. ASSUME NEW j \in Id, Holds(j) PROVE Holds(j)' \/ \A k \in Key : owner'[k] # j
    <3>1. j[1] \in Txn /\ Begun(j[1])' = Begun(j[1])
      BY ZenonT(60), <2>2, IdTxn DEF Begun
    <3>2. CASE j = i
      BY ZenonT(60), <2>2, <2>3, <3>2 DEF Holds
    <3>3. CASE j # i
      BY ZenonT(60), <2>1, <2>2, <2>4, <3>1, <3>3 DEF Holds
    <3> QED
      BY ZenonT(60), <3>2, <3>3
  <2> QED
    BY ZenonT(60), <2>3, <2>4, LeakKept
<1>3. ASSUME ApplyCommit PROVE NoLeakedLocks'
  <2>1. /\ UNCHANGED <<owner, writing, life>> /\ applying = NoCommit
        /\ \/ UNCHANGED <<state, applying>>
           \/ \E i \in Id : state' = [state EXCEPT ![i] = "none"] /\ applying' = [id |-> i, next |-> 1]
    <3>1. rlog[last_applied + 1].txn \in Txn
      BY ZenonT(60), <1>3, NextFacts DEF ApplyCommit
    <3> QED
      BY ZenonT(60), <1>3, <3>1 DEF ApplyCommit, writeVars, Types
  <2>2. CASE UNCHANGED <<state, applying>>
    BY ZenonT(60), <1>a, <2>1, <2>2
  <2>3. ASSUME NEW i \in Id, state' = [state EXCEPT ![i] = "none"], applying' = [id |-> i, next |-> 1]
        PROVE  NoLeakedLocks'
    <3>1. applying'.id = i /\ \A j \in Id : j # i => state'[j] = state[j] /\ applying.id # j
      BY ZenonT(60), <2>1, <2>3, IdTxn DEF Types, NoCommit
    <3>2. \A j \in Id : Holds(j) => Holds(j)'
      BY ZenonT(60), <2>1, <3>1 DEF Holds, Begun
    <3> QED
      BY ZenonT(60), <2>1, <3>2, LeakKept
  <2> QED
    BY ZenonT(60), <2>1, <2>2, <2>3
<1>4. ASSUME CommitDone PROVE NoLeakedLocks'
  <2>1. /\ UNCHANGED <<state, writing, life>> /\ owner' = Without(applying.id) /\ applying' = NoCommit
        /\ applying.id \in Id
    BY ZenonT(60), <1>4 DEF CommitDone, ReleaseAll, writeVars, IdsOK, ApplyingOK
  <2>2. /\ \A k \in Key : owner'[k] \in {NoId, owner[k]}
        /\ \A k \in Key : owner'[k] # applying.id
    BY ZenonT(60), <2>1, IdTxn DEF Without
  <2>3. \A j \in Id : Holds(j) => Holds(j)' \/ \A k \in Key : owner'[k] # j
    BY ZenonT(60), <2>1, <2>2 DEF Holds, Begun
  <2> QED
    BY ZenonT(60), <2>2, <2>3, LeakKept
<1>5. ASSUME Restart PROVE NoLeakedLocks'
  <2>1. ASSUME NEW k \in Key, owner'[k] # NoId PROVE owner'[k] \in InDoubt
    BY ZenonT(60), <1>5, <2>1 DEF Restart, RecoveredOwner
  <2>2. \A i \in InDoubt : state'[i] = "prepared"
    BY ZenonT(60), <1>5 DEF Restart, InDoubt
  <2> QED
    BY ZenonT(60), <2>1, <2>2 DEF NoLeakedLocks
<1>6. ASSUME ApplyAbort PROVE NoLeakedLocks'
  <2>1. /\ UNCHANGED <<writing, life, applying>>
        /\ UNCHANGED <<state, owner>> \/ \E i \in Id : AbortTxn(i)
    <3>1. rlog[last_applied + 1].txn \in Txn
      BY ZenonT(60), <1>6, NextFacts DEF ApplyAbort
    <3> QED
      BY ZenonT(60), <1>6, <3>1 DEF ApplyAbort, writeVars, txnVars, Types
  <2> QED
    BY ZenonT(60), <1>a, <1>b, <2>1
<1>7. ASSUME ApplyPrepare \/ ApplyWrite \/ UNCHANGED vars PROVE NoLeakedLocks'
  <2>1. CASE ApplyPrepare
    BY ZenonT(60), <1>a, <2>1 DEF ApplyPrepare, ImportPreparedTxn, writeVars, Types
  <2>2. CASE ApplyWrite
    <3>1. applying'.id = applying.id /\ UNCHANGED <<owner, writing, life, state>>
      BY ZenonT(60), <2>2 DEF ApplyWrite, writeVars, txnVars, Types
    <3>2. \A j \in Id : Holds(j) => Holds(j)'
      BY ZenonT(60), <3>1 DEF Holds, Begun
    <3> QED
      BY ZenonT(60), <3>1, <3>2, LeakKept
  <2>3. CASE UNCHANGED vars
    BY ZenonT(60), <1>a, <2>3 DEF vars, writeVars, txnVars
  <2> QED
    BY ZenonT(60), <1>7, <2>1, <2>2, <2>3
<1>8. ASSUME NEW x \in Txn,
             \/ \E w \in Write : WriteTimedOut(x, w)
             \/ Abort(x) \/ PrepareFails(x) \/ PrepareNotReplicated(x)
      PROVE  NoLeakedLocks'
  BY ZenonT(60), <1>b, <1>8, IdFacts DEF WriteTimedOut, Abort, PrepareFails, PrepareNotReplicated, writeVars
<1>9. ASSUME NEW x \in Txn,
             \/ Begin(x) \/ ScanAll(x) \/ \E k \in Key : Read(x, k)
             \/ WriteRetried(x)
             \/ Prepare(x)
      PROVE  NoLeakedLocks'
  <2>1. UNCHANGED <<owner, writing, life, applying>>
    BY ZenonT(60), <1>9 DEF Begin, ScanAll, Read, Observe, WriteRetried, Prepare, writeVars
  <2>2. \A i \in Id : state[i] # "none" => state'[i] # "none"
    BY ZenonT(60), <1>9 DEF Begin, ScanAll, Read, Observe, WriteRetried, Prepare, Types
  <2> QED
    BY ZenonT(60), <1>a, <2>1, <2>2
<1>10. ASSUME NEW x \in Txn,
              \/ CallPrepare(x) \/ ProposePrepare(x) \/ Vote(x) \/ Commit(x) \/ CommitReturns(x)
              \/ AbortVoted(x)
       PROVE  NoLeakedLocks'
  BY ZenonT(60), <1>a, <1>10 DEF CallPrepare, ProposePrepare, Vote, Commit, CommitReturns, AbortVoted,
                                 writeVars, txnVars
<1> QED
  BY ZenonT(60), <1>1, <1>2, <1>3, <1>4, <1>5, <1>6, <1>7, <1>8, <1>9, <1>10 DEF Next
-----------------------------------------------------------------------------
(* Only committed versions are stored *)

LEMMA StoredKept ==
  ASSUME OnlyCommittedIsStored,
         \A x \in CommittedTxns :
           /\ x \in CommittedTxns' /\ commit_ts'[x] = commit_ts[x]
           /\ \A k : Wrote(x, k) => Wrote(x, k)',
         \A v \in store' : \/ v \in store
                           \/ \E x \in CommittedTxns : v.ts = commit_ts[x] /\ Wrote(x, v.key)
  PROVE  OnlyCommittedIsStored'
BY ZenonT(60) DEF OnlyCommittedIsStored

\* The writes that the WAL has of a transaction are those in the replicated log.
LEMMA WalHasWrites ==
  ASSUME Types, LogOK, NEW i \in Id, WalAt(i), wal[i].last \in {"PREPARE", "COMMIT"},
         pc[i[1]] \in {"voted", "committing", "committed"}
  PROVE  InLog("prepare", i[1]) # {} /\ wal[i].writes = WritesOf(i[1])
<1>1. InLog("prepare", i[1]) # {}
  BY IdTxn DEF LogOK, InLog
<1> DEFINE n == CHOOSE m \in InLog("prepare", i[1]) : TRUE
<1>2. n \in InLog("prepare", i[1])
  BY ZenonT(60), <1>1
<1> QED
  BY ZenonT(60), <1>1, <1>2 DEF WalAt, WritesOf, InLog

LEMMA WalIsWritten ==
  ASSUME Types, LogOK, NEW i \in Id, WalAt(i), wal[i].last \in {"PREPARE", "COMMIT"},
         pc[i[1]] \in {"committing", "committed"}
  PROVE  i[1] \in CommittedTxns /\ \A k \in KeysOf(wal[i].writes) : Wrote(i[1], k)
<1>1. InLog("commit", i[1]) # {}
  BY ZenonT(60), IdTxn DEF LogOK, InLog
<1> QED
  BY ZenonT(60), <1>1, IdTxn, WalHasWrites DEF CommittedTxns, Wrote

LEMMA StoredNext ==
  ASSUME Types, LogOK, IdsOK, OnlyCommittedIsStored, [Next]_vars
  PROVE  OnlyCommittedIsStored'
<1>a. \A x \in CommittedTxns : x \in Txn /\ pc[x] \in {"committing", "committed"}
  BY DEF CommittedTxns, InLog, LogOK
<1>b. ASSUME rlog' = rlog
      PROVE  CommittedTxns' = CommittedTxns /\ \A x, k : Wrote(x, k)' = Wrote(x, k)
  BY ZenonT(60), <1>b DEF CommittedTxns, Wrote, WritesOf, InLog
<1>c. ASSUME UNCHANGED <<store, commit_ts, rlog>> PROVE OnlyCommittedIsStored'
  BY ZenonT(60), <1>b, <1>c, StoredKept
<1>1. ASSUME NEW x \in Txn, CallPrepare(x) PROVE OnlyCommittedIsStored'
  <2>1. UNCHANGED <<store, rlog>> /\ pc[x] = "active" /\ commit_ts' = [commit_ts EXCEPT ![x] = clock]
    BY ZenonT(60), <1>1 DEF CallPrepare, diskVars
  <2>2. \A y \in CommittedTxns : y # x
    BY ZenonT(60), <1>a, <2>1
  <2>3. \A y \in CommittedTxns : commit_ts'[y] = commit_ts[y]
    BY <2>1, <2>2
  <2> QED
    BY ZenonT(60), <1>b, <2>1, <2>3, StoredKept
<1>2. ASSUME NEW x \in Txn, ProposePrepare(x) \/ Commit(x) \/ AbortVoted(x) PROVE OnlyCommittedIsStored'
  <2>1. PICK e \in Entry : /\ rlog' = Append(rlog, e) /\ e.txn = x
                           /\ e.op = "prepare" => pc[x] = "prepared"
    BY ZenonT(60), <1>2, EntryFacts DEF ProposePrepare, Commit, AbortVoted
  <2>2. UNCHANGED <<store, commit_ts>>
    BY ZenonT(60), <1>2 DEF ProposePrepare, Commit, AbortVoted
  <2>3. /\ \A n \in DOMAIN rlog : n \in DOMAIN rlog' /\ rlog'[n] = rlog[n]
        /\ \A n \in DOMAIN rlog' : n \in DOMAIN rlog \/ rlog'[n] = e
    BY <2>1, LogFacts
  <2>4. ASSUME NEW y \in CommittedTxns
        PROVE  y \in CommittedTxns' /\ \A k : Wrote(y, k) => Wrote(y, k)'
    <3>1. y \in CommittedTxns'
      BY ZenonT(60), <2>3 DEF CommittedTxns, InLog
    <3>2. ~(e.op = "prepare" /\ e.txn = y)
      BY ZenonT(60), <1>a, <2>1
    <3>3. ASSUME NEW n PROVE n \in InLog("prepare", y)' <=> n \in InLog("prepare", y)
      BY ZenonT(60), <2>3, <3>2 DEF InLog
    <3>4. InLog("prepare", y)' = InLog("prepare", y)
      BY ZenonT(60), <3>3
    <3>5. InLog("prepare", y) # {} => WritesOf(y)' = WritesOf(y)
      <4>1. ASSUME InLog("prepare", y) # {}
            PROVE  (CHOOSE m \in InLog("prepare", y) : TRUE) \in InLog("prepare", y)
        BY ZenonT(60), <4>1
      <4> QED
        BY ZenonT(60), <2>3, <3>4, <4>1 DEF WritesOf, InLog
    <3> QED
      BY ZenonT(60), <3>1, <3>4, <3>5 DEF Wrote
  <2> QED
    BY ZenonT(60), <2>2, <2>4, StoredKept
<1>3. ASSUME ApplyWrite PROVE OnlyCommittedIsStored'
  <2>1. PICK i \in Id : i = applying.id
    BY ZenonT(60), <1>3 DEF ApplyWrite, IdsOK, ApplyingOK
  <2>2. last_applied + 1 \in DOMAIN rlog
    BY <1>3 DEF ApplyWrite, IdsOK, ApplyingOK, Types
  <2>3. /\ pc[i[1]] \in {"committing", "committed"} /\ WalAt(i) /\ Busy(i)
        /\ UNCHANGED <<rlog, commit_ts>>
    BY ZenonT(60), <1>3, <2>1, <2>2 DEF ApplyWrite, IdsOK, ApplyingOK, WalOK, LogOK, Busy, coordVars
  <2>4. wal[i].last = "PREPARE" /\ wal[i].writes = write_set[i]
    BY ZenonT(60), <2>3 DEF WalAt
  <2>5. i[1] \in CommittedTxns /\ \A k \in KeysOf(write_set[i]) : Wrote(i[1], k)
    BY ZenonT(60), <2>3, <2>4, WalIsWritten
  <2>6. PICK n \in DOMAIN write_set[i] :
          store' = Put(store, VersionOf(write_set[i][n], commit_ts[i[1]], n))
    <3>1. write_set[i] \in Seq(Write)
      BY ZenonT(60) DEF Types
    <3>2. applying.next \in DOMAIN write_set[i]
      BY <1>3, <2>1, <3>1 DEF ApplyWrite, IdsOK, ApplyingOK, Types
    <3> QED
      BY ZenonT(60), <1>3, <2>1, <3>2 DEF ApplyWrite
  <2>7. write_set[i][n].key \in KeysOf(write_set[i])
    BY ZenonT(60), <2>6 DEF KeysOf
  <2>8. ASSUME NEW v \in store'
        PROVE  v \in store \/ (v.ts = commit_ts[i[1]] /\ v.key = write_set[i][n].key)
    <3>1. v \in store \/ v = VersionOf(write_set[i][n], commit_ts[i[1]], n)
      BY ZenonT(60), <2>6 DEF Put
    <3> QED
      BY <3>1 DEF VersionOf
  <2> QED
    BY ZenonT(60), <1>b, <2>3, <2>5, <2>7, <2>8, StoredKept
<1>4. ASSUME Restart PROVE OnlyCommittedIsStored'
  <2>1. UNCHANGED <<rlog, commit_ts>>
    BY ZenonT(60), <1>4 DEF Restart
  <2>2. ASSUME NEW v \in store', v \notin store
        PROVE  \E i \in Durable : v \in Replayed(i)
    <3>1. PICK lost : store' = (UNION {Replayed(i) : i \in Durable}) \cup
                       {u \in store \ lost : \A w \in UNION {Replayed(i) : i \in Durable} :
                                               w.key # u.key \/ w.ts # u.ts}
      BY ZenonT(60), <1>4 DEF Restart
    <3> QED
      BY ZenonT(60), <2>2, <3>1
  <2>3. ASSUME NEW v, NEW i \in Durable, v \in Replayed(i)
        PROVE  i[1] \in CommittedTxns /\ v.ts = commit_ts[i[1]] /\ Wrote(i[1], v.key)
    <3>1. i \in Id /\ WalAt(i) /\ wal[i].last = "COMMIT" /\ pc[i[1]] \in {"committing", "committed"}
      BY ZenonT(60) DEF Durable, IdsOK, WalOK, WalAt
    <3>2. v.ts = commit_ts[i[1]] /\ v.key \in KeysOf(wal[i].writes)
      <4>1. PICK n \in DOMAIN wal[i].writes : v = VersionOf(wal[i].writes[n], commit_ts[i[1]], n)
        BY ZenonT(60), <2>3 DEF Replayed
      <4> QED
        BY ZenonT(60), <4>1 DEF VersionOf, KeysOf
    <3> QED
      BY ZenonT(60), <3>1, <3>2, WalIsWritten
  <2> QED
    BY ZenonT(60), <1>b, <2>1, <2>2, <2>3, StoredKept
<1>5. ASSUME NEW x \in Txn,
             \/ Begin(x) \/ Abort(x) \/ Prepare(x) \/ PrepareFails(x) \/ PrepareNotReplicated(x)
             \/ Vote(x) \/ CommitReturns(x)
      PROVE  OnlyCommittedIsStored'
  BY ZenonT(60), <1>c, <1>5 DEF Begin, Abort, Prepare, PrepareFails, PrepareNotReplicated, Vote,
                                CommitReturns, diskVars
<1>6. ASSUME NEW x \in Txn,
             \/ ScanAll(x) \/ \E k \in Key : Read(x, k)
             \/ \E w \in Write : WriteLocked(x, w) \/ WriteTimedOut(x, w)
             \/ WriteBuffer(x) \/ WriteRetried(x)
      PROVE  OnlyCommittedIsStored'
  BY ZenonT(60), <1>c, <1>6 DEF ScanAll, Read, Observe, WriteLocked, WriteTimedOut, WriteBuffer,
                                WriteRetried, coordVars, diskVars
<1>7. ASSUME ApplyPrepare \/ ApplyCommit \/ CommitDone \/ ApplyAbort \/ UNCHANGED vars
      PROVE  OnlyCommittedIsStored'
  BY ZenonT(60), <1>c, <1>7 DEF ApplyPrepare, ApplyCommit, CommitDone, ApplyAbort, vars, coordVars, diskVars
<1> QED
  BY ZenonT(60), <1>1, <1>2, <1>3, <1>4, <1>5, <1>6, <1>7 DEF Next
-----------------------------------------------------------------------------
(* The locks of a transaction are its own until its COMMIT record *)

LEMMA AbortTxnWal ==
  ASSUME Types, IdsOK, NEW i \in Id, AbortTxn(i)
  PROVE  \A j \in Id : /\ wal'[j] # NoRecords => wal[j] # NoRecords
                       /\ wal[j].last = "COMMIT" => wal'[j] = wal[j]
<1>1. CASE state[i] = "none"
  BY ZenonT(60), <1>1 DEF AbortTxn
<1>2. CASE state[i] # "none"
  <2>1. wal[i].last \in {"PREPARE", "BEGIN", "WRITE"}
    BY ZenonT(60), <1>2 DEF IdsOK, WalOK, WalAt, Busy, Types
  <2>2. \A j \in Id : j # i => wal'[j] = wal[j]
    BY ZenonT(60), <1>2 DEF AbortTxn, Types
  <2> QED
    BY <2>1, <2>2 DEF NoRecords
<1> QED
  BY ZenonT(60), <1>1, <1>2

LEMMA ImportsKept ==
  ASSUME Types, Imports, life' = life, last_applied' \in Nat, last_applied <= last_applied',
         \A n \in DOMAIN rlog : n \in DOMAIN rlog' /\ rlog'[n] = rlog[n],
         \A i \in Id : wal'[i] # NoRecords =>
           \/ wal[i] # NoRecords
           \/ i[2] = life /\ (i[3] = "begun" \/ AppliedUpTo("prepare", i[1])')
  PROVE  Imports'
<1>1. ASSUME NEW x, AppliedUpTo("prepare", x) PROVE AppliedUpTo("prepare", x)'
  <2>1. last_applied \in Nat /\ DOMAIN rlog \subseteq Nat
    BY LogFacts DEF Types
  <2> QED
    BY <1>1, <2>1 DEF AppliedUpTo, InLog
<1>2. life \in Nat
  BY BoundAssumption DEF Types
<1> QED
  BY <1>1, <1>2 DEF Imports

LEMMA ImportsNext ==
  ASSUME Types, Types', IdsOK, Imports, [Next]_vars
  PROVE  Imports'
<1>a. last_applied \in Nat /\ last_applied' \in Nat /\ last_applied <= last_applied
  BY DEF Types
<1>b. ASSUME UNCHANGED <<life, rlog>>, last_applied' \in {last_applied, last_applied + 1},
             \A i \in Id : wal'[i] # NoRecords =>
               wal[i] # NoRecords \/ (i[2] = life /\ i[3] = "begun")
      PROVE  Imports'
  <2>1. last_applied <= last_applied'
    BY <1>a, <1>b
  <2> QED
    BY ZenonT(60), <1>a, <1>b, <2>1, ImportsKept
<1>c. ASSUME NEW i \in Id, AbortTxn(i), UNCHANGED <<life, rlog>>,
             last_applied' \in {last_applied, last_applied + 1}
      PROVE  Imports'
  BY ZenonT(60), <1>b, <1>c, AbortTxnWal
<1>d. \A x \in Txn : Begun(x) \in Id /\ Begun(x)[2] = life /\ Begun(x)[3] = "begun"
  BY ZenonT(60), IdFacts DEF Begun
<1>1. ASSUME NEW x \in Txn,
             \/ Begin(x) \/ WriteBuffer(x) \/ WriteRetried(x) \/ Prepare(x)
      PROVE  Imports'
  <2>1. UNCHANGED <<life, rlog, last_applied>>
    BY ZenonT(60), <1>1 DEF Begin, WriteBuffer, WriteRetried, Prepare
  <2>2. \A i \in Id : wal'[i] = wal[i] \/ i = Begun(x)
    BY ZenonT(60), <1>1 DEF Begin, WriteBuffer, WriteRetried, Prepare, Buffer, Log, Types
  <2> QED
    BY ZenonT(60), <1>b, <1>d, <2>1, <2>2
<1>2. ASSUME NEW x \in Txn,
             \/ \E w \in Write : WriteTimedOut(x, w)
             \/ Abort(x) \/ PrepareFails(x) \/ PrepareNotReplicated(x)
      PROVE  Imports'
  BY ZenonT(60), <1>c, <1>d, <1>2 DEF WriteTimedOut, Abort, PrepareFails, PrepareNotReplicated
<1>3. ASSUME NEW x \in Txn,
             \/ ScanAll(x) \/ \E k \in Key : Read(x, k)
             \/ \E w \in Write : WriteLocked(x, w)
             \/ CallPrepare(x) \/ Vote(x) \/ CommitReturns(x)
      PROVE  Imports'
  BY ZenonT(60), <1>b, <1>3 DEF ScanAll, Read, Observe, WriteLocked, CallPrepare, Vote, CommitReturns, diskVars
<1>4. ASSUME NEW x \in Txn, ProposePrepare(x) \/ Commit(x) \/ AbortVoted(x) PROVE Imports'
  <2>1. UNCHANGED <<life, wal, last_applied>>
    BY ZenonT(60), <1>4 DEF ProposePrepare, Commit, AbortVoted
  <2>2. PICK e \in Entry : rlog' = Append(rlog, e)
    BY ZenonT(60), <1>4, EntryFacts DEF ProposePrepare, Commit, AbortVoted
  <2>3. \A n \in DOMAIN rlog : n \in DOMAIN rlog' /\ rlog'[n] = rlog[n]
    BY <2>2, LogFacts
  <2> QED
    BY ZenonT(60), <1>a, <2>1, <2>3, ImportsKept
<1>5. ASSUME ApplyPrepare PROVE Imports'
  <2>1. /\ UNCHANGED <<life, rlog>> /\ last_applied' = last_applied + 1 /\ last_applied <= last_applied'
        /\ \A i \in Id : wal'[i] = wal[i] \/ i = Imported(rlog[last_applied + 1].txn)
    BY <1>5 DEF ApplyPrepare, ImportPreparedTxn, Types
  <2>2. PICK x \in Txn : x = rlog[last_applied + 1].txn
    BY ZenonT(60), <1>5, NextFacts DEF ApplyPrepare
  <2>3. AppliedUpTo("prepare", x)'
    BY <1>5, <2>1, <2>2, NextFacts DEF ApplyPrepare, AppliedUpTo, InLog, Types
  <2>4. Imported(x)[1] = x /\ Imported(x)[2] = life
    BY ZenonT(60) DEF Imported
  <2> QED
    BY ZenonT(60), <1>a, <2>1, <2>2, <2>3, <2>4, ImportsKept
<1>6. ASSUME CommitDone PROVE Imports'
  <2>1. PICK i \in Id : i = applying.id /\ wal[i].last = "PREPARE"
    BY ZenonT(60), <1>6 DEF CommitDone, IdsOK, ApplyingOK, WalOK, WalAt, Busy
  <2>2. wal[i] # NoRecords
    BY <2>1 DEF NoRecords
  <2>3. \A j \in Id : j # i => wal'[j] = wal[j]
    BY ZenonT(60), <1>6, <2>1 DEF CommitDone, Log, Types
  <2> QED
    BY ZenonT(60), <1>b, <1>6, <2>2, <2>3 DEF CommitDone
<1>7. ASSUME ApplyAbort PROVE Imports'
  <2>1. /\ UNCHANGED <<life, rlog>> /\ last_applied' = last_applied + 1
        /\ wal' = wal \/ \E i \in Id : AbortTxn(i)
    <3>1. rlog[last_applied + 1].txn \in Txn
      BY ZenonT(60), <1>7, NextFacts DEF ApplyAbort
    <3> QED
      BY ZenonT(60), <1>7, <3>1 DEF ApplyAbort, Types
  <2> QED
    BY ZenonT(60), <1>b, <1>c, <2>1
<1>8. ASSUME Restart PROVE Imports'
  <2>1. life \in Nat /\ life' = life + 1 /\ \A i \in Id : wal'[i] # NoRecords => wal[i] # NoRecords
    BY <1>8, BoundAssumption DEF Restart, Types
  <2>2. \A i \in Id : i[2] \in Nat
    BY BoundAssumption DEF Id
  <2> QED
    BY <2>1, <2>2 DEF Imports
<1>9. ASSUME ApplyCommit \/ ApplyWrite \/ UNCHANGED vars PROVE Imports'
  BY ZenonT(60), <1>b, <1>9 DEF ApplyCommit, ApplyWrite, vars, diskVars
<1> QED
  BY ZenonT(60), <1>1, <1>2, <1>3, <1>4, <1>5, <1>6, <1>7, <1>8, <1>9 DEF Next
\* The locks that a step may take away are those of one id g.
LEMMA ActiveKept ==
  ASSUME Types, ActiveLocked, life' = life, NEW g,
         \A k \in Key : owner[k] \notin {NoId, g} => owner'[k] = owner[k],
         \A x \in Txn : writing'[x] \in {writing[x], NoWrite},
         \A i \in Id : state'[i] = "active" =>
           state[i] = "active" /\ i # g /\ write_set'[i] = write_set[i]
  PROVE  ActiveLocked'
<1>1. \A x \in Txn : Begun(x)' = Begun(x) /\ Begun(x) \in Id /\ Begun(x) # NoId
  BY ZenonT(60), IdFacts, IdTxn DEF Begun
<1>2. ASSUME NEW x \in Txn, state'[Begun(x)] = "active", writing'[x] # NoWrite
      PROVE  owner'[writing'[x].key] = Begun(x)
  <2>1. writing'[x] = writing[x] /\ state[Begun(x)] = "active" /\ Begun(x) # g
    BY ZenonT(60), <1>1, <1>2
  <2>2. writing[x].key \in Key /\ owner[writing[x].key] = Begun(x)
    BY <1>2, <2>1 DEF ActiveLocked, Types, Write
  <2> QED
    BY ZenonT(60), <1>1, <2>1, <2>2
<1>3. ASSUME NEW i \in Id, state'[i] = "active"
      PROVE  i = Begun(i[1]) /\ \A k \in KeysOf(write_set'[i]) : owner'[k] = i
  <2>1. \A k \in KeysOf(write_set[i]) : k \in Key
    BY ZenonT(60), WriteKeys DEF Types
  <2> QED
    BY <1>3, <2>1, IdTxn DEF ActiveLocked
<1> QED
  BY <1>1, <1>2, <1>3, IdTxn DEF ActiveLocked

LEMMA ActiveNext ==
  ASSUME Types, IdsOK, ActiveLocked, [Next]_vars
  PROVE  ActiveLocked'
<1>a. ASSUME UNCHANGED <<owner, writing, write_set, life>>,
             \A i \in Id : state'[i] = "active" => state[i] = "active"
      PROVE  ActiveLocked'
  BY ZenonT(60), <1>a, IdTxn, ActiveKept
<1>b. ASSUME NEW i \in Id, AbortTxn(i), UNCHANGED <<writing, life>> PROVE ActiveLocked'
  <2>1. \A k \in Key : owner[k] \notin {NoId, i} => owner'[k] = owner[k]
    BY ZenonT(60), <1>b DEF AbortTxn, ReleaseAll, Without
  <2>2. \A j \in Id : state'[j] = "active" => state[j] = "active" /\ j # i /\ write_set'[j] = write_set[j]
    BY ZenonT(60), <1>b, AbortTxnIds DEF Same
  <2> QED
    BY ZenonT(60), <1>b, <2>1, <2>2, ActiveKept
<1>c. ASSUME NEW x \in Txn, Buffer(x), state[Begun(x)] = "active", writing[x] # NoWrite,
             UNCHANGED <<owner, state, life>>, \A y \in Txn : writing'[y] \in {writing[y], NoWrite}
      PROVE  ActiveLocked'
  <2>1. PICK i \in Id : i = Begun(x) /\ i[1] = x
    BY ZenonT(60), IdFacts
  <2>2. writing[x] \in Write /\ write_set[i] \in Seq(Write) /\ owner[writing[x].key] = i
    BY ZenonT(60), <1>c, <2>1 DEF ActiveLocked, Types
  <2>3. /\ write_set'[i] = Append(write_set[i], writing[x])
        /\ \A j \in Id : j # i => write_set'[j] = write_set[j]
    BY ZenonT(60), <1>c, <2>1 DEF Buffer, Types
  <2>4. \A k \in KeysOf(write_set'[i]) : k \in KeysOf(write_set[i]) \/ k = writing[x].key
    BY <2>2, <2>3 DEF KeysOf
  <2>5. \A y \in Txn : Begun(y)' = Begun(y)
    BY ZenonT(60), <1>c DEF Begun
  <2>6. \A j \in Id : state'[j] = "active" => j = Begun(j[1]) /\ \A k \in KeysOf(write_set'[j]) : owner'[k] = j
    BY ZenonT(60), <1>c, <2>1, <2>2, <2>3, <2>4 DEF ActiveLocked
  <2>7. \A y \in Txn : state'[Begun(y)] = "active" /\ writing'[y] # NoWrite => owner'[writing'[y].key] = Begun(y)
    BY ZenonT(60), <1>c DEF ActiveLocked
  <2> QED
    BY ZenonT(60), <2>5, <2>6, <2>7, IdTxn DEF ActiveLocked
<1>1. ASSUME NEW x \in Txn, Begin(x) PROVE ActiveLocked'
  <2>1. PICK i \in Id : i = Begun(x) /\ i[1] = x
    BY ZenonT(60), IdFacts
  <2>2. write_set[i] = <<>> /\ writing[x] = NoWrite
    BY ZenonT(60), <1>1, <2>1 DEF Begin, IdsOK, FreshIds
  <2>3. /\ UNCHANGED <<owner, writing, write_set, life>> /\ \A j \in Id : j # i => state'[j] = state[j]
        /\ \A y \in Txn : Begun(y)' = Begun(y)
    BY ZenonT(60), <1>1, <2>1 DEF Begin, writeVars, Types, Begun
  <2>4. KeysOf(write_set[i]) = {}
    BY <2>2 DEF KeysOf
  <2>5. \A y \in Txn : y # x => Begun(y) \in Id /\ Begun(y) # i
    BY ZenonT(60), <2>1, IdFacts
  <2>6. \A j \in Id : state'[j] = "active" => j = Begun(j[1]) /\ \A k \in KeysOf(write_set[j]) : owner[k] = j
    BY ZenonT(60), <2>1, <2>3, <2>4 DEF ActiveLocked
  <2>7. \A y \in Txn : state'[Begun(y)] = "active" /\ writing[y] # NoWrite => owner[writing[y].key] = Begun(y)
    BY ZenonT(60), <2>2, <2>3, <2>5 DEF ActiveLocked
  <2> QED
    BY ZenonT(60), <2>3, <2>6, <2>7, IdTxn DEF ActiveLocked
<1>2. ASSUME NEW x \in Txn, NEW w \in Write, WriteLocked(x, w) PROVE ActiveLocked'
  <2>1. PICK i \in Id : i = Begun(x) /\ i[1] = x
    BY ZenonT(60), IdFacts
  <2>2. /\ owner[w.key] \in {NoId, i} /\ owner' = [owner EXCEPT ![w.key] = i]
        /\ writing'[x] = w /\ \A y \in Txn : y # x => writing'[y] = writing[y]
        /\ UNCHANGED <<state, write_set, life>> /\ \A y \in Txn : Begun(y)' = Begun(y)
    BY ZenonT(60), <1>2, <2>1 DEF WriteLocked, Types, txnVars, Begun
  <2>3. w.key \in Key
    BY ZenonT(60) DEF Write
  <2>4. owner'[w.key] = i /\ \A k \in Key : owner[k] # NoId => owner'[k] = owner[k]
    BY ZenonT(60), <2>2, <2>3 DEF Types
  <2>5. ASSUME NEW y \in Txn, state[Begun(y)] = "active", writing'[y] # NoWrite
        PROVE  owner'[writing'[y].key] = Begun(y)
    <3>1. CASE y = x
      BY ZenonT(60), <2>1, <2>2, <2>4, <3>1
    <3>2. CASE y # x
      <4>1. owner[writing[y].key] = Begun(y) /\ writing[y].key \in Key
        BY ZenonT(60), <2>2, <2>5, <3>2 DEF ActiveLocked, Types, Write
      <4> QED
        <5>1. Begun(y) # NoId
          BY ZenonT(60), IdFacts, IdTxn
        <5> QED
          BY ZenonT(60), <2>2, <2>4, <3>2, <4>1, <5>1
    <3> QED
      BY ZenonT(60), <3>1, <3>2
  <2>6. ASSUME NEW j \in Id, state[j] = "active"
        PROVE  j = Begun(j[1]) /\ \A k \in KeysOf(write_set[j]) : owner'[k] = j
    <3>1. \A k \in KeysOf(write_set[j]) : k \in Key
      BY ZenonT(60), WriteKeys DEF Types
    <3> QED
      BY ZenonT(60), <2>4, <2>6, <3>1, IdTxn DEF ActiveLocked
  <2> QED
    BY <2>2, <2>5, <2>6, IdTxn DEF ActiveLocked
<1>3. ASSUME NEW x \in Txn, WriteBuffer(x) PROVE ActiveLocked'
  <2>1. /\ UNCHANGED <<state, life>> /\ \A y \in Txn : writing'[y] \in {writing[y], NoWrite}
        /\ writing[x] # NoWrite
    BY ZenonT(60), <1>3 DEF WriteBuffer, Types
  <2>2. CASE state[Begun(x)] = "active"
    BY ZenonT(60), <1>c, <1>3, <2>1, <2>2 DEF WriteBuffer
  <2>3. CASE state[Begun(x)] # "active"
    <3>1. write_set' = write_set /\ \A k \in Key : owner[k] \notin {NoId, Begun(x)} => owner'[k] = owner[k]
      BY ZenonT(60), <1>3, <2>3 DEF WriteBuffer, ReleaseAll, Without
    <3> QED
      BY ZenonT(60), <2>1, <2>3, <3>1, ActiveKept
  <2> QED
    BY ZenonT(60), <2>2, <2>3
<1>4. ASSUME CommitDone PROVE ActiveLocked'
  <2>1. PICK i \in Id : i = applying.id /\ state[i] = "none"
    BY ZenonT(60), <1>4 DEF CommitDone, IdsOK, ApplyingOK
  <2>2. /\ UNCHANGED <<state, writing, life>>
        /\ \A k \in Key : owner[k] \notin {NoId, i} => owner'[k] = owner[k]
        /\ \A j \in Id : j # i => write_set'[j] = write_set[j]
    BY ZenonT(60), <1>4, <2>1 DEF CommitDone, ReleaseAll, Without, writeVars, Types
  <2>3. \A j \in Id : state'[j] = "active" => state[j] = "active" /\ j # i /\ write_set'[j] = write_set[j]
    BY ZenonT(60), <2>1, <2>2
  <2> QED
    BY ZenonT(60), <2>2, <2>3, ActiveKept
<1>5. ASSUME ApplyPrepare PROVE ActiveLocked'
  <2>1. /\ UNCHANGED <<writing, life, owner>>
        /\ \A j \in Id : state'[j] = "active" => state[j] = "active" /\ write_set'[j] = write_set[j]
    BY ZenonT(60), <1>5 DEF ApplyPrepare, ImportPreparedTxn, writeVars, Types
  <2> QED
    BY ZenonT(60), <2>1, IdTxn, ActiveKept
<1>6. ASSUME Restart PROVE ActiveLocked'
  <2>1. \A j \in Id : state'[j] # "active"
    BY ZenonT(60), <1>6 DEF Restart
  <2>2. \A x \in Txn : writing'[x] = NoWrite
    BY ZenonT(60), <1>6 DEF Restart
  <2> QED
    BY ZenonT(60), <2>1, <2>2 DEF ActiveLocked
<1>7. ASSUME ApplyAbort PROVE ActiveLocked'
  <2>1. /\ UNCHANGED <<writing, life>>
        /\ UNCHANGED <<state, write_set, owner>> \/ \E i \in Id : AbortTxn(i)
    <3>1. rlog[last_applied + 1].txn \in Txn
      BY ZenonT(60), <1>7, NextFacts DEF ApplyAbort
    <3> QED
      BY ZenonT(60), <1>7, <3>1 DEF ApplyAbort, writeVars, txnVars, Types
  <2> QED
    BY ZenonT(60), <1>a, <1>b, <2>1
<1>8. ASSUME ApplyCommit \/ ApplyWrite \/ UNCHANGED vars PROVE ActiveLocked'
  <2>1. UNCHANGED <<owner, writing, write_set, life>>
    BY ZenonT(60), <1>8 DEF ApplyCommit, ApplyWrite, vars, writeVars, txnVars
  <2>2. \A i \in Id : state'[i] = "active" => state[i] = "active"
    BY ZenonT(60), <1>8 DEF ApplyCommit, ApplyWrite, vars, txnVars, Types
  <2> QED
    BY ZenonT(60), <1>a, <2>1, <2>2
<1>9. ASSUME NEW x \in Txn,
             \/ \E w \in Write : WriteTimedOut(x, w)
             \/ Abort(x) \/ PrepareFails(x) \/ PrepareNotReplicated(x)
      PROVE  ActiveLocked'
  BY ZenonT(60), <1>b, <1>9, IdFacts DEF WriteTimedOut, Abort, PrepareFails, PrepareNotReplicated, writeVars
<1>10. ASSUME NEW x \in Txn, WriteRetried(x) PROVE ActiveLocked'
  BY ZenonT(60), <1>c, <1>10 DEF WriteRetried
<1>11. ASSUME NEW x \in Txn,
              \/ ScanAll(x) \/ \E k \in Key : Read(x, k)
              \/ Prepare(x)
       PROVE  ActiveLocked'
  <2>1. UNCHANGED <<owner, writing, write_set, life>>
    BY ZenonT(60), <1>11 DEF ScanAll, Read, Observe, Prepare, writeVars
  <2>2. \A i \in Id : state'[i] = "active" => state[i] = "active"
    BY ZenonT(60), <1>11 DEF ScanAll, Read, Observe, Prepare, Types
  <2> QED
    BY ZenonT(60), <1>a, <2>1, <2>2
<1>12. ASSUME NEW x \in Txn,
              \/ CallPrepare(x) \/ ProposePrepare(x) \/ Vote(x) \/ Commit(x) \/ CommitReturns(x)
              \/ AbortVoted(x)
       PROVE  ActiveLocked'
  BY ZenonT(60), <1>a, <1>12 DEF CallPrepare, ProposePrepare, Vote, Commit, CommitReturns, AbortVoted,
                                 writeVars, txnVars
<1> QED
  BY ZenonT(60), <1>1, <1>2, <1>3, <1>4, <1>5, <1>6, <1>7, <1>8, <1>9, <1>10, <1>11, <1>12 DEF Next
LEMMA PreparedKept ==
  ASSUME Types, PreparedLocked, NEW g,
         \A k \in Key : owner[k] \notin {NoId, g} => owner'[k] = owner[k],
         \A x \in Txn : Pending(x)' => Pending(x) \/ Secured(x)',
         \A i \in Id : Pending(i[1])' /\ Busy(i) =>
           i # g /\ Busy(i)' /\ wal'[i].writes = wal[i].writes
  PROVE  PreparedLocked'
<1> SUFFICES ASSUME NEW x \in Txn, Pending(x)', Pending(x) PROVE Secured(x)'
  BY ZenonT(60) DEF PreparedLocked
<1>1. PICK i \in Id : i[1] = x /\ Busy(i) /\ \A k \in KeysOf(wal[i].writes) : owner[k] = i
  BY ZenonT(60) DEF PreparedLocked, Secured
<1>2. wal[i].writes \in Seq(Write)
  BY ZenonT(60) DEF Types, Records
<1>3. Busy(i)' /\ wal'[i].writes = wal[i].writes /\ i # g /\ i # NoId
  BY ZenonT(60), <1>1, IdTxn
<1>4. \A k \in KeysOf(wal[i].writes) : owner'[k] = i
  BY ZenonT(60), <1>1, <1>2, <1>3, WriteKeys
<1> QED
  BY ZenonT(60), <1>1, <1>3, <1>4 DEF Secured

LEMMA PreparedNext ==
  ASSUME Types, LogOK, IdsOK, Imports, ActiveLocked, PreparedLocked, [Next]_vars
  PROVE  PreparedLocked'
<1> DEFINE Late == {"prepared", "proposed", "voted", "committing"}
<1>a. ASSUME \A x \in Txn : pc'[x] \in Late => pc[x] \in Late, robbed \subseteq robbed',
             \A i \in Id : wal[i].last = "COMMIT" => wal'[i].last = "COMMIT"
      PROVE  \A x \in Txn : Pending(x)' => Pending(x)
  BY ZenonT(60), <1>a DEF Pending, HasCommitRecord
<1>b. ASSUME \A x \in Txn : pc'[x] \in Late => pc[x] \in Late, robbed' = robbed,
             \A k \in Key : owner[k] # NoId => owner'[k] = owner[k],
             \A i \in Id : wal'[i] = wal[i], \A i \in Id : Busy(i) => Busy(i)'
      PROVE  PreparedLocked'
  <2>1. \A x \in Txn : Pending(x)' => Pending(x)
    BY ZenonT(60), <1>a, <1>b
  <2> QED
    BY ZenonT(60), <1>b, <2>1, IdTxn, PreparedKept
<1>c. ASSUME NEW i \in Id, AbortTxn(i), UNCHANGED <<robbed, applying>>, pc'[i[1]] \notin Late,
             \A x \in Txn : pc'[x] \in Late => pc[x] \in Late
      PROVE  PreparedLocked'
  <2>1. \A k \in Key : owner[k] \notin {NoId, i} => owner'[k] = owner[k]
    BY ZenonT(60), <1>c DEF AbortTxn, ReleaseAll, Without
  <2>2. \A x \in Txn : Pending(x)' => Pending(x)
    BY ZenonT(60), <1>a, <1>c, AbortTxnWal
  <2>3. \A j \in Id : Pending(j[1])' => j # i
    BY ZenonT(60), <1>c DEF Pending
  <2>4. \A j \in Id : j # i /\ Busy(j) => Busy(j)' /\ wal'[j].writes = wal[j].writes
    BY ZenonT(60), <1>c, AbortTxnIds DEF Busy, Same
  <2> QED
    BY ZenonT(60), <2>1, <2>2, <2>3, <2>4, PreparedKept
<1>d. ASSUME NEW x \in Txn, Buffer(x), state[Begun(x)] = "active",
             UNCHANGED <<pc, robbed, owner, state, applying>>
      PROVE  PreparedLocked'
  <2>1. PICK i \in Id : i = Begun(x)
    BY ZenonT(60), IdFacts
  <2>2. ~Busy(i) /\ wal[i].last # "COMMIT"
    BY ZenonT(60), <1>d, <2>1, IdTxn DEF IdsOK, WalOK, WalAt, Busy, ApplyingOK, NoCommit
  <2>3. \A j \in Id : j # i => wal'[j] = wal[j]
    BY ZenonT(60), <1>d, <2>1 DEF Buffer, Types
  <2>4. \A y \in Txn : Pending(y)' => Pending(y)
    BY ZenonT(60), <1>a, <1>d, <2>2, <2>3
  <2>5. \A j \in Id : Busy(j) => Busy(j)' /\ wal'[j].writes = wal[j].writes
    BY ZenonT(60), <1>d, <2>2, <2>3 DEF Busy
  <2> QED
    BY ZenonT(60), <1>d, <2>4, <2>5, IdTxn, PreparedKept
<1>1. ASSUME NEW x \in Txn, Begin(x) PROVE PreparedLocked'
  <2>1. PICK i \in Id : i = Begun(x) /\ i[1] = x
    BY ZenonT(60), IdFacts
  <2>2. /\ UNCHANGED <<owner, robbed, applying>> /\ pc'[x] = "active"
        /\ \A y \in Txn : y # x => pc'[y] = pc[y]
        /\ \A j \in Id : j # i => wal'[j] = wal[j] /\ state'[j] = state[j]
    BY ZenonT(60), <1>1, <2>1 DEF Begin, Become, Log, writeVars, Types
  <2>3. wal[i].last # "COMMIT"
    BY <1>1, <2>1 DEF Begin, IdsOK, FreshIds, NoRecords
  <2>4. \A y \in Txn : Pending(y)' => Pending(y)
    BY ZenonT(60), <1>a, <2>2, <2>3
  <2>5. \A j \in Id : Pending(j[1])' => j # i
    BY ZenonT(60), <2>1, <2>2 DEF Pending
  <2>6. \A j \in Id : j # i /\ Busy(j) => Busy(j)' /\ wal'[j].writes = wal[j].writes
    BY ZenonT(60), <2>2 DEF Busy
  <2> QED
    BY ZenonT(60), <2>2, <2>4, <2>5, <2>6, IdTxn, PreparedKept
<1>2. ASSUME NEW x \in Txn, WriteBuffer(x) PROVE PreparedLocked'
  <2>1. CASE state[Begun(x)] = "active"
    BY ZenonT(60), <1>d, <1>2, <2>1 DEF WriteBuffer, coordVars
  <2>2. CASE state[Begun(x)] # "active"
    <3>1. PICK i \in Id : i = Begun(x) /\ i[1] = x
      BY ZenonT(60), IdFacts
    <3>2. /\ UNCHANGED <<pc, wal, state, applying>> /\ robbed \subseteq robbed'
          /\ \A k \in Key : owner[k] \notin {NoId, i} => owner'[k] = owner[k]
          /\ Busy(i) => x \in robbed'
      BY ZenonT(60), <1>2, <2>2, <3>1 DEF WriteBuffer, ReleaseAll, Without, coordVars, Busy
    <3>3. \A y \in Txn : Pending(y)' => Pending(y)
      BY ZenonT(60), <1>a, <3>2
    <3>4. \A j \in Id : Pending(j[1])' /\ Busy(j) => j # i
      BY ZenonT(60), <3>1, <3>2 DEF Pending
    <3>5. \A j \in Id : Busy(j) => Busy(j)'
      BY ZenonT(60), <3>2 DEF Busy
    <3> QED
      BY ZenonT(60), <3>2, <3>3, <3>4, <3>5, PreparedKept
  <2> QED
    BY ZenonT(60), <2>1, <2>2
<1>3. ASSUME NEW x \in Txn, Prepare(x) PROVE PreparedLocked'
  <2>1. PICK i \in Id : i = Begun(x) /\ i[1] = x
    BY ZenonT(60), IdFacts
  <2>2. /\ UNCHANGED <<owner, robbed, applying>> /\ state[i] = "active" /\ state'[i] = "prepared"
        /\ \A y \in Txn : y # x => pc'[y] = pc[y]
        /\ \A j \in Id : j # i => wal'[j] = wal[j] /\ state'[j] = state[j]
    BY ZenonT(60), <1>3, <2>1 DEF Prepare, Become, Log, writeVars, Types
  <2>3. wal[i].last # "COMMIT" /\ wal[i].writes = write_set[i]
    BY ZenonT(60), <2>2 DEF IdsOK, WalOK, WalAt
  <2>4. wal'[i].writes = wal[i].writes
    <3>1. wal[i] \in Records
      BY ZenonT(60) DEF Types
    <3> QED
      BY ZenonT(60), <1>3, <2>1, <3>1 DEF Prepare, Log, Types, Records
  <2>5. Secured(x)'
    <3>1. \A k \in KeysOf(wal[i].writes) : owner[k] = i
      BY ZenonT(60), <2>2, <2>3 DEF ActiveLocked
    <3> QED
      BY ZenonT(60), <2>1, <2>2, <2>4, <3>1 DEF Secured, Busy
  <2>6. \A y \in Txn : Pending(y)' => Pending(y) \/ Secured(y)'
    <3>1. ASSUME NEW y \in Txn, y # x, Pending(y)' PROVE Pending(y)
      BY ZenonT(60), <2>2, <2>3, <3>1 DEF Pending, HasCommitRecord
    <3> QED
      BY ZenonT(60), <2>5, <3>1
  <2>7. \A j \in Id : Busy(j) => Busy(j)' /\ wal'[j].writes = wal[j].writes
    BY ZenonT(60), <2>2, <2>4 DEF Busy
  <2> QED
    BY ZenonT(60), <2>2, <2>6, <2>7, IdTxn, PreparedKept<1>4. ASSUME ApplyPrepare PROVE PreparedLocked'
  <2>1. PICK x \in Txn : x = rlog[last_applied + 1].txn
    BY ZenonT(60), <1>4, NextFacts DEF ApplyPrepare
  <2>2. UNCHANGED <<pc, robbed, owner, applying>>
    BY ZenonT(60), <1>4 DEF ApplyPrepare, coordVars, writeVars
  <2>3. CASE UNCHANGED <<state, wal>>
    BY ZenonT(60), <1>b, <2>2, <2>3 DEF Busy
  <2>4. CASE ImportPreparedTxn(Imported(x), rlog[last_applied + 1].writes)
    <3>1. PICK i \in Id : i = Imported(x)
      BY ZenonT(60), IdFacts
    <3>2. wal[i] = NoRecords
      <4>1. ~AppliedUpTo("prepare", x)
        <5>1. \A n \in InLog("prepare", x) : n = last_applied + 1
          BY ZenonT(60), <1>4, <2>1, NextFacts DEF ApplyPrepare, LogOK, InLog
        <5>2. last_applied \in Nat
          BY DEF Types
        <5> QED
          BY <5>1, <5>2 DEF AppliedUpTo
      <4>2. i[1] = x /\ i[2] = life /\ i[3] = "imported"
        BY ZenonT(60), <3>1 DEF Imported
      <4> QED
        BY ZenonT(60), <4>1, <4>2 DEF Imports
    <3>3. ~Busy(i) /\ wal[i].last # "COMMIT"
      <4>1. wal[i].last = "none"
        BY <3>2 DEF NoRecords
      <4> QED
        BY ZenonT(60), <4>1 DEF IdsOK, WalOK, WalAt
    <3>4. \A j \in Id : j # i => wal'[j] = wal[j] /\ state'[j] = state[j]
      BY ZenonT(60), <2>4, <3>1 DEF ImportPreparedTxn, Types
    <3>5. \A y \in Txn : Pending(y)' => Pending(y)
      BY ZenonT(60), <1>a, <2>2, <3>3, <3>4
    <3>6. \A j \in Id : Busy(j) => Busy(j)' /\ wal'[j].writes = wal[j].writes
      BY ZenonT(60), <2>2, <3>3, <3>4 DEF Busy
    <3> QED
      BY ZenonT(60), <2>2, <3>5, <3>6, IdTxn, PreparedKept
  <2> QED
    BY ZenonT(60), <1>4, <2>1, <2>3, <2>4 DEF ApplyPrepare
<1>5. ASSUME ApplyCommit PROVE PreparedLocked'
  <2>1. /\ UNCHANGED <<pc, robbed, owner, wal>> /\ applying = NoCommit
        /\ \/ UNCHANGED <<state, applying>>
           \/ \E i \in Id : state' = [state EXCEPT ![i] = "none"] /\ applying' = [id |-> i, next |-> 1]
    <3>1. rlog[last_applied + 1].txn \in Txn
      BY ZenonT(60), <1>5, NextFacts DEF ApplyCommit
    <3> QED
      BY ZenonT(60), <1>5, <3>1 DEF ApplyCommit, coordVars, writeVars, diskVars, Types
  <2>2. CASE UNCHANGED <<state, applying>>
    BY ZenonT(60), <1>b, <2>1, <2>2 DEF Busy
  <2>3. ASSUME NEW i \in Id, state' = [state EXCEPT ![i] = "none"], applying' = [id |-> i, next |-> 1]
        PROVE  PreparedLocked'
    <3>1. applying'.id = i /\ \A j \in Id : j # i => state'[j] = state[j] /\ applying.id # j
      BY ZenonT(60), <2>1, <2>3, IdTxn DEF Types, NoCommit
    <3>2. \A j \in Id : Busy(j) => Busy(j)'
      BY ZenonT(60), <2>1, <3>1 DEF Busy
    <3> QED
      BY ZenonT(60), <1>b, <2>1, <3>2
  <2> QED
    BY ZenonT(60), <2>1, <2>2, <2>3
<1>6. ASSUME ApplyWrite PROVE PreparedLocked'
  <2>1. UNCHANGED <<pc, robbed, owner, wal, state>> /\ applying'.id = applying.id
    BY ZenonT(60), <1>6 DEF ApplyWrite, coordVars, writeVars, txnVars, Types
  <2> QED
    BY ZenonT(60), <1>b, <2>1 DEF Busy
<1>7. ASSUME CommitDone PROVE PreparedLocked'
  <2>1. PICK i \in Id : i = applying.id
    BY ZenonT(60), <1>7 DEF CommitDone, IdsOK, ApplyingOK
  <2>2. /\ UNCHANGED <<pc, robbed, state>> /\ wal'[i].last = "COMMIT"
        /\ \A k \in Key : owner[k] \notin {NoId, i} => owner'[k] = owner[k]
        /\ \A j \in Id : j # i => wal'[j] = wal[j]
    <3>1. /\ UNCHANGED <<pc, robbed, state>>
          /\ \A k \in Key : owner[k] \notin {NoId, i} => owner'[k] = owner[k]
          /\ \A j \in Id : j # i => wal'[j] = wal[j]
      BY ZenonT(60), <1>7, <2>1 DEF CommitDone, Log, ReleaseAll, Without, coordVars, writeVars, Types
    <3>2. wal[i] \in Records
      BY ZenonT(60) DEF Types
    <3> QED
      BY ZenonT(60), <1>7, <2>1, <3>1, <3>2 DEF CommitDone, Log, Types, Records
  <2>3. \A y \in Txn : Pending(y)' => Pending(y)
    BY ZenonT(60), <1>a, <2>2
  <2>4. \A j \in Id : Pending(j[1])' => j # i
    BY ZenonT(60), <2>2 DEF Pending, HasCommitRecord
  <2>5. \A j \in Id : j # i /\ Busy(j) => Busy(j)' /\ wal'[j].writes = wal[j].writes
    BY ZenonT(60), <2>1, <2>2 DEF Busy
  <2> QED
    BY ZenonT(60), <2>2, <2>3, <2>4, <2>5, PreparedKept
<1>8. ASSUME ApplyAbort PROVE PreparedLocked'
  <2>1. PICK x \in Txn : x = rlog[last_applied + 1].txn
    BY ZenonT(60), <1>8, NextFacts DEF ApplyAbort
  <2>2. UNCHANGED <<pc, robbed, applying>> /\ pc[x] = "aborted"
    BY ZenonT(60), <1>8, <2>1, NextFacts DEF ApplyAbort, coordVars, writeVars, LogOK
  <2>3. CASE UNCHANGED <<state, wal, owner>>
    BY ZenonT(60), <1>b, <2>2, <2>3 DEF Busy
  <2>4. CASE txn_id_map[x] # NoId /\ AbortTxn(txn_id_map[x])
    <3>1. PICK i \in Id : i = txn_id_map[x] /\ i[1] = x
      BY ZenonT(60), <2>4 DEF IdsOK, Mapped, Types
    <3> QED
      BY ZenonT(60), <1>c, <2>2, <2>4, <3>1
  <2> QED
    BY ZenonT(60), <1>8, <2>1, <2>3, <2>4 DEF ApplyAbort, txnVars
<1>9. ASSUME Restart PROVE PreparedLocked'
  <2>1. /\ robbed' = robbed /\ ~RecoverBlocks
        /\ \A x \in Txn : pc'[x] \in Late => pc[x] \in Late
        /\ \A i \in Id : i \in InDoubt \cup Durable => wal'[i] = wal[i]
        /\ \A i \in InDoubt : state'[i] = "prepared"
        /\ \A k \in Key : owner'[k] = RecoveredOwner(k)
    BY ZenonT(60), <1>9 DEF Restart, InDoubt
  <2>2. \A x \in Txn : Pending(x)' => Pending(x)
    BY ZenonT(60), <1>a, <2>1 DEF Durable
  <2>3. ASSUME NEW x \in Txn, Pending(x) PROVE Secured(x)'
    <3>1. PICK i \in Id : i[1] = x /\ Busy(i)
      BY ZenonT(60), <2>3 DEF PreparedLocked, Secured
    <3>2. i \in InDoubt
      BY ZenonT(60), <3>1 DEF IdsOK, WalOK, WalAt, InDoubt
    <3>3. wal[i].writes \in Seq(Write)
      BY ZenonT(60) DEF Types, Records
    <3>4. ASSUME NEW k \in KeysOf(wal[i].writes) PROVE owner'[k] = i
      <4>1. \A j \in InDoubt : k \in KeysOf(wal[j].writes) => j = i
        BY ZenonT(60), <2>1, <3>2, <3>4 DEF RecoverBlocks
      <4>2. RecoveredOwner(k) = i
        BY ZenonT(60), <3>2, <3>4, <4>1 DEF RecoveredOwner
      <4> QED
        BY ZenonT(60), <2>1, <3>3, <3>4, <4>2, WriteKeys
    <3> QED
      BY ZenonT(60), <2>1, <3>1, <3>2, <3>4 DEF Secured, Busy
  <2> QED
    BY ZenonT(60), <2>2, <2>3 DEF PreparedLocked
<1>10. ASSUME NEW x \in Txn,
              \/ \E w \in Write : WriteTimedOut(x, w)
              \/ Abort(x) \/ PrepareFails(x) \/ PrepareNotReplicated(x)
       PROVE  PreparedLocked'
  <2>1. AbortTxn(Begun(x)) /\ UNCHANGED <<robbed, applying>> /\ Begun(x) \in Id /\ Begun(x)[1] = x
    BY ZenonT(60), <1>10, IdFacts DEF WriteTimedOut, Abort, PrepareFails, PrepareNotReplicated, writeVars
  <2>2. pc'[x] \notin Late /\ \A y \in Txn : y # x => pc'[y] = pc[y]
    <3>1. \/ pc' = pc /\ pc[x] \in {"active", "aborted"}
          \/ \E b \in {"aborted", "refused"} : pc' = [pc EXCEPT ![x] = b]
      BY ZenonT(60), <1>10 DEF WriteTimedOut, MayWrite, Abort, PrepareFails, PrepareNotReplicated, Become,
                               coordVars
    <3>2. pc \in [Txn -> Phase]
      BY ZenonT(60) DEF Types
    <3> QED
      BY ZenonT(60), <3>1, <3>2
  <2> QED
    BY ZenonT(60), <1>c, <2>1, <2>2
<1>11. ASSUME NEW x \in Txn,
              \/ CallPrepare(x) \/ ProposePrepare(x) \/ Vote(x) \/ Commit(x) \/ CommitReturns(x)
              \/ AbortVoted(x)
       PROVE  PreparedLocked'
  <2>1. UNCHANGED <<robbed, owner, wal, state, applying>>
    BY ZenonT(60), <1>11 DEF CallPrepare, ProposePrepare, Vote, Commit, CommitReturns, AbortVoted,
                             writeVars, txnVars, diskVars
  <2>2. \A y \in Txn : pc'[y] \in Late => pc[y] \in Late
    <3>1. \E b \in Phase : pc' = [pc EXCEPT ![x] = b] /\ (b \in Late => pc[x] \in Late)
      BY ZenonT(60), <1>11 DEF CallPrepare, ProposePrepare, Vote, Commit, CommitReturns, AbortVoted, Become,
                               Phase
    <3>2. pc \in [Txn -> Phase]
      BY ZenonT(60) DEF Types
    <3> QED
      BY ZenonT(60), <3>1, <3>2
  <2> QED
    BY ZenonT(60), <1>b, <2>1, <2>2 DEF Busy
<1>12. ASSUME NEW x \in Txn,
              \/ ScanAll(x) \/ \E k \in Key : Read(x, k)
              \/ \E w \in Write : WriteLocked(x, w)
       PROVE  PreparedLocked'
  <2>1. UNCHANGED <<pc, robbed, wal, state, applying>>
    BY ZenonT(60), <1>12 DEF ScanAll, Read, Observe, WriteLocked, coordVars, writeVars, txnVars, diskVars
  <2>2. \A k \in Key : owner[k] # NoId => owner'[k] = owner[k]
    BY ZenonT(60), <1>12 DEF ScanAll, Read, Observe, WriteLocked, Types
  <2> QED
    BY ZenonT(60), <1>b, <2>1, <2>2 DEF Busy
<1>13. ASSUME NEW x \in Txn, WriteRetried(x) PROVE PreparedLocked'
  BY ZenonT(60), <1>d, <1>13 DEF WriteRetried, coordVars
<1>14. CASE UNCHANGED vars
  BY ZenonT(60), <1>b, <1>14 DEF vars, coordVars, writeVars, txnVars, diskVars, Busy
<1> QED
  BY ZenonT(60), <1>1, <1>2, <1>3, <1>4, <1>5, <1>6, <1>7, <1>8, <1>9, <1>10, <1>11, <1>12, <1>13, <1>14
  DEF Next
-----------------------------------------------------------------------------
(* The theorems *)

LEMMA TxnInit == ASSUME Init PROVE TxnInv
<1>1. NoRecords \in Records /\ NoCommit \in [id : Id \cup {NoId}, next : Nat]
  BY DEF NoRecords, Records, NoCommit
<1>2. Types
  <2>1. /\ pc \in [Txn -> Phase] /\ writing \in [Txn -> Write \cup {NoWrite}]
        /\ state \in [Id -> {"none", "active", "prepared"}]
        /\ wal \in [Id -> Records] /\ owner \in [Key -> Id \cup {NoId}]
        /\ txn_id_map \in [Txn -> Id \cup {NoId}] /\ applying \in [id : Id \cup {NoId}, next : Nat]
    BY ZenonT(60), <1>1 DEF Init, Phase
  <2>2. rlog \in Seq(Entry) /\ last_applied \in 0..Len(rlog) /\ life \in 0..Restarts
    BY BoundAssumption DEF Init
  <2>3. write_set \in [Id -> Seq(Write)]
    BY DEF Init
  <2> QED
    BY ZenonT(60), <2>1, <2>2, <2>3 DEF Types
<1>3. LogOK
  BY DEF Init, LogOK
<1>4. FreshIds /\ Mapped /\ ApplyingOK
  BY ZenonT(60), IdTxn DEF Init, FreshIds, Mapped, ApplyingOK
<1>5. WalOK
  BY ZenonT(60), IdTxn DEF Init, WalOK, WalAt, Busy, NoRecords, NoCommit
<1>6. NoLeakedLocks
  BY ZenonT(60) DEF Init, NoLeakedLocks
<1>7. OnlyCommittedIsStored
  <2>1. \A v \in store : v.ts = 0
    BY DEF Init
  <2> QED
    BY <2>1 DEF OnlyCommittedIsStored
<1>8. Imports
  BY ZenonT(60) DEF Init, Imports
<1>9. ActiveLocked
  BY ZenonT(60), <1>2, IdFacts DEF Init, ActiveLocked
<1>10. PreparedLocked
  BY ZenonT(60) DEF Init, PreparedLocked, Pending
<1> QED
  BY ZenonT(60), <1>2, <1>3, <1>4, <1>5, <1>6, <1>7, <1>8, <1>9, <1>10 DEF TxnInv, IdsOK

LEMMA TxnInvNext == TxnInv /\ [Next]_vars => TxnInv'
<1> SUFFICES ASSUME TxnInv, [Next]_vars PROVE TxnInv'
  BY ZenonT(60)
<1>1. /\ Types /\ LogOK /\ IdsOK /\ NoLeakedLocks /\ OnlyCommittedIsStored
      /\ Imports /\ ActiveLocked /\ PreparedLocked
  BY ZenonT(60) DEF TxnInv
<1>2. Types'
  BY ZenonT(60), <1>1, TypesNext
<1>3. LogOK' /\ IdsOK'
  BY ZenonT(60), <1>1, <1>2, LogNext, IdsNext
<1>4. NoLeakedLocks' /\ OnlyCommittedIsStored'
  BY ZenonT(60), <1>1, LeakNext, StoredNext
<1>5. Imports' /\ ActiveLocked' /\ PreparedLocked'
  BY ZenonT(60), <1>1, <1>2, ImportsNext, ActiveNext, PreparedNext
<1> QED
  BY ZenonT(60), <1>2, <1>3, <1>4, <1>5 DEF TxnInv

LEMMA TxnInvariant == Spec => []TxnInv
<1>1. Init => TxnInv
  BY ZenonT(60), TxnInit
<1> QED
  BY <1>1, TxnInvNext, PTL DEF Spec

\* No path of the transaction manager forgets a lock: every lock belongs to a
\* transaction that txns_ knows, that Commit is working on, or whose Write has yet
\* to look at txns_.
THEOREM LocksDoNotLeak == Spec => []NoLeakedLocks
<1>1. TxnInv => NoLeakedLocks
  BY ZenonT(60) DEF TxnInv
<1> QED
  BY <1>1, TxnInvariant, PTL

\* Whatever Commit applies and Recover replays, the store holds only versions of
\* transactions that the replicated log commits, for keys they wrote.
THEOREM StoreIsCommitted == Spec => []OnlyCommittedIsStored
<1>1. TxnInv => OnlyCommittedIsStored
  BY ZenonT(60) DEF TxnInv
<1> QED
  BY <1>1, TxnInvariant, PTL

\* Strict two-phase locking: from its vote to its COMMIT record a transaction owns
\* the locks of the keys it wrote, through a restart too, unless an attempt of a
\* Write that was retried found it prepared and released them.
THEOREM StrictLocking == Spec => []LockedUntilCommitted
<1>1. ASSUME TxnInv PROVE LockedUntilCommitted
  <2> SUFFICES ASSUME NEW x \in Txn \ robbed, pc[x] \in {"voted", "committing"}, ~HasCommitRecord(x),
                      NEW k \in KeysOf(WritesOf(x))
               PROVE  owner[k] # NoId /\ owner[k][1] = x
    BY ZenonT(60) DEF LockedUntilCommitted
  <2>1. Pending(x)
    BY ZenonT(60) DEF Pending
  <2>2. PICK i \in Id : i[1] = x /\ Busy(i) /\ \A l \in KeysOf(wal[i].writes) : owner[l] = i
    BY ZenonT(60), <1>1, <2>1 DEF TxnInv, PreparedLocked, Secured
  <2>3. WalAt(i) /\ wal[i].last = "PREPARE"
    BY ZenonT(60), <1>1, <2>2 DEF TxnInv, IdsOK, WalOK, WalAt
  <2>4. wal[i].writes = WritesOf(x)
    BY ZenonT(60), <1>1, <2>2, <2>3, WalHasWrites DEF TxnInv
  <2> QED
    BY ZenonT(60), <2>2, <2>4, IdTxn
<1> QED
  BY <1>1, TxnInvariant, PTL
=============================================================================
