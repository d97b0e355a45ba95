------------------------- MODULE CoordinatorSteps -------------------------
(***************************************************************************)
(* Proofs about Coordinator and the shards it drives, for every set of     *)
(* shards and transactions and every budget of faults.                     *)
(***************************************************************************)
EXTENDS Coordinator, TLAPS

\* A leaf is tried with SMT and then with Zenon, unless it names its prover.
USE SMTT(30), ZenonT(30)

-----------------------------------------------------------------------------
(* The inductive invariant *)

\* The client's thread is still at work on transaction x.
ClientSide == {"new", "active", "preparing", "committing", "aborting", "aborted"}
Fresh(x) == pc[x] \in {"new", "active"}

\* Recover is at work on it.
RecoverSide == {"query", "recommit", "reabort"}

\* Two-phase commit is only right for a transaction that no crash has left to
\* Recover, or when nothing but crashes happens.
FaultFree == \A b \in Bounded \ {"crash"} : spent[b] = 0
Sheltered(x) == pc[x] \in ClientSide \/ spent["crash"] = 0 \/ FaultFree

\* The entries of x in the log of s, those that s has applied, the requests that s
\* handles, and the records that survive a crash.
Entry(op, x) == [op |-> op, txn |-> x]
HasEntry(op, x, s) == \E i \in 1..Len(slog[s]) : slog[s][i] = Entry(op, x)
HasApplied(op, x, s) == \E i \in 1..last_applied[s] : slog[s][i] = Entry(op, x)
Of(h, op, x, s) == h.op = op /\ h.txn = x /\ h.shard = s
HasHandler(op, x, s) == \E h \in handlers : Of(h, op, x, s)
Flushed(type, x) == \E i \in 1..synced : clog[i] = Record(type, x)

\* In the coordinator log ABORTED follows ABORTING.
AbortedLast(x) ==
  \A j \in 1..Len(clog) : clog[j] = Record("ABORTED", x) =>
    \E i \in 1..(j - 1) : clog[i] = Record("ABORTING", x)

\* What the coordinator has logged of a transaction, and where its thread is.
LogOK(x) ==
  /\ Fresh(x) => \A t \in RecordType : ~Logged(t, x)
  /\ pc[x] \in {"preparing", "query"} => ~Logged("COMMITTING", x) /\ ~Logged("ABORTING", x)
  /\ pc[x] \in {"committing", "recommit"} => Logged("COMMITTING", x)
  /\ pc[x] \in {"aborting", "aborted", "reabort"} => Logged("ABORTING", x)
  /\ pc[x] = "aborted" => Flushed("ABORTED", x)
  /\ AbortedLast(x)
  /\ outcome[x] = "conflict" =>
       pc[x] = "done" /\ (~Logged("PREPARING", x) \/ Flushed("ABORTED", x))
  /\ outcome[x] = "ok" => ~Fresh(x)
  /\ \A s \in Shard : seen[x][s] # "none" =>
       pc[x] = "query" \/ Logged("COMMITTING", x) \/ Logged("ABORTING", x)

\* Only Recover takes up what a crash has left.
UpOK(x) ==
  /\ up # "up" => pc[x] \in {"new", "done", "lost"} \cup RecoverSide
  /\ pc[x] \in RecoverSide =>
       up = "recovering" /\ InDoubt(x) /\ \A y \in Txn : pc[y] \in RecoverSide => y = x
  /\ spent["crash"] = 0 => up = "up" /\ pc[x] \in ClientSide \cup {"done"}

\* A handler and the log of its shard.
HandlerOK(h) ==
  /\ h.op = "prepare" /\ h.at \in {"sent", "prepared"} => ~HasEntry("prepare", h.txn, h.shard)
  /\ h.at = "waiting" =>
       h.ix \in 1..Len(slog[h.shard]) /\ slog[h.shard][h.ix] = Entry(h.op, h.txn)
  /\ h.at = "taken" => HasEntry("prepare", h.txn, h.shard)
  /\ h.at \in {"taken", "prepared"} => h.op = "prepare"
  /\ h.at = "unreplicated" => h.op = "abort"

\* There is one Prepare call per participant, ever.
OnePrepare(x, s) ==
  \A g, h \in handlers : Of(g, "prepare", x, s) /\ Of(h, "prepare", x, s) => g = h

\* What shard s knows of transaction x.
CellOK(x, s) ==
  /\ Fresh(x) => terminal[s][x] = "none" /\ pending[s][x] # "prepared"
                 /\ rpc["prepare"][s][x] = "none"
  /\ Fresh(x) \/ s \notin parts[x] => \A op \in Op : ~HasEntry(op, x, s) /\ ~HasHandler(op, x, s)
  /\ \A h \in handlers : h.txn = x /\ h.shard = s => HandlerOK(h)
  /\ OnePrepare(x, s)
  /\ x \in committed[s] \/ terminal[s][x] = "committed" \/ seen[x][s] = "committed" =>
       HasEntry("commit", x, s)
  /\ pending[s][x] = "prepared" \/ prepare_results[s][x] \/ follower_results[s][x]
     \/ seen[x][s] = "prepared" => HasEntry("prepare", x, s)
  /\ local[s][x] # "none" => pending[s][x] # "none" \/ terminal[s][x] # "none"
  /\ local[s][x] = "active" =>
       txn_id_map[s][x] = "local" \/ HasEntry("commit", x, s) \/ HasEntry("abort", x, s)
  /\ pc[x] = "preparing" =>
       /\ terminal[s][x] = "none"
       /\ \A op \in {"commit", "abort"} : ~HasEntry(op, x, s) /\ ~HasHandler(op, x, s)

\* Somebody has decided that x commits, or that it aborts.
AbortSent(x) ==
  \E s \in Shard : HasHandler("abort", x, s) \/ HasEntry("abort", x, s) \/ terminal[s][x] = "aborted"
Aborting(x) == Logged("ABORTING", x) \/ AbortSent(x)
Committing(x) ==
  Logged("COMMITTING", x) \/ \E s \in Shard : HasHandler("commit", x, s) \/ HasEntry("commit", x, s)

\* Shard s has x prepared, or will have when its log is applied, and nothing of the
\* Prepare is left that could take it back.
Ready(x, s) ==
  /\ ~HasHandler("prepare", x, s)
  /\ HasEntry("prepare", x, s)
  /\ \/ x \in committed[s]
     \/ Prepared(s, x)
     \/ txn_id_map[s][x] = "none" /\ ~HasApplied("prepare", x, s)

\* In the log of s a commit follows the prepare.
Ordered(x, s) ==
  \A c \in 1..Len(slog[s]) : slog[s][c] = Entry("commit", x) =>
    \E i \in 1..(c - 1) : slog[s][i] = Entry("prepare", x)

\* A decision to commit is the only one, and every participant can follow it.
ModeOK(x) ==
  Sheltered(x) /\ Committing(x) =>
    /\ ~Aborting(x)
    /\ \A s \in parts[x] :
         Ready(x, s) /\ Ordered(x, s) /\ (HasApplied("commit", x, s) => x \in committed[s])

\* An abort has had an effect on s.
Touched(x, s) ==
  \/ HasEntry("abort", x, s)
  \/ terminal[s][x] = "aborted"
  \/ \E h \in handlers : Of(h, "abort", x, s) /\ h.at # "sent"

\* Shard s has voted to commit.
Voted(x, s) ==
  pending[s][x] = "prepared" \/ (pc[x] = "preparing" /\ rpc["prepare"][s][x] = "yes")

\* A vote is kept, and a Prepare goes on undisturbed up to it.
FlowOK(x, s) ==
  Sheltered(x) /\ ~Touched(x, s) =>
    /\ Voted(x, s) => Ready(x, s)
    /\ \A h \in handlers : Of(h, "prepare", x, s) /\ h.at # "sent" =>
         txn_id_map[s][x] = "local" /\ local[s][x] = "prepared" /\ pending[s][x] = "begun"

\* An answer to Commit, and COMMITTED, are true.
AnswersOK(x) ==
  Sheltered(x) =>
    /\ \A s \in Shard : rpc["commit"][s][x] = "yes" => x \in committed[s]
    /\ Logged("COMMITTED", x) => \A s \in parts[x] : x \in committed[s]

\* Shard s has voted against x and will never have it prepared.
Refused(x, s) ==
  pending[s][x] = "none" /\ ~HasEntry("prepare", x, s) /\ ~HasHandler("prepare", x, s)

\* When nothing but crashes happens, the tables of s tell Recover what it needs.
CalmCell(x, s) ==
  FaultFree =>
    /\ HasEntry("prepare", x, s) => pending[s][x] # "none" \/ terminal[s][x] # "none"
    /\ pc[x] = "preparing" /\ rpc["prepare"][s][x] = "yes" => pending[s][x] = "prepared"
    /\ pc[x] = "preparing" /\ rpc["prepare"][s][x] = "no" => Refused(x, s)
    /\ ~Touched(x, s) /\ HasApplied("prepare", x, s) =>
         \A h \in handlers : Of(h, "prepare", x, s) /\ h.at = "waiting" => prepare_results[s][x]
    /\ pc[x] = "query" /\ seen[x][s] = "prepared" =>
         pending[s][x] = "prepared" \/ terminal[s][x] # "none"

CalmOK(x) ==
  FaultFree =>
    /\ Committing(x) => \A s \in parts[x] :
         /\ pending[s][x] = "prepared" \/ terminal[s][x] = "committed"
         /\ pc[x] = "query" => seen[x][s] \in {"none", "prepared", "committed"}
    /\ AbortSent(x) => Flushed("ABORTING", x) \/ \E s \in parts[x] : Refused(x, s)

\* The outcome a client was told is settled.
OutcomeOK(x) ==
  /\ outcome[x] = "ok" => \A s \in parts[x] : x \in committed[s]
  /\ outcome[x] = "conflict" =>
       \A s \in Shard : ~HasEntry("commit", x, s) /\ ~HasHandler("commit", x, s)

CoordInv ==
  /\ TypeOK
  /\ \A x \in Txn :
       /\ LogOK(x) /\ UpOK(x) /\ ModeOK(x) /\ AnswersOK(x) /\ CalmOK(x) /\ OutcomeOK(x)
       /\ \A s \in Shard : CellOK(x, s) /\ FlowOK(x, s) /\ CalmCell(x, s)

-----------------------------------------------------------------------------
(* Types *)

TablesOK ==
  /\ pending \in [Shard -> [Txn -> {"none", "begun", "prepared"}]]
  /\ terminal \in [Shard -> [Txn -> {"none", "committed", "aborted"}]]
  /\ local \in [Shard -> [Txn -> {"none", "active", "prepared"}]]
  /\ txn_id_map \in [Shard -> [Txn -> {"none", "local", "import"}]]
  /\ prepare_results \in [Shard -> [Txn -> BOOLEAN]]

ReplicatedOK ==
  /\ follower_results \in [Shard -> [Txn -> BOOLEAN]]
  /\ slog \in [Shard -> Seq([op : Op, txn : Txn])]
  /\ last_applied \in [Shard -> Nat]
  /\ \A s \in Shard : last_applied[s] <= Len(slog[s])
  /\ committed \in [Shard -> SUBSET Txn]

CallsOK ==
  /\ handlers \subseteq Handler
  /\ rpc \in [Op -> [Shard -> [Txn -> {"none", "asked", "yes", "no"}]]]

SpentOK ==
  /\ spent \in [Bounded -> Nat]
  /\ \A b \in Bounded : spent[b] <= Budget[b]

CoordOK ==
  /\ up \in {"up", "recovering", "down"}
  /\ pc \in [Txn -> {"new", "active", "preparing", "committing", "aborting",
                     "aborted", "lost", "query", "recommit", "reabort", "done"}]
  /\ parts \in [Txn -> SUBSET Shard]
  /\ clog \in Seq([type : RecordType, txn : Txn])
  /\ synced \in 0..Len(clog)
  /\ seen \in [Txn -> [Shard -> {"none", "unknown", "in_flight", "prepared",
                                "committed", "aborted"}]]
  /\ outcome \in [Txn -> {"none", "ok", "error", "conflict"}]

\* The type invariant by groups of variables.
LEMMA TypeParts == TypeOK <=> TablesOK /\ ReplicatedOK /\ CallsOK /\ SpentOK /\ CoordOK
BY ZenonT(60) DEF TypeOK, TablesOK, ReplicatedOK, CallsOK, SpentOK, CoordOK

\* The same of the next state.
LEMMA TypeNextParts ==
  TablesOK' /\ ReplicatedOK' /\ CallsOK' /\ SpentOK' /\ CoordOK' => TypeOK'
BY ZenonT(60) DEF TypeOK, TablesOK, ReplicatedOK, CallsOK, SpentOK, CoordOK

\* The fields of a handler activation.
LEMMA HandlerFacts ==
  ASSUME TypeOK, NEW h \in handlers
  PROVE  /\ h \in Handler /\ h.op \in Op /\ h.txn \in Txn /\ h.shard \in Shard
         /\ h.live \in BOOLEAN /\ h.ix \in Nat
BY ZenonT(60) DEF TypeOK, Handler

\* A handler with one field changed is a handler.
LEMMA HandlerKept ==
  ASSUME NEW h \in Handler,
         NEW at \in {"sent", "prepared", "waiting", "taken", "unreplicated"},
         NEW ix \in Nat
  PROVE  [h EXCEPT !.at = at, !.ix = ix] \in Handler
BY ZenonT(60) DEF Handler

\* So is one whose caller has gone.
LEMMA HandlerOrphaned ==
  ASSUME NEW h \in Handler
  PROVE  [h EXCEPT !.live = FALSE] \in Handler
BY ZenonT(60) DEF Handler

\* Spending keeps the budget.
LEMMA SpendType ==
  ASSUME TypeOK, NEW b \in Bounded, Spend(b)
  PROVE  SpentOK'
<1>1. spent \in [Bounded -> Nat] /\ (\A c \in Bounded : spent[c] <= Budget[c])
  BY ZenonT(60) DEF TypeOK
<1>2. \A c \in Bounded : spent'[c] = IF c = b THEN spent[b] + 1 ELSE spent[c]
  BY ZenonT(60), <1>1 DEF Spend
<1>3. spent[b] < Budget[b] /\ Budget[b] \in Nat /\ spent[b] \in Nat
  BY ZenonT(60), <1>1, BudgetAssumption DEF Spend
<1>4. spent[b] + 1 \in Nat /\ spent[b] + 1 <= Budget[b]
  BY <1>3
<1>5. spent' = [c \in Bounded |-> spent'[c]]
  BY ZenonT(60), <1>1 DEF Spend
<1> QED
  BY ZenonT(60), <1>1, <1>2, <1>4, <1>5 DEF SpentOK

\* A handler that returns leaves well-typed calls behind.
LEMMA FinishType ==
  ASSUME TypeOK, NEW h \in handlers, NEW a \in {"yes", "no"}, Finish(h, a)
  PROVE  CallsOK'
<1>1. h.op \in Op /\ h.txn \in Txn /\ h.shard \in Shard
  BY ZenonT(60), HandlerFacts
<1>2. handlers' \subseteq Handler
  BY ZenonT(60) DEF TypeOK, Finish
<1>3. rpc' \in [Op -> [Shard -> [Txn -> {"none", "asked", "yes", "no"}]]]
  BY <1>1 DEF TypeOK, Finish
<1> QED
  BY ZenonT(60), <1>2, <1>3 DEF CallsOK

\* So does one that goes on.
LEMMA GotoType ==
  ASSUME TypeOK, NEW h \in handlers, NEW ix \in Nat,
         NEW at \in {"sent", "prepared", "waiting", "taken", "unreplicated"},
         Goto(h, at, ix)
  PROVE  CallsOK'
<1>1. [h EXCEPT !.at = at, !.ix = ix] \in Handler
  BY ZenonT(60), HandlerFacts, HandlerKept
<1> QED
  BY ZenonT(60), <1>1 DEF TypeOK, CallsOK, Goto

\* A proposal keeps the types of the replicated state.
LEMMA ProposeType ==
  ASSUME TypeOK, NEW h \in handlers, ProposeAndWait(h)
  PROVE  ReplicatedOK' /\ CallsOK'
<1>1. h.op \in Op /\ h.txn \in Txn /\ h.shard \in Shard
  BY ZenonT(60), HandlerFacts
<1>2. [op |-> h.op, txn |-> h.txn] \in [op : Op, txn : Txn]
  BY ZenonT(60), <1>1
<1>3. slog' \in [Shard -> Seq([op : Op, txn : Txn])]
  <2> DEFINE E == [op : Op, txn : Txn]
             e == [op |-> h.op, txn |-> h.txn]
  <2>1. slog[h.shard] \in Seq(E) /\ e \in E
    BY ZenonT(60), <1>1, <1>2 DEF TypeOK
  <2> HIDE DEF E, e
  <2>2. Append(slog[h.shard], e) \in Seq(E)
    BY <2>1
  <2>3. slog \in [Shard -> Seq(E)] /\ slog' = [slog EXCEPT ![h.shard] = Append(@, e)]
    BY ZenonT(60) DEF TypeOK, ProposeAndWait, E, e
  <2>4. slog' \in [Shard -> Seq(E)]
    BY ZenonT(60), <1>1, <2>2, <2>3
  <2> QED
    BY ZenonT(60), <2>4 DEF E
<1>4. \A s \in Shard : Len(slog'[s]) >= Len(slog[s]) /\ Len(slog'[s]) \in Nat
  BY <1>1, <1>2 DEF TypeOK, ProposeAndWait
<1>5. ReplicatedOK'
  <2>1. \A s \in Shard : last_applied[s] \in Nat /\ last_applied[s] <= Len(slog[s]) /\ Len(slog[s]) \in Nat
    BY DEF TypeOK
  <2> QED
    <3>1. \A s \in Shard : last_applied[s] <= Len(slog'[s])
      BY <1>4, <2>1
    <3> QED
      BY ZenonT(60), <1>3, <3>1 DEF TypeOK, ReplicatedOK, ProposeAndWait
<1>6. CallsOK'
  BY ZenonT(60), <1>1, <1>4, GotoType DEF ProposeAndWait
<1> QED
  BY ZenonT(60), <1>5, <1>6

\* So does dropping what a shard holds of a transaction.
LEMMA DropLocalType ==
  ASSUME TypeOK, NEW s \in Shard, NEW x \in Txn, DropLocal(s, x)
  PROVE  /\ pending' \in [Shard -> [Txn -> {"none", "begun", "prepared"}]]
         /\ local' \in [Shard -> [Txn -> {"none", "active", "prepared"}]]
         /\ txn_id_map' \in [Shard -> [Txn -> {"none", "local", "import"}]]
         /\ prepare_results' \in [Shard -> [Txn -> BOOLEAN]]
BY ZenonT(60) DEF TypeOK, DropLocal, Set

\* Steps that leave a group of variables alone keep its types.
LEMMA SameTypes ==
  ASSUME TypeOK
  PROVE  /\ UNCHANGED tables => TablesOK'
         /\ UNCHANGED replicated => ReplicatedOK'
         /\ UNCHANGED <<handlers, rpc>> => CallsOK'
         /\ UNCHANGED spent => SpentOK'
         /\ UNCHANGED coordVars => CoordOK'
<1>1. UNCHANGED tables => TablesOK'
  BY ZenonT(60), TypeParts DEF tables, TablesOK
<1>2. UNCHANGED replicated => ReplicatedOK'
  BY ZenonT(60), TypeParts DEF replicated, ReplicatedOK
<1>3. UNCHANGED <<handlers, rpc>> => CallsOK'
  BY ZenonT(60), TypeParts DEF CallsOK
<1>4. UNCHANGED spent => SpentOK'
  BY ZenonT(60), TypeParts DEF SpentOK
<1>5. UNCHANGED coordVars => CoordOK'
  BY ZenonT(60), TypeParts DEF coordVars, CoordOK
<1> QED
  BY ZenonT(60), <1>1, <1>2, <1>3, <1>4, <1>5

\* The steps of a handler.
LEMMA HandlerStepType ==
  ASSUME TypeOK, NEW h \in handlers, HandlerStep(h)
  PROVE  TablesOK' /\ ReplicatedOK' /\ CallsOK' /\ SpentOK'
<1>0. h.op \in Op /\ h.txn \in Txn /\ h.shard \in Shard
  BY ZenonT(60), HandlerFacts
<1>1. TablesOK
  BY ZenonT(60), TypeParts
<1>2. "fault" \in Bounded
  BY ZenonT(60) DEF Bounded
<1>3. CASE PrepareLocal(h)
  <2>1. ReplicatedOK' /\ SpentOK'
    BY ZenonT(60), <1>3, SameTypes DEF PrepareLocal
  <2>2. CASE Finish(h, "no") /\ UNCHANGED tables
    BY ZenonT(60), <2>1, <2>2, FinishType, SameTypes
  <2>3. CASE Finish(h, "no") /\ DropLocal(h.shard, h.txn) /\ UNCHANGED terminal
    BY ZenonT(60), <1>0, <1>1, <2>1, <2>3, FinishType, DropLocalType DEF TablesOK
  <2>4. CASE /\ local' = Set(local, h.shard, h.txn, "prepared")
             /\ Goto(h, "prepared", 0)
             /\ UNCHANGED <<pending, terminal, txn_id_map, prepare_results>>
    <3>1. CallsOK'
      BY ZenonT(60), <2>4, GotoType
    <3>2. local' \in [Shard -> [Txn -> {"none", "active", "prepared"}]]
      BY ZenonT(60), <1>0, <1>1, <2>4 DEF TablesOK, Set
    <3> QED
      BY ZenonT(60), <1>1, <2>1, <2>4, <3>1, <3>2 DEF TablesOK
  <2> QED
    BY ZenonT(60), <1>3, <2>2, <2>3, <2>4 DEF PrepareLocal
<1>4. CASE PreparePropose(h)
  <2>1. SpentOK'
    BY ZenonT(60), <1>4, SameTypes DEF PreparePropose
  <2>2. CASE Finish(h, "no") /\ DropLocal(h.shard, h.txn) /\ UNCHANGED <<terminal, replicated>>
    <3>1. CallsOK' /\ ReplicatedOK'
      BY ZenonT(60), <2>2, FinishType, SameTypes DEF replicated
    <3> QED
      BY ZenonT(60), <1>0, <1>1, <2>1, <2>2, <3>1, DropLocalType DEF TablesOK
  <2>3. CASE ProposeAndWait(h) /\ UNCHANGED tables
    BY ZenonT(60), <2>1, <2>3, ProposeType, SameTypes
  <2> QED
    BY ZenonT(60), <1>4, <2>2, <2>3 DEF PreparePropose
<1>5. CASE PrepareNotReplicated(h)
  <2>1. CallsOK' /\ SpentOK' /\ ReplicatedOK'
    BY ZenonT(60), <1>2, <1>5, FinishType, SpendType, SameTypes DEF PrepareNotReplicated, replicated
  <2> QED
    BY ZenonT(60), <1>0, <1>1, <1>5, <2>1, DropLocalType DEF TablesOK, PrepareNotReplicated
<1>6. CASE PrepareTake(h)
  <2>1. SpentOK' /\ ReplicatedOK'
    BY ZenonT(60), <1>6, SameTypes DEF PrepareTake, replicated
  <2>2. CallsOK'
    <3>1. Goto(h, "taken", 0) \/ Finish(h, "no")
      BY ZenonT(60), <1>6 DEF PrepareTake
    <3> QED
      BY ZenonT(60), <3>1, FinishType, GotoType
  <2>3. prepare_results' \in [Shard -> [Txn -> BOOLEAN]]
    BY ZenonT(60), <1>0, <1>1, <1>6 DEF TablesOK, Set, PrepareTake
  <2> QED
    BY ZenonT(60), <1>1, <1>6, <2>1, <2>2, <2>3 DEF TablesOK, PrepareTake
<1>7. CASE PrepareVote(h)
  <2>1. SpentOK' /\ ReplicatedOK' /\ CallsOK'
    BY ZenonT(60), <1>7, SameTypes, FinishType DEF PrepareVote, replicated
  <2>2. pending' \in [Shard -> [Txn -> {"none", "begun", "prepared"}]]
    BY ZenonT(60), <1>0, <1>1, <1>7 DEF TablesOK, PrepareVote
  <2> QED
    BY ZenonT(60), <1>1, <1>7, <2>1, <2>2 DEF TablesOK, PrepareVote
<1>8. CASE CommitPropose(h)
  BY ZenonT(60), <1>8, ProposeType, SameTypes DEF CommitPropose
<1>9. CASE AbortStart(h)
  <2>1. SpentOK' /\ TablesOK'
    BY ZenonT(60), <1>9, SameTypes DEF AbortStart
  <2>2. CASE Goto(h, "unreplicated", 0) /\ UNCHANGED replicated
    <3>1. CallsOK'
      BY ZenonT(60), <2>2, GotoType
    <3> QED
      BY ZenonT(60), <2>1, <2>2, <3>1, SameTypes
  <2>3. CASE ProposeAndWait(h)
    BY ZenonT(60), <2>1, <2>3, ProposeType
  <2> QED
    BY ZenonT(60), <1>9, <2>2, <2>3 DEF AbortStart
<1>10. CASE AbortLocal(h)
  <2>1. SpentOK' /\ ReplicatedOK' /\ CallsOK'
    BY ZenonT(60), <1>10, SameTypes, FinishType DEF AbortLocal, replicated
  <2>2. terminal' \in [Shard -> [Txn -> {"none", "committed", "aborted"}]]
    BY ZenonT(60), <1>0, <1>1, <1>10 DEF TablesOK, Set, AbortLocal
  <2> QED
    BY ZenonT(60), <1>0, <1>1, <1>10, <2>1, <2>2, DropLocalType DEF TablesOK, AbortLocal
<1>11. CASE DecisionApplied(h)
  <2>1. SpentOK' /\ ReplicatedOK' /\ CallsOK'
    BY ZenonT(60), <1>11, SameTypes, FinishType DEF DecisionApplied, replicated
  <2>2. terminal' \in [Shard -> [Txn -> {"none", "committed", "aborted"}]]
    BY ZenonT(60), <1>0, <1>1, <1>11 DEF TablesOK, Set, DecisionApplied
  <2>3. pending' \in [Shard -> [Txn -> {"none", "begun", "prepared"}]]
    BY ZenonT(60), <1>0, <1>1, <1>11 DEF TablesOK, Set, DecisionApplied
  <2> QED
    BY ZenonT(60), <1>1, <1>11, <2>1, <2>2, <2>3 DEF TablesOK, DecisionApplied
<1>12. CASE DecisionNotReplicated(h)
  BY ZenonT(60), <1>2, <1>12, FinishType, SpendType, SameTypes DEF DecisionNotReplicated
<1>13. CASE NoLeader(h)
  <2>1. Finish(h, "yes") \/ Finish(h, "no")
    BY ZenonT(60), <1>13 DEF NoLeader
  <2> QED
    BY ZenonT(60), <1>2, <1>13, <2>1, FinishType, SpendType, SameTypes DEF NoLeader
<1> QED
  BY ZenonT(60), <1>3, <1>4, <1>5, <1>6, <1>7, <1>8, <1>9, <1>10, <1>11, <1>12, <1>13
  DEF HandlerStep
\* The entry that is applied next.
LEMMA EntryFacts ==
  ASSUME TypeOK, NEW s \in Shard
  PROVE  /\ slog[s] \in Seq([op : Op, txn : Txn]) /\ Len(slog[s]) \in Nat
         /\ last_applied[s] \in Nat /\ last_applied[s] <= Len(slog[s])
         /\ \A i \in 1..Len(slog[s]) : slog[s][i] \in [op : Op, txn : Txn]
         /\ \A i \in 1..Len(slog[s]) : slog[s][i].op \in Op /\ slog[s][i].txn \in Txn
<1> DEFINE E == [op : Op, txn : Txn]
<1>1. slog[s] \in Seq(E) /\ last_applied[s] \in Nat /\ last_applied[s] <= Len(slog[s])
  BY ZenonT(60) DEF TypeOK
<1>2. \A e \in E : e.op \in Op /\ e.txn \in Txn
  BY ZenonT(60)
<1> HIDE DEF E
<1>3. Len(slog[s]) \in Nat /\ \A i \in 1..Len(slog[s]) : slog[s][i] \in E
  BY <1>1
<1>4. \A i \in 1..Len(slog[s]) : slog[s][i].op \in Op /\ slog[s][i].txn \in Txn
  BY ZenonT(60), <1>2, <1>3
<1> QED
  BY ZenonT(60), <1>1, <1>3, <1>4 DEF E

\* Applying an entry keeps the types.
LEMMA ApplyType ==
  ASSUME TypeOK, NEW s \in Shard, Apply(s)
  PROVE  TablesOK' /\ ReplicatedOK' /\ CallsOK' /\ SpentOK'
<1> DEFINE e == slog[s][last_applied[s] + 1]
           x == e.txn
<1>1. CallsOK' /\ SpentOK'
  BY ZenonT(60), SameTypes DEF Apply
<1>2. TablesOK /\ ReplicatedOK
  BY ZenonT(60), TypeParts
<1>3. last_applied[s] + 1 \in 1..Len(slog[s])
  BY EntryFacts DEF Apply
<1>4. x \in Txn
  BY ZenonT(60), <1>3, EntryFacts
<1>5. /\ last_applied' \in [Shard -> Nat]
      /\ \A t \in Shard : last_applied'[t] <= Len(slog'[t])
  BY <1>2, <1>3 DEF ReplicatedOK, Apply
<1>6. \/ ApplyPrepare(s, x)
      \/ ApplyCommit(s, x) /\ ForgetMapping(s, x)
      \/ ApplyAbort(s, x) /\ ForgetMapping(s, x)
  BY ZenonT(60) DEF Apply
<1>7. slog' = slog /\ pending' = pending /\ terminal' = terminal
  BY ZenonT(60) DEF Apply
<1> HIDE DEF e
<1>8. CASE ApplyPrepare(s, x)
  <2>1. txn_id_map' \in [Shard -> [Txn -> {"none", "local", "import"}]]
    BY ZenonT(60), <1>2, <1>4, <1>8 DEF TablesOK, ApplyPrepare
  <2>2. prepare_results' \in [Shard -> [Txn -> BOOLEAN]]
    BY ZenonT(60), <1>2, <1>4, <1>8 DEF TablesOK, ApplyPrepare, Set
  <2>3. follower_results' \in [Shard -> [Txn -> BOOLEAN]]
    BY ZenonT(60), <1>2, <1>4, <1>8 DEF ReplicatedOK, ApplyPrepare, Set
  <2> QED
    BY ZenonT(60), <1>1, <1>2, <1>5, <1>7, <1>8, <2>1, <2>2, <2>3
    DEF TablesOK, ReplicatedOK, ApplyPrepare
<1>9. CASE ForgetMapping(s, x) /\ (ApplyCommit(s, x) \/ ApplyAbort(s, x))
  <2>1. txn_id_map' \in [Shard -> [Txn -> {"none", "local", "import"}]]
    BY ZenonT(60), <1>2, <1>4, <1>9 DEF TablesOK, ForgetMapping, Set
  <2>2. prepare_results' \in [Shard -> [Txn -> BOOLEAN]]
    BY ZenonT(60), <1>2, <1>4, <1>9 DEF TablesOK, ForgetMapping, Set
  <2>3. follower_results' \in [Shard -> [Txn -> BOOLEAN]]
    BY ZenonT(60), <1>2, <1>4, <1>9 DEF ReplicatedOK, ForgetMapping, Set
  <2>4. local' \in [Shard -> [Txn -> {"none", "active", "prepared"}]]
    <3>1. CASE ApplyCommit(s, x)
      BY ZenonT(60), <1>2, <1>4, <3>1 DEF TablesOK, ApplyCommit
    <3>2. CASE ApplyAbort(s, x)
      BY ZenonT(60), <1>2, <1>4, <3>2 DEF TablesOK, ApplyAbort
    <3> QED
      BY ZenonT(60), <1>9, <3>1, <3>2
  <2>5. committed' \in [Shard -> SUBSET Txn]
    BY <1>2, <1>4, <1>9 DEF ReplicatedOK, ApplyCommit, ApplyAbort
  <2> QED
    BY ZenonT(60), <1>1, <1>2, <1>5, <1>7, <2>1, <2>2, <2>3, <2>4, <2>5
    DEF TablesOK, ReplicatedOK
<1> QED
  BY ZenonT(60), <1>6, <1>8, <1>9

\* A restart of a shard keeps the types.
LEMMA ShardRestartType ==
  ASSUME TypeOK, NEW s \in Shard, ShardRestart(s)
  PROVE  TablesOK' /\ ReplicatedOK' /\ CallsOK' /\ SpentOK'
<1>1. TablesOK /\ ReplicatedOK /\ CallsOK
  BY ZenonT(60), TypeParts
<1>2. SpentOK'
  BY ZenonT(60), SpendType DEF ShardRestart, Bounded
<1>3. TablesOK'
  BY ZenonT(60), <1>1 DEF TablesOK, ShardRestart
<1>4. last_applied' \in [Shard -> Nat] /\ \A t \in Shard : last_applied'[t] <= Len(slog'[t])
  <2>1. \A t \in Shard : Len(slog[t]) \in Nat
    BY ZenonT(60), EntryFacts
  <2> QED
    BY <1>1, <2>1 DEF ReplicatedOK, ShardRestart
<1>5. follower_results' \in [Shard -> [Txn -> BOOLEAN]]
  BY ZenonT(60), <1>1 DEF ReplicatedOK, ShardRestart
<1>6. ReplicatedOK'
  BY ZenonT(60), <1>1, <1>4, <1>5 DEF ReplicatedOK, ShardRestart
<1>7. CallsOK'
  <2>1. handlers' \subseteq handlers
    BY ZenonT(60) DEF ShardRestart
  <2>2. rpc' \in [Op -> [Shard -> [Txn -> {"none", "asked", "yes", "no"}]]]
    BY <1>1 DEF CallsOK, ShardRestart
  <2> QED
    BY ZenonT(60), <1>1, <2>1, <2>2 DEF CallsOK
<1> QED
  BY ZenonT(60), <1>2, <1>3, <1>6, <1>7

\* The coordinator log takes records only.
LEMMA WriteType ==
  ASSUME TypeOK, NEW x \in Txn, NEW t \in RecordType, clog' = Append(clog, Record(t, x)),
         synced' = synced \/ synced' = Len(clog')
  PROVE  /\ clog' \in Seq([type : RecordType, txn : Txn]) /\ synced' \in 0..Len(clog')
         /\ Len(clog') = Len(clog) + 1 /\ Len(clog) \in Nat
<1> DEFINE R == [type : RecordType, txn : Txn]
           r == Record(t, x)
<1>1. clog \in Seq(R) /\ r \in R /\ synced \in 0..Len(clog)
  BY ZenonT(60) DEF TypeOK, Record
<1> HIDE DEF R, r
<1>2. Append(clog, r) \in Seq(R) /\ Len(Append(clog, r)) = Len(clog) + 1 /\ Len(clog) \in Nat
  BY <1>1
<1> USE DEF R, r
<1> QED
  BY <1>1, <1>2

\* The calls of a phase are well-typed.
LEMMA SendType ==
  ASSUME TypeOK, NEW x \in Txn, NEW op \in Op, Send(op, x)
  PROVE  CallsOK'
<1>1. parts[x] \subseteq Shard /\ CallsOK
  BY ZenonT(60), TypeParts DEF TypeOK
<1>2. handlers' \subseteq Handler
  <2>1. ASSUME NEW s \in parts[x]
        PROVE  [op |-> op, txn |-> x, shard |-> s, live |-> TRUE, ix |-> 0, at |-> "sent"]
                 \in Handler
    BY ZenonT(60), <1>1 DEF Handler
  <2> QED
    BY ZenonT(60), <1>1, <2>1 DEF CallsOK, Send
<1>3. rpc' \in [Op -> [Shard -> [Txn -> {"none", "asked", "yes", "no"}]]]
  BY ZenonT(60), <1>1 DEF CallsOK, Send
<1> QED
  BY ZenonT(60), <1>2, <1>3 DEF CallsOK

\* A step of the thread of a transaction that only moves it on.
LEMMA CoordType ==
  ASSUME TypeOK, NEW x \in Txn,
         NEW w \in {"new", "active", "preparing", "committing", "aborting",
                    "aborted", "lost", "query", "recommit", "reabort", "done"},
         pc' = pc \/ Become(x, w),
         outcome' = outcome \/ (\E a \in {"ok", "error", "conflict"} : Return(x, a)),
         \/ clog' = clog /\ synced' = synced
         \/ clog' \in Seq([type : RecordType, txn : Txn]) /\ synced' \in 0..Len(clog'),
         parts' = parts, seen' = seen, up' = up
  PROVE  CoordOK'
<1>1. CoordOK
  BY ZenonT(60), TypeParts
<1>2. pc' \in [Txn -> {"new", "active", "preparing", "committing", "aborting",
                       "aborted", "lost", "query", "recommit", "reabort", "done"}]
  BY ZenonT(60), <1>1 DEF CoordOK, Become
<1>3. outcome' \in [Txn -> {"none", "ok", "error", "conflict"}]
  BY ZenonT(60), <1>1 DEF CoordOK, Return
<1>4. clog' \in Seq([type : RecordType, txn : Txn]) /\ synced' \in 0..Len(clog')
  BY ZenonT(60), <1>1 DEF CoordOK
<1> QED
  BY ZenonT(60), <1>1, <1>2, <1>3, <1>4 DEF CoordOK

\* What the thread of a transaction writes and sends.
LEMMA WritesType ==
  ASSUME TypeOK, NEW x \in Txn, NEW t \in RecordType, Write(t, x) \/ WriteAndFlush(t, x)
  PROVE  clog' \in Seq([type : RecordType, txn : Txn]) /\ synced' \in 0..Len(clog')
BY ZenonT(60), WriteType DEF Write, WriteAndFlush, Flush

\* The steps of the client's thread keep the types.
LEMMA ClientStepType ==
  ASSUME TypeOK, NEW x \in Txn,
         \/ BeginTxn(x) \/ Commit(x) \/ Abort(x) \/ VotedCommit(x) \/ VotedAbort(x)
         \/ CommitDone(x) \/ CommitFailed(x) \/ AbortDone(x) \/ AbortReturn(x)
  PROVE  TypeOK'
<1> USE DEF RecordType, Op
<1>1. CASE BeginTxn(x)
  <2>1. TablesOK' /\ ReplicatedOK' /\ CallsOK' /\ SpentOK'
    BY ZenonT(60), <1>1, SameTypes DEF BeginTxn, shardVars
  <2> QED
    BY ZenonT(60), <1>1, <2>1, CoordType, TypeNextParts DEF BeginTxn
<1>2. CASE Commit(x)
  <2>1. TablesOK' /\ ReplicatedOK' /\ SpentOK'
    BY ZenonT(60), <1>2, SameTypes DEF Commit
  <2>2. CallsOK'
    BY ZenonT(60), <1>2, SameTypes, SendType DEF Commit
  <2>3. CoordOK'
    BY ZenonT(60), <1>2, WritesType, CoordType DEF Commit
  <2> QED
    BY ZenonT(60), <2>1, <2>2, <2>3, TypeNextParts
<1>3. CASE Abort(x)
  <2>1. TablesOK' /\ ReplicatedOK' /\ SpentOK'
    BY ZenonT(60), <1>3, SameTypes DEF Abort
  <2>2. CallsOK'
    BY ZenonT(60), <1>3, SameTypes, SendType DEF Abort
  <2>3. CoordOK'
    BY ZenonT(60), <1>3, WritesType, CoordType DEF Abort
  <2> QED
    BY ZenonT(60), <2>1, <2>2, <2>3, TypeNextParts
<1>4. CASE VotedCommit(x)
  <2>1. TablesOK' /\ ReplicatedOK' /\ SpentOK'
    BY ZenonT(60), <1>4, SameTypes DEF VotedCommit
  <2>2. CallsOK'
    BY ZenonT(60), <1>4, SendType DEF VotedCommit
  <2>3. CoordOK'
    BY ZenonT(60), <1>4, WritesType, CoordType DEF VotedCommit
  <2> QED
    BY ZenonT(60), <2>1, <2>2, <2>3, TypeNextParts
<1>5. CASE VotedAbort(x)
  <2>1. TablesOK' /\ ReplicatedOK' /\ SpentOK'
    BY ZenonT(60), <1>5, SameTypes DEF VotedAbort
  <2>2. CallsOK'
    BY ZenonT(60), <1>5, SameTypes, SendType DEF VotedAbort
  <2>3. CoordOK'
    BY ZenonT(60), <1>5, WritesType, CoordType DEF VotedAbort
  <2> QED
    BY ZenonT(60), <2>1, <2>2, <2>3, TypeNextParts
<1>6. CASE CommitDone(x) \/ AbortDone(x)
  <2>1. TablesOK' /\ ReplicatedOK' /\ CallsOK' /\ SpentOK'
    BY ZenonT(60), <1>6, SameTypes DEF CommitDone, AbortDone, shardVars
  <2>2. CoordOK'
    BY ZenonT(60), <1>6, WritesType, CoordType DEF CommitDone, AbortDone
  <2> QED
    BY ZenonT(60), <2>1, <2>2, TypeNextParts
<1>7. CASE CommitFailed(x) \/ AbortReturn(x)
  <2>1. TablesOK' /\ ReplicatedOK' /\ CallsOK' /\ SpentOK'
    BY ZenonT(60), <1>7, SameTypes DEF CommitFailed, AbortReturn, shardVars
  <2>2. CoordOK'
    BY ZenonT(60), <1>7, CoordType DEF CommitFailed, AbortReturn
  <2> QED
    BY ZenonT(60), <2>1, <2>2, TypeNextParts
<1> QED
  BY ZenonT(60), <1>1, <1>2, <1>3, <1>4, <1>5, <1>6, <1>7

\* The first access to a shard keeps the types.
LEMMA ExecuteType ==
  ASSUME TypeOK, NEW x \in Txn, NEW s \in Shard, Execute(x, s) \/ ExecuteConflict(x, s)
  PROVE  TypeOK'
<1>1. TablesOK /\ CoordOK
  BY ZenonT(60), TypeParts
<1>2. ReplicatedOK' /\ CallsOK'
  BY ZenonT(60), SameTypes DEF Execute, ExecuteConflict
<1>3. CASE Execute(x, s)
  <2>1. SpentOK'
    BY ZenonT(60), <1>3, SameTypes, SpendType
    DEF Execute, EnsureShardParticipant, AttemptsFail, Bounded
  <2>2. TablesOK'
    BY ZenonT(60), <1>1, <1>3 DEF TablesOK, Execute, EnsureShardParticipant, Begin, Set
  <2>3. parts' \in [Txn -> SUBSET Shard]
    BY <1>1, <1>3 DEF CoordOK, Execute, EnsureShardParticipant
  <2>4. CoordOK'
    BY ZenonT(60), <1>1, <1>3, <2>3 DEF CoordOK, Execute
  <2> QED
    BY ZenonT(60), <1>2, <2>1, <2>2, <2>4, TypeNextParts
<1>4. CASE ExecuteConflict(x, s)
  <2>1. SpentOK' /\ CoordOK'
    BY ZenonT(60), <1>4, SameTypes DEF ExecuteConflict
  <2>2. TablesOK'
    BY ZenonT(60), <1>1, <1>4 DEF TablesOK, ExecuteConflict, WriteConflict, Set
  <2> QED
    BY ZenonT(60), <1>2, <2>1, <2>2, TypeNextParts
<1> QED
  BY ZenonT(60), <1>3, <1>4

\* The steps of Recover keep the types.
LEMMA RecoverStepType ==
  ASSUME TypeOK, RecoverStep
  PROVE  TypeOK'
<1> USE DEF RecordType, Op
<1>1. CoordOK
  BY ZenonT(60), TypeParts
<1>2. CASE Reopen \/ RecoverDone
  <2>1. TablesOK' /\ ReplicatedOK' /\ CallsOK' /\ SpentOK'
    BY ZenonT(60), <1>2, SameTypes DEF Reopen, RecoverDone, shardVars
  <2>2. CoordOK'
    BY ZenonT(60), <1>1, <1>2 DEF Reopen, RecoverDone, CoordOK
  <2> QED
    BY ZenonT(60), <2>1, <2>2, TypeNextParts
<1>3. ASSUME NEW x \in Txn, NEW op \in {"commit", "abort"}, Drive(op, x),
             UNCHANGED <<tables, replicated, spent, up, parts, seen, outcome>>
      PROVE  TypeOK'
  <2>1. TablesOK' /\ ReplicatedOK' /\ SpentOK'
    BY ZenonT(60), <1>3, SameTypes
  <2>2. CallsOK'
    BY ZenonT(60), <1>3, SendType DEF Drive
  <2>3. CoordOK'
    <3>1. clog' \in Seq([type : RecordType, txn : Txn]) /\ synced' \in 0..Len(clog')
      BY ZenonT(60), <1>3, WritesType DEF Drive
    <3>2. \E w \in {"recommit", "reabort"} : Become(x, w)
      BY ZenonT(60), <1>3 DEF Drive
    <3> QED
      BY ZenonT(60), <1>3, <3>1, <3>2, CoordType
  <2> QED
    BY ZenonT(60), <2>1, <2>2, <2>3, TypeNextParts
<1>4. ASSUME NEW x \in Txn, RecoverTxn(x)
      PROVE  TypeOK'
  <2>1. CASE Become(x, "query") /\ UNCHANGED <<clog, synced, handlers, rpc>>
    <3>1. TablesOK' /\ ReplicatedOK' /\ CallsOK' /\ SpentOK'
      BY ZenonT(60), <1>4, <2>1, SameTypes DEF RecoverTxn
    <3>2. CoordOK'
      BY ZenonT(60), <1>4, <2>1, CoordType DEF RecoverTxn
    <3> QED
      BY ZenonT(60), <3>1, <3>2, TypeNextParts
  <2> QED
    BY ZenonT(60), <1>3, <1>4, <2>1 DEF RecoverTxn
<1>5. ASSUME NEW x \in Txn, RecoverDecide(x)
      PROVE  TypeOK'
  <2>1. \A answers : Decision(answers) \in {"commit", "abort"}
    BY ZenonT(60) DEF Decision
  <2> QED
    BY ZenonT(60), <1>3, <1>5, <2>1 DEF RecoverDecide
<1>6. ASSUME NEW x \in Txn, RecoverTxnDone(x)
      PROVE  TypeOK'
  <2>1. TablesOK' /\ ReplicatedOK' /\ CallsOK' /\ SpentOK'
    BY ZenonT(60), <1>6, SameTypes DEF RecoverTxnDone, shardVars
  <2>2. CoordOK'
    BY ZenonT(60), <1>6, WritesType, CoordType DEF RecoverTxnDone
  <2> QED
    BY ZenonT(60), <2>1, <2>2, TypeNextParts
<1>7. ASSUME NEW x \in Txn, RecoverFails(x)
      PROVE  TypeOK'
  <2>1. TablesOK' /\ ReplicatedOK' /\ CallsOK' /\ SpentOK'
    BY ZenonT(60), <1>7, SameTypes DEF RecoverFails, shardVars
  <2>2. CoordOK'
    BY ZenonT(60), <1>1, <1>7 DEF RecoverFails, Become, CoordOK
  <2> QED
    BY ZenonT(60), <2>1, <2>2, TypeNextParts
<1>8. ASSUME NEW x \in Txn, NEW s \in Shard, Query(x, s)
      PROVE  TypeOK'
  <2>1. TablesOK' /\ ReplicatedOK' /\ CallsOK'
    BY ZenonT(60), <1>8, SameTypes DEF Query
  <2>2. SpentOK'
    BY ZenonT(60), <1>8, SameTypes, SpendType DEF Query, QueryFails, Bounded
  <2>3. TxnState(s, x) \subseteq {"none", "unknown", "in_flight", "prepared", "committed", "aborted"}
    <3>1. terminal[s][x] \in {"none", "committed", "aborted"}
      BY DEF TypeOK
    <3> QED
      BY ZenonT(60), <3>1 DEF TxnState
  <2>4. seen' \in [Txn -> [Shard -> {"none", "unknown", "in_flight", "prepared",
                                     "committed", "aborted"}]]
    BY <1>1, <1>8, <2>3 DEF CoordOK, Query
  <2>5. CoordOK'
    BY ZenonT(60), <1>1, <1>8, <2>4 DEF CoordOK, Query
  <2> QED
    BY ZenonT(60), <2>1, <2>2, <2>5, TypeNextParts
<1> QED
  BY ZenonT(60), <1>2, <1>4, <1>5, <1>6, <1>7, <1>8 DEF RecoverStep

\* A crash cuts the log behind what is flushed.
LEMMA CutLog ==
  ASSUME TypeOK, NEW n \in synced..Len(clog), clog' = SubSeq(clog, 1, n), synced' = n
  PROVE  /\ clog' \in Seq([type : RecordType, txn : Txn]) /\ synced' \in 0..Len(clog')
         /\ Len(clog') = n /\ n <= Len(clog) /\ synced <= n /\ n \in Nat
         /\ \A i \in 1..n : clog'[i] = clog[i]
<1> DEFINE R == [type : RecordType, txn : Txn]
<1>1. clog \in Seq(R) /\ synced \in 0..Len(clog)
  BY ZenonT(60) DEF TypeOK
<1> HIDE DEF R
<1>2. Len(clog) \in Nat /\ n \in Nat /\ n <= Len(clog) /\ synced <= n
  BY <1>1
<1>3. SubSeq(clog, 1, n) \in Seq(R) /\ Len(SubSeq(clog, 1, n)) = n
  BY <1>1, <1>2
<1>4. \A i \in 1..n : SubSeq(clog, 1, n)[i] = clog[i]
  BY <1>1, <1>2
<1> USE DEF R
<1> QED
  BY <1>1, <1>2, <1>3, <1>4

\* A crash of the coordinator keeps the types.
LEMMA CrashType ==
  ASSUME TypeOK, Crash
  PROVE  TypeOK'
<1>1. CoordOK /\ CallsOK
  BY ZenonT(60), TypeParts
<1>2. TablesOK' /\ ReplicatedOK'
  BY ZenonT(60), SameTypes DEF Crash
<1>3. SpentOK'
  BY ZenonT(60), SpendType DEF Crash, Bounded
<1>4. CallsOK'
  <2>1. ASSUME NEW h \in handlers PROVE [h EXCEPT !.live = FALSE] \in Handler
    BY ZenonT(60), <2>1, HandlerFacts, HandlerOrphaned
  <2>2. handlers' \subseteq Handler
    BY ZenonT(60), <2>1 DEF Crash
  <2>3. rpc' \in [Op -> [Shard -> [Txn -> {"none", "asked", "yes", "no"}]]]
    BY ZenonT(60) DEF Crash, ForAll
  <2> QED
    BY ZenonT(60), <2>2, <2>3 DEF CallsOK
<1>5. clog' \in Seq([type : RecordType, txn : Txn]) /\ synced' \in 0..Len(clog')
  BY ZenonT(60), CutLog DEF Crash
<1>6. pc' \in [Txn -> {"new", "active", "preparing", "committing", "aborting",
                       "aborted", "lost", "query", "recommit", "reabort", "done"}]
  BY ZenonT(60), <1>1 DEF Crash, CoordOK
<1>7. seen' \in [Txn -> [Shard -> {"none", "unknown", "in_flight", "prepared",
                                   "committed", "aborted"}]]
  BY ZenonT(60) DEF Crash, Nothing
<1>8. CoordOK'
  BY ZenonT(60), <1>1, <1>5, <1>6, <1>7 DEF CoordOK, Crash
<1> QED
  BY ZenonT(60), <1>2, <1>3, <1>4, <1>8, TypeNextParts

\* A missed deadline keeps the types.
LEMMA DeadlineType ==
  ASSUME TypeOK, NEW h \in handlers, Deadline(h)
  PROVE  TypeOK'
<1>1. CallsOK /\ h.op \in Op /\ h.txn \in Txn /\ h.shard \in Shard
  BY ZenonT(60), TypeParts, HandlerFacts
<1>2. TablesOK' /\ ReplicatedOK' /\ CoordOK' /\ SpentOK'
  BY ZenonT(60), SameTypes, SpendType DEF Deadline, Bounded
<1>3. [h EXCEPT !.live = FALSE] \in Handler
  BY ZenonT(60), <1>1, HandlerFacts, HandlerOrphaned
<1>4. handlers' \subseteq Handler
  <2>1. handlers' \subseteq handlers \cup {[h EXCEPT !.live = FALSE]}
    BY ZenonT(60) DEF Deadline
  <2> QED
    BY ZenonT(60), <1>1, <1>3, <2>1 DEF CallsOK
<1>5. rpc' \in [Op -> [Shard -> [Txn -> {"none", "asked", "yes", "no"}]]]
  BY ZenonT(60), <1>1 DEF CallsOK, Deadline
<1> QED
  BY ZenonT(60), <1>2, <1>4, <1>5, TypeNextParts DEF CallsOK

\* The type invariant holds at first.
LEMMA TypeInit == Init => TypeOK
<1> SUFFICES ASSUME Init PROVE TypeOK
  BY ZenonT(60)
<1>1. TablesOK
  BY ZenonT(60) DEF Init, InitShards, ForAll, TablesOK
<1>2. ReplicatedOK
  BY DEF Init, InitShards, ForAll, ReplicatedOK
<1>3. CallsOK
  BY ZenonT(60) DEF Init, InitShards, ForAll, CallsOK
<1>4. SpentOK
  <2>1. spent = [b \in Bounded |-> 0]
    BY ZenonT(60) DEF Init, InitShards
  <2> QED
    BY <2>1, BudgetAssumption DEF SpentOK
<1>5. CoordOK
  BY DEF Init, Nothing, CoordOK
<1> QED
  BY ZenonT(60), <1>1, <1>2, <1>3, <1>4, <1>5, TypeParts

\* Every step keeps the types.
LEMMA TypeNext == TypeOK /\ [Next]_vars => TypeOK'
<1> SUFFICES ASSUME TypeOK, [Next]_vars PROVE TypeOK'
  BY ZenonT(60)
<1>1. CASE ClientStep
  BY ZenonT(60), <1>1, ClientStepType, ExecuteType DEF ClientStep
<1>2. CASE RecoverStep
  BY ZenonT(60), <1>2, RecoverStepType
<1>3. CASE Crash
  BY ZenonT(60), <1>3, CrashType
<1>4. CASE \E h \in handlers : Deadline(h)
  BY ZenonT(60), <1>4, DeadlineType
<1>5. CASE ShardStep /\ UNCHANGED coordVars
  <2>1. TablesOK' /\ ReplicatedOK' /\ CallsOK' /\ SpentOK'
    BY ZenonT(60), <1>5, HandlerStepType, ApplyType, ShardRestartType DEF ShardStep
  <2> QED
    BY ZenonT(60), <1>5, <2>1, SameTypes, TypeNextParts
<1>6. CASE UNCHANGED vars
  <2>1. TablesOK' /\ ReplicatedOK' /\ CallsOK' /\ SpentOK' /\ CoordOK'
    BY ZenonT(60), <1>6, SameTypes DEF vars, shardVars
  <2> QED
    BY ZenonT(60), <2>1, TypeNextParts
<1> QED
  BY ZenonT(60), <1>1, <1>2, <1>3, <1>4, <1>5, <1>6 DEF Next
-----------------------------------------------------------------------------
(* What a step does to one transaction at one shard *)

\* The tables of s keep what they say of x.
Same(x, s) ==
  /\ pending'[s][x] = pending[s][x] /\ terminal'[s][x] = terminal[s][x]
  /\ local'[s][x] = local[s][x] /\ txn_id_map'[s][x] = txn_id_map[s][x]
  /\ prepare_results'[s][x] = prepare_results[s][x]
  /\ follower_results'[s][x] = follower_results[s][x]
  /\ x \in committed'[s] <=> x \in committed[s]

\* The log of s only grows.
Grows(s) ==
  /\ Len(slog[s]) <= Len(slog'[s])
  /\ \A i \in 1..Len(slog[s]) : slog'[s][i] = slog[s][i]

\* It has no new entries of x, and no entry of x has been applied.
EntriesSame(x, s) ==
  /\ Grows(s)
  /\ \A op \in Op : HasEntry(op, x, s)' <=> HasEntry(op, x, s)
  /\ \A op \in Op : HasApplied(op, x, s)' <=> HasApplied(op, x, s)
  /\ Ordered(x, s) => Ordered(x, s)'

\* It has one new entry of x.
Appends(new, x, s) ==
  /\ Grows(s)
  /\ \A op \in Op : HasEntry(op, x, s)' <=> HasEntry(op, x, s) \/ op = new
  /\ \A op \in Op : HasApplied(op, x, s)' <=> HasApplied(op, x, s)
  /\ Ordered(x, s) /\ (new = "commit" => HasEntry("prepare", x, s)) => Ordered(x, s)'
  /\ Len(slog'[s]) \in 1..Len(slog'[s]) /\ slog'[s][Len(slog'[s])] = Entry(new, x)

\* The prime of a predicate on the log of s depends on slog'[s] alone.
LEMMA EntriesPrimed ==
  ASSUME NEW op, NEW x, NEW s
  PROVE  /\ HasEntry(op, x, s)' <=> \E i \in 1..Len(slog'[s]) : slog'[s][i] = Entry(op, x)
         /\ HasApplied(op, x, s)' <=> \E i \in 1..last_applied'[s] : slog'[s][i] = Entry(op, x)
BY ZenonT(60) DEF HasEntry, HasApplied, Entry

\* A log that stays has the entries it had.
LEMMA EntriesStay ==
  ASSUME NEW x \in Txn, NEW s \in Shard, TypeOK,
         slog'[s] = slog[s], last_applied'[s] = last_applied[s]
  PROVE  EntriesSame(x, s)
<1>1. Len(slog[s]) \in Nat
  BY ZenonT(60), EntryFacts
<1>2. Grows(s)
  BY <1>1 DEF Grows
<1> QED
  BY ZenonT(60), <1>2 DEF EntriesSame, HasEntry, HasApplied, Ordered

\* The facts about the end of a log that has grown by e.
LEMMA AppendFacts ==
  ASSUME NEW s \in Shard, TypeOK, NEW e \in [op : Op, txn : Txn],
         slog'[s] = Append(slog[s], e)
  PROVE  /\ Len(slog[s]) \in Nat /\ Len(slog'[s]) = Len(slog[s]) + 1
         /\ slog'[s][Len(slog[s]) + 1] = e
         /\ \A i \in 1..Len(slog[s]) : slog'[s][i] = slog[s][i]
         /\ last_applied[s] \in Nat /\ last_applied[s] <= Len(slog[s])
<1> DEFINE E == [op : Op, txn : Txn]
<1>1. slog[s] \in Seq(E) /\ e \in E /\ last_applied[s] \in Nat /\ last_applied[s] <= Len(slog[s])
  BY ZenonT(60), EntryFacts
<1> HIDE DEF E
<1> QED
  BY <1>1

\* A proposal adds its entry to the log, and no other.
LEMMA AppendEntries ==
  ASSUME NEW x \in Txn, NEW s \in Shard, TypeOK, NEW new \in Op, NEW y \in Txn,
         slog'[s] = Append(slog[s], Entry(new, y)), last_applied'[s] = last_applied[s]
  PROVE  /\ y # x => EntriesSame(x, s)
         /\ y = x => Appends(new, x, s)
<1>0. Entry(new, y) \in [op : Op, txn : Txn]
  BY ZenonT(60) DEF Entry
<1> DEFINE n == Len(slog[s])
<1>1. /\ n \in Nat /\ Len(slog'[s]) = n + 1 /\ slog'[s][n + 1] = Entry(new, y)
      /\ \A i \in 1..n : slog'[s][i] = slog[s][i]
      /\ last_applied[s] \in Nat /\ last_applied[s] <= n
  BY ZenonT(60), <1>0, AppendFacts
<1>2. \A op \in Op : Entry(op, x) = Entry(new, y) <=> op = new /\ x = y
  BY ZenonT(60) DEF Entry
<1>3. Grows(s)
  BY <1>1 DEF Grows
<1>4. \A op \in Op : HasApplied(op, x, s)' <=> HasApplied(op, x, s)
  <2>1. \A i \in 1..last_applied[s] : i \in 1..n
    BY <1>1
  <2> QED
    BY ZenonT(60), <1>1, <2>1 DEF HasApplied
<1>5. 1..(n + 1) = (1..n) \cup {n + 1} /\ n + 1 \in 1..(n + 1)
  BY <1>1
<1>6. \A op \in Op : HasEntry(op, x, s)' <=> HasEntry(op, x, s) \/ Entry(op, x) = Entry(new, y)
  BY ZenonT(60), <1>1, <1>5 DEF HasEntry
<1>7. ASSUME Ordered(x, s), new = "commit" /\ x = y => HasEntry("prepare", x, s)
      PROVE  Ordered(x, s)'
  <2> SUFFICES ASSUME NEW c \in 1..(n + 1), slog'[s][c] = Entry("commit", x)
               PROVE  \E i \in 1..(c - 1) : slog'[s][i] = Entry("prepare", x)
    BY ZenonT(60), <1>1 DEF Ordered
  <2>1. CASE c \in 1..n
    <3>1. PICK i \in 1..(c - 1) : slog[s][i] = Entry("prepare", x)
      BY ZenonT(60), <1>1, <1>7, <2>1 DEF Ordered
    <3>2. i \in 1..n
      BY <1>1, <2>1
    <3> QED
      BY ZenonT(60), <1>1, <3>1, <3>2
  <2>2. CASE c = n + 1
    <3>1. new = "commit" /\ x = y
      BY ZenonT(60), <1>1, <1>2, <2>2 DEF Op
    <3>2. PICK i \in 1..n : slog[s][i] = Entry("prepare", x)
      BY ZenonT(60), <1>7, <3>1 DEF HasEntry
    <3>3. c - 1 = n
      BY <1>1, <2>2
    <3> QED
      BY ZenonT(60), <1>1, <3>2, <3>3
  <2> QED
    BY ZenonT(60), <1>5, <2>1, <2>2
<1>8. Len(slog'[s]) \in 1..Len(slog'[s])
  BY <1>1
<1> QED
  BY ZenonT(60), <1>1, <1>2, <1>3, <1>4, <1>6, <1>7, <1>8 DEF EntriesSame, Appends

\* An entry of x has been applied.
Advances(did, x, s) ==
  /\ Grows(s)
  /\ HasEntry(did, x, s)
  /\ \A op \in Op : HasEntry(op, x, s)' <=> HasEntry(op, x, s)
  /\ \A op \in Op : HasApplied(op, x, s)' <=> HasApplied(op, x, s) \/ op = did
  /\ Ordered(x, s) => Ordered(x, s)'
  /\ Ordered(x, s) /\ did = "commit" => HasApplied("prepare", x, s)

\* Applying an entry makes it applied, and no other.
LEMMA ApplyEntries ==
  ASSUME NEW x \in Txn, NEW s \in Shard, TypeOK, NEW e, e = slog[s][last_applied[s] + 1],
         last_applied[s] < Len(slog[s]), last_applied'[s] = last_applied[s] + 1,
         slog'[s] = slog[s]
  PROVE  /\ e \in [op : Op, txn : Txn] /\ e.op \in Op /\ e.txn \in Txn
         /\ e.txn # x => EntriesSame(x, s)
         /\ e.txn = x => Advances(e.op, x, s)
<1> DEFINE n == last_applied[s]
<1>1. n \in Nat /\ Len(slog[s]) \in Nat /\ n + 1 \in 1..Len(slog[s])
  BY EntryFacts
<1>2. e \in [op : Op, txn : Txn] /\ e.op \in Op /\ e.txn \in Txn
  BY ZenonT(60), <1>1, EntryFacts
<1>3. e = Entry(e.op, e.txn)
  BY ZenonT(60), <1>2 DEF Entry
<1>4. \A op \in Op : Entry(op, x) = e <=> op = e.op /\ x = e.txn
  <2>1. \A op \in Op : Entry(op, x).op = op /\ Entry(op, x).txn = x
    BY ZenonT(60) DEF Entry
  <2> QED
    BY ZenonT(60), <1>3, <2>1
<1>5. Grows(s)
  BY <1>1 DEF Grows
<1>6. \A op \in Op : HasEntry(op, x, s)' <=> HasEntry(op, x, s)
  BY ZenonT(60) DEF HasEntry
<1>7. Ordered(x, s) => Ordered(x, s)'
  BY ZenonT(60) DEF Ordered
<1>8. 1..(n + 1) = (1..n) \cup {n + 1} /\ (n + 1) - 1 = n
  BY <1>1
<1>9. \A op \in Op : HasApplied(op, x, s)' <=> HasApplied(op, x, s) \/ Entry(op, x) = e
  BY ZenonT(60), <1>8 DEF HasApplied
<1>10. ASSUME e.txn = x PROVE Advances(e.op, x, s)
  <2>1. HasEntry(e.op, x, s)
    BY ZenonT(60), <1>1, <1>3, <1>10 DEF HasEntry
  <2>2. ASSUME Ordered(x, s), e.op = "commit" PROVE HasApplied("prepare", x, s)
    <3>1. PICK i \in 1..((n + 1) - 1) : slog[s][i] = Entry("prepare", x)
      BY ZenonT(60), <1>1, <1>3, <1>10, <2>2 DEF Ordered
    <3> QED
      BY ZenonT(60), <1>8, <3>1 DEF HasApplied
  <2> QED
    BY ZenonT(60), <1>4, <1>5, <1>6, <1>7, <1>9, <1>10, <2>1, <2>2 DEF Advances
<1> QED
  BY ZenonT(60), <1>2, <1>4, <1>5, <1>6, <1>7, <1>9, <1>10 DEF EntriesSame

\* No handler of x at s has done anything, although it may have lost its caller, or,
\* if it has not started yet, may be lost itself.
Alike(g, h) ==
  g.op = h.op /\ g.txn = h.txn /\ g.shard = h.shard /\ g.at = h.at /\ g.ix = h.ix
Thin(x, s) ==
  /\ \A g \in handlers' : g.txn = x /\ g.shard = s => \E h \in handlers : Alike(g, h)
  /\ \A h \in handlers : h.txn = x /\ h.shard = s /\ h.at # "sent" =>
       \E g \in handlers' : Alike(g, h)
  /\ OnePrepare(x, s) => OnePrepare(x, s)'

\* A caller knows what it knew, or its call has failed.
Calls(x, s) ==
  \A op \in Op :
    \/ rpc'[op][s][x] = rpc[op][s][x]
    \/ rpc'[op][s][x] = "none"
    \/ rpc'[op][s][x] = "no" /\ HasHandler(op, x, s) /\ ~FaultFree'

Idle(x, s) == Same(x, s) /\ EntriesSame(x, s) /\ Thin(x, s) /\ Calls(x, s)

\* The other cells: OP_BEGIN, a failed write, and a call of the coordinator.
Begins(x, s) ==
  /\ pc[x] = "active" /\ pc'[x] = "active"
  /\ pending'[s][x] = "begun" /\ local'[s][x] = "active" /\ txn_id_map'[s][x] = "local"
  /\ terminal'[s][x] = terminal[s][x] /\ prepare_results'[s][x] = prepare_results[s][x]
  /\ follower_results'[s][x] = follower_results[s][x]
  /\ x \in committed'[s] <=> x \in committed[s]
  /\ EntriesSame(x, s) /\ handlers' = handlers /\ rpc' = rpc

Conflicts(x, s) ==
  /\ pc[x] = "active" /\ pc'[x] = "active"
  /\ local'[s][x] = "none" /\ pending'[s][x] = pending[s][x]
  /\ txn_id_map'[s][x] = txn_id_map[s][x] /\ terminal'[s][x] = terminal[s][x]
  /\ prepare_results'[s][x] = prepare_results[s][x]
  /\ follower_results'[s][x] = follower_results[s][x]
  /\ x \in committed'[s] <=> x \in committed[s]
  /\ EntriesSame(x, s) /\ handlers' = handlers /\ rpc' = rpc

Request(op, x, s) ==
  [op |-> op, txn |-> x, shard |-> s, live |-> TRUE, ix |-> 0, at |-> "sent"]
Sent(op, x, s) ==
  /\ Same(x, s) /\ EntriesSame(x, s)
  /\ s \in parts[x] /\ pc'[x] # pc[x]
  /\ op = "prepare" => pc[x] = "active" /\ pc'[x] = "preparing"
  /\ op = "commit" => pc'[x] \in {"committing", "recommit"}
  /\ op = "abort" => pc'[x] \in {"aborting", "reabort"}
  /\ handlers \subseteq handlers'
  /\ \A g \in handlers' : g.txn = x /\ g.shard = s => g \in handlers \/ g = Request(op, x, s)
  /\ \A o \in Op : rpc'[o][s][x] = IF o = op THEN "asked" ELSE rpc[o][s][x]

\* The shard comes back with nothing but its log.
Restarted(x, s) ==
  /\ pending'[s][x] = "none" /\ terminal'[s][x] = "none" /\ local'[s][x] = "none"
  /\ txn_id_map'[s][x] = "none" /\ ~prepare_results'[s][x] /\ ~follower_results'[s][x]
  /\ x \in committed'[s] <=> x \in committed[s]
  /\ Grows(s)
  /\ \A op \in Op : (HasEntry(op, x, s)' <=> HasEntry(op, x, s)) /\ ~HasApplied(op, x, s)'
  /\ Ordered(x, s) => Ordered(x, s)'
  /\ \A g \in handlers' : g.txn = x => g.shard # s
  /\ \A op \in Op : rpc'[op][s][x] = rpc[op][s][x] \/ (rpc'[op][s][x] = "no" /\ HasHandler(op, x, s))
  /\ ~FaultFree'

\* An entry is applied.
Applies(op, x, s) ==
  /\ Advances(op, x, s) /\ handlers' = handlers /\ rpc' = rpc
  /\ pending'[s][x] = pending[s][x] /\ terminal'[s][x] = terminal[s][x]
  /\ op = "prepare" =>
       /\ txn_id_map'[s][x] = IF txn_id_map[s][x] = "none" THEN "import" ELSE txn_id_map[s][x]
       /\ prepare_results'[s][x] /\ follower_results'[s][x]
       /\ local'[s][x] = local[s][x]
  /\ op # "prepare" =>
       /\ txn_id_map'[s][x] = "none" /\ ~follower_results'[s][x]
       /\ prepare_results'[s][x] => prepare_results[s][x]
  /\ op = "commit" => local'[s][x] \in {local[s][x], "none"}
  /\ op = "abort" =>
       local'[s][x] = IF txn_id_map[s][x] = "local" THEN "none" ELSE local[s][x]
  /\ x \in committed'[s] <=> x \in committed[s] \/ (op = "commit" /\ Prepared(s, x))
\* A handler takes a step of its own.
Others(x, s) ==
  /\ terminal'[s][x] = terminal[s][x] /\ follower_results'[s][x] = follower_results[s][x]
  /\ x \in committed'[s] <=> x \in committed[s]

Dropped(x, s) ==
  /\ pending'[s][x] = "none" /\ local'[s][x] = "none" /\ txn_id_map'[s][x] = "none"
  /\ ~prepare_results'[s][x] /\ follower_results'[s][x] = follower_results[s][x]
  /\ x \in committed'[s] <=> x \in committed[s]

Refuses(h, x, s) ==
  /\ h.op = "prepare" /\ h.at \in {"sent", "prepared"} /\ Finish(h, "no")
  /\ \/ Dropped(x, s) /\ terminal'[s][x] = terminal[s][x]
     \/ pending[s][x] = "none" /\ Same(x, s)
  /\ EntriesSame(x, s)

Validates(h, x, s) ==
  /\ h.op = "prepare" /\ h.at = "sent" /\ Goto(h, "prepared", 0)
  /\ local[s][x] = "active" /\ pending[s][x] # "none"
  /\ local'[s][x] = "prepared" /\ pending'[s][x] = pending[s][x]
  /\ txn_id_map'[s][x] = txn_id_map[s][x] /\ prepare_results'[s][x] = prepare_results[s][x]
  /\ Others(x, s) /\ EntriesSame(x, s)

Proposes(h, x, s) ==
  /\ \/ h.op = "prepare" /\ h.at = "prepared" /\ local[s][x] # "none"
     \/ h.op \in {"commit", "abort"} /\ h.at = "sent"
  /\ Goto(h, "waiting", Len(slog'[s]))
  /\ Same(x, s) /\ Appends(h.op, x, s)

GivesUp(h, x, s) ==
  /\ h.op = "prepare" /\ Finish(h, "no") /\ ~FaultFree'
  /\ Dropped(x, s) /\ terminal'[s][x] = terminal[s][x] /\ EntriesSame(x, s)

Takes(h, x, s) ==
  /\ h.op = "prepare" /\ h.at = "waiting" /\ last_applied[s] >= h.ix
  /\ \/ prepare_results[s][x] /\ Goto(h, "taken", 0)
     \/ ~prepare_results[s][x] /\ Finish(h, "no")
  /\ ~prepare_results'[s][x] /\ pending'[s][x] = pending[s][x]
  /\ local'[s][x] = local[s][x] /\ txn_id_map'[s][x] = txn_id_map[s][x]
  /\ Others(x, s) /\ EntriesSame(x, s)

Votes(h, x, s) ==
  /\ h.op = "prepare" /\ h.at = "taken" /\ Finish(h, "yes")
  /\ pending'[s][x] = IF pending[s][x] = "none" THEN "none" ELSE "prepared"
  /\ local'[s][x] = local[s][x] /\ txn_id_map'[s][x] = txn_id_map[s][x]
  /\ prepare_results'[s][x] = prepare_results[s][x]
  /\ Others(x, s) /\ EntriesSame(x, s)

Defers(h, x, s) ==
  /\ h.op = "abort" /\ h.at = "sent" /\ Goto(h, "unreplicated", 0)
  /\ Same(x, s) /\ EntriesSame(x, s)

AbortsLocally(h, x, s) ==
  /\ h.op = "abort" /\ h.at = "unreplicated" /\ Finish(h, "yes")
  /\ Dropped(x, s) /\ terminal'[s][x] = "aborted" /\ EntriesSame(x, s)

Decides(h, x, s) ==
  /\ h.op \in {"commit", "abort"} /\ h.at = "waiting" /\ last_applied[s] >= h.ix
  /\ Finish(h, "yes")
  /\ pending'[s][x] = "none"
  /\ terminal'[s][x] = IF h.op = "commit" THEN "committed" ELSE "aborted"
  /\ local'[s][x] = local[s][x] /\ txn_id_map'[s][x] = txn_id_map[s][x]
  /\ prepare_results'[s][x] = prepare_results[s][x]
  /\ follower_results'[s][x] = follower_results[s][x]
  /\ x \in committed'[s] <=> x \in committed[s]
  /\ EntriesSame(x, s)

Fails(h, x, s) ==
  /\ \E a \in {"yes", "no"} : Finish(h, a) /\ (a = "no" \/ h.op = "abort")
  /\ h.at = "sent" \/ (h.at = "waiting" /\ h.op # "prepare")
  /\ ~FaultFree'
  /\ Same(x, s) /\ EntriesSame(x, s)

Acts(h, x, s) ==
  \/ Refuses(h, x, s) \/ Validates(h, x, s) \/ Proposes(h, x, s) \/ GivesUp(h, x, s)
  \/ Takes(h, x, s) \/ Votes(h, x, s) \/ Defers(h, x, s) \/ AbortsLocally(h, x, s)
  \/ Decides(h, x, s) \/ Fails(h, x, s)

CellStep(x, s) ==
  \/ Idle(x, s) \/ Begins(x, s) \/ Conflicts(x, s) \/ Restarted(x, s)
  \/ \E op \in Op : Sent(op, x, s) \/ Applies(op, x, s)
  \/ \E h \in handlers : h.txn = x /\ h.shard = s /\ Acts(h, x, s)

\* After a fault the run is not free of faults.
LEMMA SpendFault ==
  ASSUME TypeOK, NEW b \in Bounded \ {"crash"}, Spend(b)
  PROVE  ~FaultFree'
<1>1. spent[b] \in Nat /\ spent'[b] = spent[b] + 1
  BY ZenonT(60) DEF TypeOK, Spend
<1>2. spent'[b] # 0
  BY <1>1
<1> QED
  BY ZenonT(60), <1>2 DEF FaultFree

\* A step that leaves the tables and the log of s alone.
LEMMA SameCell ==
  ASSUME NEW x \in Txn, NEW s \in Shard, UNCHANGED tables,
         follower_results' = follower_results, committed' = committed
  PROVE  Same(x, s)
BY ZenonT(60) DEF Same, tables

\* A handler at work elsewhere.
LEMMA OtherHandlers ==
  ASSUME TypeOK, NEW x \in Txn, NEW s \in Shard, NEW h \in handlers,
         h.txn # x \/ h.shard # s,
         (\E a : Finish(h, a)) \/ (\E at, ix : Goto(h, at, ix))
  PROVE  Thin(x, s) /\ Calls(x, s)
<1>1. h \in Handler /\ h.op \in Op /\ h.txn \in Txn /\ h.shard \in Shard
  BY ZenonT(60), HandlerFacts
<1>2. \A op \in Op : rpc'[op][s][x] = rpc[op][s][x]
  <2>1. rpc \in [Op -> [Shard -> [Txn -> {"none", "asked", "yes", "no"}]]]
    BY ZenonT(60) DEF TypeOK
  <2>2. ASSUME NEW a, Finish(h, a) PROVE \A op \in Op : rpc'[op][s][x] = rpc[op][s][x]
    BY <1>1, <2>1, <2>2 DEF Finish
  <2> QED
    BY ZenonT(60), <2>2 DEF Goto
<1>3. \A g : g.txn = x /\ g.shard = s => (g \in handlers' <=> g \in handlers)
  <2>1. ASSUME NEW at, NEW ix
        PROVE  /\ [h EXCEPT !.at = at, !.ix = ix].txn = h.txn
               /\ [h EXCEPT !.at = at, !.ix = ix].shard = h.shard
    BY ZenonT(60), <1>1 DEF Handler
  <2>2. ASSUME NEW a, Finish(h, a)
        PROVE  \A g : g.txn = x /\ g.shard = s => (g \in handlers' <=> g \in handlers)
    BY ZenonT(60), <2>2 DEF Finish
  <2>3. ASSUME NEW at, NEW ix, Goto(h, at, ix)
        PROVE  \A g : g.txn = x /\ g.shard = s => (g \in handlers' <=> g \in handlers)
    <3> DEFINE k == [h EXCEPT !.at = at, !.ix = ix]
    <3>1. k.txn = h.txn /\ k.shard = h.shard /\ handlers' = (handlers \ {h}) \cup {k}
      BY ZenonT(60), <2>1, <2>3 DEF Goto
    <3> HIDE DEF k
    <3> QED
      BY ZenonT(60), <3>1
  <2> QED
    BY ZenonT(60), <2>2, <2>3
<1> QED
  BY ZenonT(60), <1>2, <1>3 DEF Thin, Alike, Calls, OnePrepare, Of

\* What DropLocal does to the cell of a transaction.
LEMMA DropCell ==
  ASSUME TypeOK, NEW x \in Txn, NEW s \in Shard, NEW y \in Txn, NEW t \in Shard,
         DropLocal(t, y), follower_results' = follower_results, committed' = committed
  PROVE  /\ y = x /\ t = s => Dropped(x, s)
         /\ (y # x \/ t # s) /\ terminal'[s][x] = terminal[s][x] => Same(x, s)
<1>1. /\ pending'[s][x] = IF s = t /\ x = y THEN "none" ELSE pending[s][x]
      /\ local'[s][x] = IF s = t /\ x = y THEN "none" ELSE local[s][x]
      /\ txn_id_map'[s][x] = IF s = t /\ x = y THEN "none" ELSE txn_id_map[s][x]
      /\ prepare_results'[s][x] = IF s = t /\ x = y THEN FALSE ELSE prepare_results[s][x]
  BY ZenonT(60) DEF DropLocal, TypeOK, Set
<1> QED
  BY ZenonT(60), <1>1 DEF Dropped, Same

\* What a proposal does to a cell.
LEMMA ProposeCell ==
  ASSUME TypeOK, NEW x \in Txn, NEW s \in Shard, NEW h \in handlers, ProposeAndWait(h),
         UNCHANGED tables
  PROVE  /\ h.txn # x \/ h.shard # s => Idle(x, s)
         /\ h.txn = x /\ h.shard = s =>
              Same(x, s) /\ Appends(h.op, x, s) /\ Goto(h, "waiting", Len(slog'[s]))
<1>1. h.op \in Op /\ h.txn \in Txn /\ h.shard \in Shard /\ slog \in [Shard -> Seq([op : Op, txn : Txn])]
  BY ZenonT(60), HandlerFacts DEF TypeOK
<1>2. Same(x, s)
  BY ZenonT(60), SameCell DEF ProposeAndWait
<1>3. /\ slog'[h.shard] = Append(slog[h.shard], Entry(h.op, h.txn))
      /\ \A t \in Shard : t # h.shard => slog'[t] = slog[t]
  BY ZenonT(60), <1>1 DEF ProposeAndWait, Entry
<1>4. last_applied' = last_applied
  BY ZenonT(60) DEF ProposeAndWait
<1>5. h.txn # x \/ h.shard # s => EntriesSame(x, s)
  BY ZenonT(60), <1>1, <1>3, <1>4, EntriesStay, AppendEntries
<1>6. h.txn = x /\ h.shard = s => Appends(h.op, x, s)
  BY ZenonT(60), <1>1, <1>3, <1>4, AppendEntries
<1>7. Goto(h, "waiting", Len(slog'[h.shard]))
  BY ZenonT(60) DEF ProposeAndWait
<1>8. h.txn # x \/ h.shard # s => Thin(x, s) /\ Calls(x, s)
  BY ZenonT(60), <1>7, OtherHandlers
<1> QED
  BY ZenonT(60), <1>2, <1>5, <1>6, <1>7, <1>8 DEF Idle

\* What the steps of a handler do to its cell.
LEMMA HandlerCell ==
  ASSUME TypeOK, NEW x \in Txn, NEW s \in Shard, NEW h \in handlers, HandlerStep(h)
  PROVE  Idle(x, s) \/ (h.txn = x /\ h.shard = s /\ Acts(h, x, s))
<1> DEFINE Own == h.txn = x /\ h.shard = s
<1>0. h.op \in Op /\ h.txn \in Txn /\ h.shard \in Shard
  BY ZenonT(60), HandlerFacts
<1>1. UNCHANGED replicated =>
        EntriesSame(x, s) /\ follower_results' = follower_results /\ committed' = committed
  BY ZenonT(60), EntriesStay DEF replicated
<1>2. UNCHANGED tables /\ UNCHANGED replicated => Same(x, s)
  BY ZenonT(60), SameCell DEF replicated
<1>3. ASSUME ~Own, \E a : Finish(h, a), Same(x, s), UNCHANGED replicated PROVE Idle(x, s)
  BY ZenonT(60), <1>1, <1>3, OtherHandlers DEF Idle
<1>4. ASSUME ~Own, \E at, ix : Goto(h, at, ix), Same(x, s), UNCHANGED replicated PROVE Idle(x, s)
  BY ZenonT(60), <1>1, <1>4, OtherHandlers DEF Idle
<1>5. CASE PrepareLocal(h)
  <2>0. UNCHANGED replicated /\ h.op = "prepare" /\ h.at = "sent"
    BY ZenonT(60), <1>5 DEF PrepareLocal
  <2>1. CASE pending[h.shard][h.txn] = "none" /\ Finish(h, "no") /\ UNCHANGED tables
    BY ZenonT(60), <1>1, <1>2, <1>3, <2>0, <2>1 DEF Acts, Refuses
  <2>2. CASE Finish(h, "no") /\ DropLocal(h.shard, h.txn) /\ UNCHANGED terminal
    BY ZenonT(60), <1>0, <1>1, <1>3, <2>0, <2>2, DropCell DEF Acts, Refuses
  <2>3. CASE /\ pending[h.shard][h.txn] # "none" /\ local[h.shard][h.txn] = "active"
             /\ local' = Set(local, h.shard, h.txn, "prepared")
             /\ Goto(h, "prepared", 0)
             /\ UNCHANGED <<pending, terminal, txn_id_map, prepare_results>>
    <3>1. local'[s][x] = IF Own THEN "prepared" ELSE local[s][x]
      BY ZenonT(60), <1>0, <2>3 DEF TypeOK, Set
    <3>2. ~Own => Same(x, s)
      BY ZenonT(60), <1>1, <2>0, <2>3, <3>1 DEF Same
    <3>3. Own => Validates(h, x, s)
      BY ZenonT(60), <1>1, <2>0, <2>3, <3>1 DEF Validates, Others
    <3> QED
      BY ZenonT(60), <1>4, <2>0, <2>3, <3>2, <3>3 DEF Acts
  <2> QED
    BY ZenonT(60), <1>5, <2>1, <2>2, <2>3 DEF PrepareLocal
<1>6. CASE PreparePropose(h)
  <2>1. CASE Finish(h, "no") /\ DropLocal(h.shard, h.txn) /\ UNCHANGED <<terminal, replicated>>
    <3>1. h.op = "prepare" /\ h.at = "prepared"
      BY ZenonT(60), <1>6 DEF PreparePropose
    <3> QED
      BY ZenonT(60), <1>0, <1>1, <1>3, <2>1, <3>1, DropCell DEF Acts, Refuses
  <2>2. CASE local[h.shard][h.txn] # "none" /\ ProposeAndWait(h) /\ UNCHANGED tables
    BY ZenonT(60), <1>6, <2>2, ProposeCell DEF Acts, Proposes, PreparePropose
  <2> QED
    BY ZenonT(60), <1>6, <2>1, <2>2 DEF PreparePropose
<1>7. CASE PrepareNotReplicated(h)
  <2>1. ~FaultFree'
    BY ZenonT(60), <1>7, SpendFault DEF PrepareNotReplicated, Bounded
  <2> QED
    BY ZenonT(60), <1>0, <1>1, <1>3, <1>7, <2>1, DropCell DEF Acts, GivesUp, PrepareNotReplicated
<1>8. CASE PrepareTake(h)
  <2>0. UNCHANGED replicated /\ h.op = "prepare" /\ h.at = "waiting" /\ last_applied[h.shard] >= h.ix
    BY ZenonT(60), <1>8 DEF PrepareTake, Applied
  <2>1. prepare_results'[s][x] = IF Own THEN FALSE ELSE prepare_results[s][x]
    BY ZenonT(60), <1>0, <1>8 DEF TypeOK, Set, PrepareTake
  <2>2. ~Own => Same(x, s)
    BY ZenonT(60), <1>1, <1>8, <2>0, <2>1 DEF Same, PrepareTake
  <2>3. \/ prepare_results[h.shard][h.txn] /\ Goto(h, "taken", 0)
        \/ ~prepare_results[h.shard][h.txn] /\ Finish(h, "no")
    BY ZenonT(60), <1>8 DEF PrepareTake
  <2>4. Own => Takes(h, x, s)
    BY ZenonT(60), <1>1, <1>8, <2>0, <2>1, <2>3 DEF Takes, Others, PrepareTake
  <2> QED
    BY ZenonT(60), <1>3, <1>4, <2>0, <2>2, <2>3, <2>4 DEF Acts
<1>9. CASE PrepareVote(h)
  <2>0. UNCHANGED replicated /\ h.op = "prepare" /\ h.at = "taken" /\ Finish(h, "yes")
    BY ZenonT(60), <1>9 DEF PrepareVote
  <2>1. pending'[s][x] = IF Own THEN IF pending[s][x] = "none" THEN "none" ELSE "prepared"
                                ELSE pending[s][x]
    BY ZenonT(60), <1>0, <1>9 DEF TypeOK, PrepareVote
  <2>2. ~Own => Same(x, s)
    BY ZenonT(60), <1>1, <1>9, <2>0, <2>1 DEF Same, PrepareVote
  <2>3. Own => Votes(h, x, s)
    BY ZenonT(60), <1>1, <1>9, <2>0, <2>1 DEF Votes, Others, PrepareVote
  <2> QED
    BY ZenonT(60), <1>3, <2>0, <2>2, <2>3 DEF Acts
<1>10. CASE CommitPropose(h)
  BY ZenonT(60), <1>10, ProposeCell DEF Acts, Proposes, CommitPropose
<1>11. CASE AbortStart(h)
  <2>0. h.op = "abort" /\ h.at = "sent" /\ UNCHANGED tables
    BY ZenonT(60), <1>11 DEF AbortStart
  <2>1. CASE Goto(h, "unreplicated", 0) /\ UNCHANGED replicated
    BY ZenonT(60), <1>1, <1>2, <1>4, <2>0, <2>1 DEF Acts, Defers
  <2>2. CASE ProposeAndWait(h)
    BY ZenonT(60), <2>0, <2>2, ProposeCell DEF Acts, Proposes
  <2> QED
    BY ZenonT(60), <1>11, <2>1, <2>2 DEF AbortStart
<1>12. CASE AbortLocal(h)
  <2>0. UNCHANGED replicated /\ h.op = "abort" /\ h.at = "unreplicated" /\ Finish(h, "yes")
        /\ DropLocal(h.shard, h.txn)
    BY ZenonT(60), <1>12 DEF AbortLocal
  <2>1. terminal'[s][x] = IF Own THEN "aborted" ELSE terminal[s][x]
    BY ZenonT(60), <1>0, <1>12 DEF TypeOK, Set, AbortLocal
  <2>2. ~Own => Same(x, s)
    BY ZenonT(60), <1>0, <1>1, <2>0, <2>1, DropCell
  <2>3. Own => AbortsLocally(h, x, s)
    BY ZenonT(60), <1>0, <1>1, <2>0, <2>1, DropCell DEF AbortsLocally
  <2> QED
    BY ZenonT(60), <1>3, <2>0, <2>2, <2>3 DEF Acts
<1>13. CASE DecisionApplied(h)
  <2>0. /\ UNCHANGED replicated /\ h.op \in {"commit", "abort"} /\ h.at = "waiting"
        /\ last_applied[h.shard] >= h.ix /\ Finish(h, "yes")
        /\ UNCHANGED <<local, txn_id_map, prepare_results>>
    BY ZenonT(60), <1>13 DEF DecisionApplied, Applied
  <2>1. terminal'[s][x] = IF Own THEN IF h.op = "commit" THEN "committed" ELSE "aborted"
                                 ELSE terminal[s][x]
    BY ZenonT(60), <1>0, <1>13 DEF TypeOK, Set, DecisionApplied
  <2>2. pending'[s][x] = IF Own THEN "none" ELSE pending[s][x]
    BY ZenonT(60), <1>0, <1>13 DEF TypeOK, Set, DecisionApplied
  <2>3. ~Own => Same(x, s)
    BY ZenonT(60), <1>1, <2>0, <2>1, <2>2 DEF Same
  <2>4. Own => Decides(h, x, s)
    BY ZenonT(60), <1>1, <2>0, <2>1, <2>2 DEF Decides
  <2> QED
    BY ZenonT(60), <1>3, <2>0, <2>3, <2>4 DEF Acts
<1>14. CASE DecisionNotReplicated(h) \/ NoLeader(h)
  <2>0. /\ UNCHANGED replicated /\ UNCHANGED tables
        /\ h.at = "sent" \/ (h.at = "waiting" /\ h.op # "prepare")
        /\ \E a \in {"yes", "no"} : Finish(h, a) /\ (a = "no" \/ h.op = "abort")
    BY ZenonT(60), <1>14 DEF DecisionNotReplicated, NoLeader
  <2>1. ~FaultFree'
    BY ZenonT(60), <1>14, SpendFault DEF DecisionNotReplicated, NoLeader, Bounded
  <2> QED
    BY ZenonT(60), <1>1, <1>2, <1>3, <2>0, <2>1 DEF Acts, Fails
<1> QED
  BY ZenonT(60), <1>5, <1>6, <1>7, <1>8, <1>9, <1>10, <1>11, <1>12, <1>13, <1>14 DEF HandlerStep

\* The shards do not notice.
LEMMA IdleCell ==
  ASSUME TypeOK, NEW x \in Txn, NEW s \in Shard, UNCHANGED <<tables, replicated, handlers, rpc>>
  PROVE  Idle(x, s)
<1>1. Same(x, s) /\ EntriesSame(x, s)
  BY ZenonT(60), SameCell, EntriesStay DEF replicated
<1>2. Thin(x, s) /\ Calls(x, s)
  BY ZenonT(60) DEF Thin, Alike, Calls, OnePrepare
<1> QED
  BY ZenonT(60), <1>1, <1>2 DEF Idle

\* What the calls of a phase do to a cell.
LEMMA SendCell ==
  ASSUME TypeOK, NEW x \in Txn, NEW s \in Shard, NEW y \in Txn, NEW op \in Op, Send(op, y),
         UNCHANGED <<tables, replicated>>,
         pc'[y] # pc[y],
         op = "prepare" => pc[y] = "active" /\ pc'[y] = "preparing",
         op = "commit" => pc'[y] \in {"committing", "recommit"},
         op = "abort" => pc'[y] \in {"aborting", "reabort"}
  PROVE  CellStep(x, s)
<1>1. Same(x, s) /\ EntriesSame(x, s)
  BY ZenonT(60), SameCell, EntriesStay DEF replicated
<1>2. handlers' = handlers \cup {Request(op, y, t) : t \in parts[y]}
  BY ZenonT(60) DEF Send, Request
<1>3. \A t : Request(op, y, t).txn = y /\ Request(op, y, t).shard = t
  BY ZenonT(60) DEF Request
<1>4. \A o \in Op : rpc'[o][s][x] =
        IF o = op /\ x = y /\ s \in parts[y] THEN "asked" ELSE rpc[o][s][x]
  <2>1. rpc \in [Op -> [Shard -> [Txn -> {"none", "asked", "yes", "no"}]]]
    BY ZenonT(60) DEF TypeOK
  <2> QED
    BY ZenonT(60), <2>1 DEF Send
<1>5. CASE x = y /\ s \in parts[y]
  <2>1. \A g \in handlers' : g.txn = x /\ g.shard = s => g \in handlers \/ g = Request(op, x, s)
    BY ZenonT(60), <1>2, <1>3, <1>5
  <2>2. \A o \in Op : rpc'[o][s][x] = IF o = op THEN "asked" ELSE rpc[o][s][x]
    BY ZenonT(60), <1>4, <1>5
  <2>3. Sent(op, x, s)
    BY ZenonT(60), <1>1, <1>2, <1>5, <2>1, <2>2 DEF Sent
  <2> QED
    BY ZenonT(60), <2>3 DEF CellStep
<1>6. CASE ~(x = y /\ s \in parts[y])
  <2>1. \A g : g.txn = x /\ g.shard = s => (g \in handlers' <=> g \in handlers)
    BY ZenonT(60), <1>2, <1>3, <1>6
  <2>2. \A o \in Op : rpc'[o][s][x] = rpc[o][s][x]
    BY ZenonT(60), <1>4, <1>6
  <2>3. Thin(x, s) /\ Calls(x, s)
    BY ZenonT(60), <2>1, <2>2 DEF Thin, Alike, Calls, OnePrepare, Of
  <2> QED
    BY ZenonT(60), <1>1, <2>3 DEF Idle, CellStep
<1> QED
  BY ZenonT(60), <1>5, <1>6

\* What the statements of a transaction do to a cell.
LEMMA ExecuteCell ==
  ASSUME TypeOK, NEW x \in Txn, NEW s \in Shard, NEW y \in Txn, NEW t \in Shard,
         Execute(y, t) \/ ExecuteConflict(y, t)
  PROVE  CellStep(x, s)
<1>1. /\ UNCHANGED replicated /\ handlers' = handlers /\ rpc' = rpc /\ pc' = pc
      /\ pc[y] = "active"
  BY ZenonT(60) DEF Execute, ExecuteConflict, coordVars
<1>2. EntriesSame(x, s) /\ follower_results' = follower_results /\ committed' = committed
  BY ZenonT(60), <1>1, EntriesStay DEF replicated
<1>3. Thin(x, s) /\ Calls(x, s)
  BY ZenonT(60), <1>1 DEF Thin, Alike, Calls, OnePrepare
<1>4. CASE Execute(y, t)
  <2>1. /\ local' = Set(local, t, y, "active") /\ txn_id_map' = Set(txn_id_map, t, y, "local")
        /\ pending' = Set(pending, t, y, "begun") /\ UNCHANGED <<terminal, prepare_results>>
    BY ZenonT(60), <1>4 DEF Execute, EnsureShardParticipant, Begin
  <2>2. local'[s][x] = IF s = t /\ x = y THEN "active" ELSE local[s][x]
    BY ZenonT(60), <2>1 DEF Set, TypeOK
  <2>3. txn_id_map'[s][x] = IF s = t /\ x = y THEN "local" ELSE txn_id_map[s][x]
    BY ZenonT(60), <2>1 DEF Set, TypeOK
  <2>4. pending'[s][x] = IF s = t /\ x = y THEN "begun" ELSE pending[s][x]
    BY ZenonT(60), <2>1 DEF Set, TypeOK
  <2>5. CASE s = t /\ x = y
    BY ZenonT(60), <1>1, <1>2, <2>1, <2>2, <2>3, <2>4, <2>5 DEF CellStep, Begins
  <2>6. CASE ~(s = t /\ x = y)
    BY ZenonT(60), <1>1, <1>2, <1>3, <2>1, <2>2, <2>3, <2>4, <2>6 DEF CellStep, Idle, Same
  <2> QED
    BY ZenonT(60), <2>5, <2>6
<1>5. CASE ExecuteConflict(y, t)
  <2>1. /\ local' = Set(local, t, y, "none")
        /\ UNCHANGED <<pending, terminal, txn_id_map, prepare_results>>
    BY ZenonT(60), <1>5 DEF ExecuteConflict, WriteConflict
  <2>2. local'[s][x] = IF s = t /\ x = y THEN "none" ELSE local[s][x]
    BY ZenonT(60), <2>1 DEF Set, TypeOK
  <2>3. CASE s = t /\ x = y
    BY ZenonT(60), <1>1, <1>2, <2>1, <2>2, <2>3 DEF CellStep, Conflicts
  <2>4. CASE ~(s = t /\ x = y)
    BY ZenonT(60), <1>1, <1>2, <1>3, <2>1, <2>2, <2>4 DEF CellStep, Idle, Same
  <2> QED
    BY ZenonT(60), <2>3, <2>4
<1> QED
  BY ZenonT(60), <1>4, <1>5

\* A handler loses its caller.
LEMMA OrphanFacts ==
  ASSUME NEW h \in Handler
  PROVE  Alike([h EXCEPT !.live = FALSE], h)
BY ZenonT(60) DEF Alike, Handler

\* What a crash of the coordinator does to a cell.
LEMMA CrashCell ==
  ASSUME TypeOK, NEW x \in Txn, NEW s \in Shard, Crash
  PROVE  CellStep(x, s)
<1>1. Same(x, s) /\ EntriesSame(x, s)
  BY ZenonT(60), SameCell, EntriesStay DEF Crash, replicated
<1>2. \A op \in Op : rpc'[op][s][x] = "none"
  BY ZenonT(60) DEF Crash, ForAll
<1>3. PICK cut \in SUBSET {h \in handlers : h.at = "sent"} :
        handlers' = {[h EXCEPT !.live = FALSE] : h \in handlers \ cut}
  BY ZenonT(60) DEF Crash
<1>4. \A h \in handlers : h \in Handler /\ Alike([h EXCEPT !.live = FALSE], h)
  BY ZenonT(60), OrphanFacts, HandlerFacts
<1>5. \A g \in handlers' : \E h \in handlers : Alike(g, h) /\ g = [h EXCEPT !.live = FALSE]
  BY ZenonT(60), <1>3, <1>4
<1>6. \A h \in handlers : h.at # "sent" => \E g \in handlers' : Alike(g, h)
  BY ZenonT(60), <1>3, <1>4
<1>7. OnePrepare(x, s) => OnePrepare(x, s)'
  <2> SUFFICES ASSUME OnePrepare(x, s), NEW g \in handlers', NEW h \in handlers',
                      Of(g, "prepare", x, s), Of(h, "prepare", x, s)
               PROVE  g = h
    BY ZenonT(60) DEF OnePrepare
  <2>1. PICK i \in handlers : Alike(g, i) /\ g = [i EXCEPT !.live = FALSE]
    BY ZenonT(60), <1>5
  <2>2. PICK j \in handlers : Alike(h, j) /\ h = [j EXCEPT !.live = FALSE]
    BY ZenonT(60), <1>5
  <2>3. i = j
    BY ZenonT(60), <2>1, <2>2 DEF OnePrepare, Of, Alike
  <2> QED
    BY ZenonT(60), <2>1, <2>2, <2>3
<1> QED
  BY ZenonT(60), <1>1, <1>2, <1>5, <1>6, <1>7 DEF CellStep, Idle, Thin, Calls

\* What a missed deadline does to a cell.
LEMMA DeadlineCell ==
  ASSUME TypeOK, NEW x \in Txn, NEW s \in Shard, NEW h \in handlers, Deadline(h)
  PROVE  CellStep(x, s)
<1> DEFINE k == [h EXCEPT !.live = FALSE]
<1>0. h.op \in Op /\ h.txn \in Txn /\ h.shard \in Shard /\ h \in Handler
  BY ZenonT(60), HandlerFacts
<1>1. Same(x, s) /\ EntriesSame(x, s)
  BY ZenonT(60), SameCell, EntriesStay DEF Deadline, replicated
<1>2. ~FaultFree'
  BY ZenonT(60), SpendFault DEF Deadline, Bounded
<1>3. Alike(k, h)
  BY ZenonT(60), <1>0, OrphanFacts
<1>4. Calls(x, s)
  <2>1. rpc \in [Op -> [Shard -> [Txn -> {"none", "asked", "yes", "no"}]]]
    BY ZenonT(60) DEF TypeOK
  <2>2. ASSUME NEW op \in Op
        PROVE  rpc'[op][s][x] = IF op = h.op /\ s = h.shard /\ x = h.txn THEN "no" ELSE rpc[op][s][x]
    BY ZenonT(60), <1>0, <2>1 DEF Deadline
  <2> QED
    BY ZenonT(60), <1>2, <2>2 DEF Calls, HasHandler, Of
<1>5. /\ handlers' \subseteq (handlers \ {h}) \cup {k}
      /\ handlers \ {h} \subseteq handlers'
      /\ h.at # "sent" => k \in handlers'
  BY ZenonT(60) DEF Deadline
<1> HIDE DEF k
<1>6. Thin(x, s)
  <2>1. \A g \in handlers' : g.txn = x /\ g.shard = s => \E i \in handlers : Alike(g, i)
    BY ZenonT(60), <1>3, <1>5 DEF Alike
  <2>2. \A i \in handlers : i.txn = x /\ i.shard = s /\ i.at # "sent" =>
          \E g \in handlers' : Alike(g, i)
    BY ZenonT(60), <1>3, <1>5 DEF Alike
  <2>3. OnePrepare(x, s) => OnePrepare(x, s)'
    BY ZenonT(60), <1>3, <1>5 DEF OnePrepare, Of, Alike
  <2> QED
    BY ZenonT(60), <2>1, <2>2, <2>3 DEF Thin
<1> QED
  BY ZenonT(60), <1>1, <1>4, <1>6 DEF CellStep, Idle

\* What applying an entry does to a cell.
LEMMA ApplyCell ==
  ASSUME TypeOK, NEW x \in Txn, NEW s \in Shard, NEW t \in Shard, Apply(t)
  PROVE  CellStep(x, s)
<1> DEFINE e == slog[t][last_applied[t] + 1]
<1>1. /\ last_applied[t] < Len(slog[t]) /\ slog' = slog
      /\ last_applied' = [last_applied EXCEPT ![t] = @ + 1]
      /\ UNCHANGED <<pending, terminal, slog, handlers, rpc>>
  BY ZenonT(60) DEF Apply
<1>2. \/ e.op = "prepare" /\ ApplyPrepare(t, e.txn)
      \/ e.op = "commit" /\ ApplyCommit(t, e.txn) /\ ForgetMapping(t, e.txn)
      \/ e.op = "abort" /\ ApplyAbort(t, e.txn) /\ ForgetMapping(t, e.txn)
  BY ZenonT(60) DEF Apply
<1>3. /\ last_applied'[t] = last_applied[t] + 1
      /\ s # t => last_applied'[s] = last_applied[s]
  BY ZenonT(60), <1>1 DEF TypeOK
<1>4. e.op \in Op /\ e.txn \in Txn
  <2>1. last_applied[t] + 1 \in 1..Len(slog[t])
    BY <1>1, EntryFacts
  <2> QED
    BY ZenonT(60), <2>1, EntryFacts
<1>5. s # t \/ e.txn # x => EntriesSame(x, s)
  BY ZenonT(60), <1>1, <1>3, ApplyEntries, EntriesStay
<1>6. s = t /\ e.txn = x => Advances(e.op, x, s)
  BY ZenonT(60), <1>1, <1>3, ApplyEntries
<1>7. Thin(x, s) /\ Calls(x, s)
  BY ZenonT(60), <1>1 DEF Thin, Alike, Calls, OnePrepare
<1> DEFINE here == s = t /\ x = e.txn
<1>8. CASE e.op = "prepare"
  <2>1. ApplyPrepare(t, e.txn)
    BY ZenonT(60), <1>2, <1>8
  <2> HIDE DEF e
  <2>2. txn_id_map'[s][x] = IF here /\ txn_id_map[s][x] = "none" THEN "import" ELSE txn_id_map[s][x]
    BY ZenonT(60), <1>4, <2>1 DEF TypeOK, ApplyPrepare
  <2>3. prepare_results'[s][x] = IF here THEN TRUE ELSE prepare_results[s][x]
    BY ZenonT(60), <1>4, <2>1 DEF TypeOK, ApplyPrepare, Set
  <2>4. follower_results'[s][x] = IF here THEN TRUE ELSE follower_results[s][x]
    BY ZenonT(60), <1>4, <2>1 DEF TypeOK, ApplyPrepare, Set
  <2>5. local' = local /\ committed' = committed
    BY ZenonT(60), <2>1 DEF ApplyPrepare
  <2>6. CASE ~here
    BY ZenonT(60), <1>1, <1>5, <1>7, <2>2, <2>3, <2>4, <2>5, <2>6 DEF CellStep, Idle, Same
  <2>7. CASE here
    <3>1. Applies("prepare", x, s)
      BY ZenonT(60), <1>1, <1>6, <1>8, <2>2, <2>3, <2>4, <2>5, <2>7 DEF Applies
    <3> QED
      BY ZenonT(60), <3>1 DEF CellStep, Op
  <2> QED
    BY ZenonT(60), <2>6, <2>7
<1>9. CASE e.op \in {"commit", "abort"}
  <2>1. /\ ForgetMapping(t, e.txn)
        /\ e.op = "commit" => ApplyCommit(t, e.txn)
        /\ e.op = "abort" => ApplyAbort(t, e.txn)
    BY ZenonT(60), <1>2, <1>9
  <2> HIDE DEF e
  <2>2. txn_id_map'[s][x] = IF here THEN "none" ELSE txn_id_map[s][x]
    BY ZenonT(60), <1>4, <2>1 DEF TypeOK, ForgetMapping, Set
  <2>3. follower_results'[s][x] = IF here THEN FALSE ELSE follower_results[s][x]
    BY ZenonT(60), <1>4, <2>1 DEF TypeOK, ForgetMapping, Set
  <2>4. prepare_results'[s][x] =
          IF here /\ txn_id_map[s][x] # "none" THEN FALSE ELSE prepare_results[s][x]
    BY ZenonT(60), <1>4, <2>1 DEF TypeOK, ForgetMapping
  <2>5. ASSUME e.op = "commit"
        PROVE  /\ x \in committed'[s] <=> x \in committed[s] \/ (here /\ Prepared(s, x))
               /\ local'[s][x] \in {local[s][x], IF here THEN "none" ELSE local[s][x]}
    <3>1. ApplyCommit(t, e.txn)
      BY ZenonT(60), <2>1, <2>5
    <3>2. local'[s][x] \in {local[s][x], IF here THEN "none" ELSE local[s][x]}
      BY ZenonT(60), <1>4, <3>1 DEF TypeOK, ApplyCommit
    <3>3. committed'[s] = IF s = t /\ Prepared(t, e.txn) THEN committed[s] \cup {e.txn} ELSE committed[s]
      BY ZenonT(60), <1>4, <3>1 DEF TypeOK, ApplyCommit
    <3> QED
      BY ZenonT(60), <3>2, <3>3
  <2>6. ASSUME e.op = "abort"
        PROVE  /\ x \in committed'[s] <=> x \in committed[s]
               /\ local'[s][x] = IF here /\ txn_id_map[s][x] = "local" THEN "none" ELSE local[s][x]
    <3>1. ApplyAbort(t, e.txn)
      BY ZenonT(60), <2>1, <2>6
    <3> QED
      BY ZenonT(60), <1>4, <3>1 DEF TypeOK, ApplyAbort
  <2>7. CASE ~here
    BY ZenonT(60), <1>1, <1>5, <1>7, <1>9, <2>2, <2>3, <2>4, <2>5, <2>6, <2>7 DEF CellStep, Idle, Same
  <2>8. CASE here
    <3>1. e.op = "commit" => Applies("commit", x, s)
      BY ZenonT(60), <1>1, <1>6, <2>2, <2>3, <2>4, <2>5, <2>8 DEF Applies
    <3>2. e.op = "abort" => Applies("abort", x, s)
      BY ZenonT(60), <1>1, <1>6, <2>2, <2>3, <2>4, <2>6, <2>8 DEF Applies
    <3> QED
      BY ZenonT(60), <1>9, <3>1, <3>2 DEF CellStep, Op
  <2> QED
    BY ZenonT(60), <2>7, <2>8
<1> QED
  BY ZenonT(60), <1>2, <1>8, <1>9

\* What a restart of a shard does to a cell.
LEMMA RestartCell ==
  ASSUME TypeOK, NEW x \in Txn, NEW s \in Shard, NEW t \in Shard, ShardRestart(t)
  PROVE  CellStep(x, s)
<1> DEFINE dead == {h \in handlers : h.shard = t}
<1>1. /\ slog' = slog /\ committed' = committed /\ handlers' = handlers \ dead
      /\ last_applied' = [last_applied EXCEPT ![t] = 0]
  BY ZenonT(60) DEF ShardRestart
<1>2. \A op \in Op : rpc'[op][s][x] =
        IF \E h \in dead : h.live /\ h.op = op /\ h.shard = s /\ h.txn = x
        THEN "no" ELSE rpc[op][s][x]
  BY ZenonT(60) DEF ShardRestart
<1>3. /\ pending'[s][x] = IF s = t THEN "none" ELSE pending[s][x]
      /\ terminal'[s][x] = IF s = t THEN "none" ELSE terminal[s][x]
      /\ local'[s][x] = IF s = t THEN "none" ELSE local[s][x]
  BY ZenonT(60) DEF ShardRestart, TypeOK
<1>4. /\ txn_id_map'[s][x] = IF s = t THEN "none" ELSE txn_id_map[s][x]
      /\ prepare_results'[s][x] = IF s = t THEN FALSE ELSE prepare_results[s][x]
      /\ follower_results'[s][x] = IF s = t THEN FALSE ELSE follower_results[s][x]
  BY ZenonT(60) DEF ShardRestart, TypeOK
<1>5. last_applied'[s] = IF s = t THEN 0 ELSE last_applied[s]
  BY ZenonT(60), <1>1 DEF TypeOK
<1>6. CASE s # t
  <2>1. EntriesSame(x, s)
    BY ZenonT(60), <1>1, <1>5, <1>6, EntriesStay
  <2>2. \A g : g.shard = s => (g \in handlers' <=> g \in handlers)
    BY ZenonT(60), <1>1, <1>6
  <2>3. \A op \in Op : rpc'[op][s][x] = rpc[op][s][x]
    BY ZenonT(60), <1>2, <1>6
  <2>4. Thin(x, s) /\ Calls(x, s)
    BY ZenonT(60), <2>2, <2>3 DEF Thin, Alike, Calls, OnePrepare, Of
  <2> QED
    BY ZenonT(60), <1>1, <1>3, <1>4, <1>6, <2>1, <2>4 DEF CellStep, Idle, Same
<1>7. CASE s = t
  <2>1. ~FaultFree'
    BY ZenonT(60), SpendFault DEF ShardRestart, Bounded
  <2>2. Grows(s)
    <3>1. Len(slog[s]) \in Nat
      BY ZenonT(60), EntryFacts
    <3> QED
      BY <1>1, <3>1 DEF Grows
  <2>3. 1..last_applied'[s] = {}
    BY <1>5, <1>7
  <2>4. \A op \in Op : (HasEntry(op, x, s)' <=> HasEntry(op, x, s)) /\ ~HasApplied(op, x, s)'
    BY ZenonT(60), <1>1, <2>3 DEF HasEntry, HasApplied
  <2>5. Ordered(x, s) => Ordered(x, s)'
    BY ZenonT(60), <1>1 DEF Ordered
  <2>6. \A op \in Op : rpc'[op][s][x] = rpc[op][s][x] \/ (rpc'[op][s][x] = "no" /\ HasHandler(op, x, s))
    BY ZenonT(60), <1>2 DEF HasHandler, Of
  <2> QED
    BY ZenonT(60), <1>1, <1>3, <1>4, <1>7, <2>1, <2>2, <2>4, <2>5, <2>6 DEF CellStep, Restarted
<1> QED
  BY ZenonT(60), <1>6, <1>7

\* Every step is one of these to every transaction at every shard.
LEMMA CellNext ==
  ASSUME TypeOK, [Next]_vars, NEW x \in Txn, NEW s \in Shard
  PROVE  CellStep(x, s)
<1> DEFINE unmoved == UNCHANGED <<tables, replicated, handlers, rpc>>
<1>0. unmoved => CellStep(x, s)
  BY ZenonT(60), IdleCell DEF CellStep
<1>1. CASE UNCHANGED vars
  BY ZenonT(60), <1>0, <1>1 DEF vars, shardVars
<1>2. CASE ClientStep
  <2> SUFFICES ASSUME NEW y \in Txn,
                      \/ BeginTxn(y) \/ Commit(y) \/ Abort(y)
                      \/ VotedCommit(y) \/ VotedAbort(y)
                      \/ CommitDone(y) \/ CommitFailed(y)
                      \/ AbortDone(y) \/ AbortReturn(y)
                      \/ \E t \in Shard : Execute(y, t) \/ ExecuteConflict(y, t)
               PROVE  CellStep(x, s)
    BY ZenonT(60), <1>2 DEF ClientStep
  <2>0. \A where : Become(y, where) => pc'[y] = where
    BY ZenonT(60) DEF Become, TypeOK
  <2>1. CASE BeginTxn(y) \/ CommitDone(y) \/ CommitFailed(y) \/ AbortDone(y) \/ AbortReturn(y)
    BY ZenonT(60), <1>0, <2>1 DEF BeginTxn, CommitDone, CommitFailed, AbortDone, AbortReturn, shardVars
  <2>2. CASE Commit(y)
    BY ZenonT(60), <1>0, <2>0, <2>2, SendCell DEF Commit, Op
  <2>3. CASE Abort(y)
    BY ZenonT(60), <1>0, <2>0, <2>3, SendCell DEF Abort, Op
  <2>4. CASE VotedCommit(y)
    BY ZenonT(60), <2>0, <2>4, SendCell DEF VotedCommit, Op
  <2>5. CASE VotedAbort(y)
    BY ZenonT(60), <1>0, <2>0, <2>5, SendCell DEF VotedAbort, Op
  <2>6. CASE \E t \in Shard : Execute(y, t) \/ ExecuteConflict(y, t)
    BY ZenonT(60), <2>6, ExecuteCell
  <2> QED
    BY ZenonT(60), <2>1, <2>2, <2>3, <2>4, <2>5, <2>6
<1>3. CASE RecoverStep
  <2>0. ASSUME NEW y \in Txn, NEW op \in {"commit", "abort"}, Drive(op, y), UNCHANGED <<tables, replicated>>,
               pc[y] \notin {"recommit", "reabort"}
        PROVE  CellStep(x, s)
    <3>1. pc'[y] = IF op = "commit" THEN "recommit" ELSE "reabort"
      BY ZenonT(60), <2>0 DEF Drive, Become, TypeOK
    <3> QED
      BY ZenonT(60), <2>0, <3>1, SendCell DEF Drive, Op
  <2>1. CASE Reopen \/ RecoverDone
    BY ZenonT(60), <1>0, <2>1 DEF Reopen, RecoverDone, shardVars
  <2>2. ASSUME NEW y \in Txn, RecoverTxn(y) PROVE CellStep(x, s)
    BY ZenonT(60), <1>0, <2>0, <2>2 DEF RecoverTxn
  <2>3. ASSUME NEW y \in Txn, RecoverDecide(y) PROVE CellStep(x, s)
    BY ZenonT(60), <2>0, <2>3 DEF RecoverDecide, Decision
  <2>4. ASSUME NEW y \in Txn, RecoverTxnDone(y) \/ RecoverFails(y) PROVE CellStep(x, s)
    BY ZenonT(60), <1>0, <2>4 DEF RecoverTxnDone, RecoverFails, shardVars
  <2>5. ASSUME NEW y \in Txn, NEW t \in Shard, Query(y, t) PROVE CellStep(x, s)
    BY ZenonT(60), <1>0, <2>5 DEF Query
  <2> QED
    BY ZenonT(60), <1>3, <2>1, <2>2, <2>3, <2>4, <2>5 DEF RecoverStep
<1>4. CASE Crash
  BY ZenonT(60), <1>4, CrashCell
<1>5. CASE \E h \in handlers : Deadline(h)
  BY ZenonT(60), <1>5, DeadlineCell
<1>6. CASE ShardStep
  <2>1. ASSUME NEW h \in handlers, HandlerStep(h) PROVE CellStep(x, s)
    BY ZenonT(60), <2>1, HandlerCell DEF CellStep
  <2> QED
    BY ZenonT(60), <1>6, <2>1, ApplyCell, RestartCell DEF ShardStep
<1> QED
  BY ZenonT(60), <1>1, <1>2, <1>3, <1>4, <1>5, <1>6 DEF Next

-----------------------------------------------------------------------------
(* What a step does to the coordinator's view of one transaction *)

\* The coordinator log has the records of x that it had, or one more; a crash may
\* take some that were not flushed.
LogStays(x) ==
  /\ \A t \in RecordType : Logged(t, x)' <=> Logged(t, x)
  /\ \A t \in RecordType : Flushed(t, x) => Flushed(t, x)'
  /\ AbortedLast(x) => AbortedLast(x)'

LogAdds(new, x) ==
  /\ \A t \in RecordType : Logged(t, x)' <=> Logged(t, x) \/ t = new
  /\ \A t \in RecordType : Flushed(t, x) => Flushed(t, x)'
  /\ AbortedLast(x) /\ (new = "ABORTED" => Logged("ABORTING", x)) => AbortedLast(x)'

LogCut(x) ==
  /\ \A t \in RecordType : Logged(t, x)' => Logged(t, x)
  /\ \A t \in RecordType : Flushed(t, x) => Flushed(t, x)'
  /\ AbortedLast(x) => AbortedLast(x)'

\* The coordinator log and its flushed part.
LEMMA LogFacts ==
  ASSUME TypeOK
  PROVE  /\ clog \in Seq([type : RecordType, txn : Txn]) /\ Len(clog) \in Nat
         /\ synced \in Nat /\ synced <= Len(clog)
         /\ \A i \in 1..synced : i \in 1..Len(clog)
<1> DEFINE E == [type : RecordType, txn : Txn]
<1>1. clog \in Seq(E) /\ synced \in 0..Len(clog)
  BY ZenonT(60) DEF TypeOK
<1> HIDE DEF E
<1>2. Len(clog) \in Nat
  BY <1>1
<1>3. synced \in Nat /\ synced <= Len(clog) /\ \A i \in 1..synced : i \in 1..Len(clog)
  BY <1>1, <1>2
<1> QED
  BY ZenonT(60), <1>1, <1>2, <1>3 DEF E

\* A flushed record is a record.
LEMMA FlushedLogged ==
  ASSUME TypeOK, NEW t, NEW x, Flushed(t, x)
  PROVE  Logged(t, x)
BY ZenonT(60), LogFacts DEF Flushed, Logged

\* A step that does not write.
LEMMA LogUnmoved ==
  ASSUME NEW x \in Txn, clog' = clog, synced' = synced
  PROVE  LogStays(x)
BY ZenonT(60) DEF LogStays, Logged, Flushed, AbortedLast

\* A step that writes one record.
LEMMA LogWritten ==
  ASSUME TypeOK, NEW x \in Txn, NEW y \in Txn, NEW new \in RecordType,
         clog' = Append(clog, Record(new, y)), synced' \in {synced, Len(clog')}
  PROVE  /\ y # x => LogStays(x)
         /\ y = x => LogAdds(new, x)
         /\ y = x /\ synced' = Len(clog') => Flushed(new, x)'
<1> DEFINE E == [type : RecordType, txn : Txn]
           n == Len(clog)
           r == Record(new, y)
<1>1. clog \in Seq(E) /\ n \in Nat /\ synced \in Nat /\ synced <= n
  BY ZenonT(60), LogFacts
<1>2. r \in E
  BY ZenonT(60) DEF Record
<1>3. \A t \in RecordType : Record(t, x) = r <=> t = new /\ x = y
  BY ZenonT(60) DEF Record
<1> HIDE DEF E, r
<1>4. Len(clog') = n + 1 /\ clog'[n + 1] = r /\ \A i \in 1..n : clog'[i] = clog[i]
  BY <1>1, <1>2 DEF r
<1> HIDE DEF n
<1>5. 1..(n + 1) = (1..n) \cup {n + 1} /\ n + 1 \in 1..(n + 1)
  BY <1>1
<1>6. \A i \in 1..synced : i \in 1..n /\ i \in 1..synced'
  BY <1>1, <1>4 DEF n
<1>7. \A t \in RecordType : Logged(t, x)' <=> Logged(t, x) \/ Record(t, x) = r
  BY ZenonT(60), <1>4, <1>5 DEF Logged, n
<1>8. \A t \in RecordType : Flushed(t, x) => Flushed(t, x)'
  BY ZenonT(60), <1>4, <1>6 DEF Flushed
<1>9. ASSUME AbortedLast(x), new = "ABORTED" /\ x = y => Logged("ABORTING", x)
      PROVE  AbortedLast(x)'
  <2> SUFFICES ASSUME NEW j \in 1..(n + 1), clog'[j] = Record("ABORTED", x)
               PROVE  \E i \in 1..(j - 1) : clog'[i] = Record("ABORTING", x)
    BY ZenonT(60), <1>4 DEF AbortedLast
  <2>1. CASE j \in 1..n
    <3>1. PICK i \in 1..(j - 1) : clog[i] = Record("ABORTING", x)
      BY ZenonT(60), <1>4, <1>9, <2>1 DEF AbortedLast, n
    <3>2. i \in 1..n
      BY <1>1, <2>1
    <3> QED
      BY ZenonT(60), <1>4, <3>1, <3>2
  <2>2. CASE j = n + 1
    <3>1. new = "ABORTED" /\ x = y
      BY ZenonT(60), <1>3, <1>4, <2>2 DEF RecordType
    <3>2. PICK i \in 1..n : clog[i] = Record("ABORTING", x)
      BY ZenonT(60), <1>9, <3>1 DEF Logged, n
    <3>3. j - 1 = n
      BY <1>1, <2>2
    <3> QED
      BY ZenonT(60), <1>4, <3>2, <3>3
  <2> QED
    BY ZenonT(60), <1>5, <2>1, <2>2
<1>10. y = x /\ synced' = Len(clog') => Flushed(new, x)'
  BY ZenonT(60), <1>4, <1>5 DEF Flushed, r
<1> QED
  BY ZenonT(60), <1>3, <1>7, <1>8, <1>9, <1>10 DEF LogStays, LogAdds

\* A crash keeps what was flushed and some of the rest.
LEMMA LogCrashed ==
  ASSUME TypeOK, NEW x \in Txn, NEW n \in synced..Len(clog),
         clog' = SubSeq(clog, 1, n), synced' = n
  PROVE  LogCut(x)
<1> DEFINE E == [type : RecordType, txn : Txn]
<1>1. clog \in Seq(E) /\ Len(clog) \in Nat /\ synced \in Nat /\ synced <= Len(clog)
  BY ZenonT(60), LogFacts
<1> HIDE DEF E
<1>2. n \in Nat /\ n <= Len(clog) /\ synced <= n
  BY <1>1
<1>3. Len(clog') = n /\ \A i \in 1..n : clog'[i] = clog[i] /\ i \in 1..Len(clog)
  BY <1>1, <1>2
<1>4. \A i \in 1..synced : i \in 1..n
  BY <1>1, <1>2
<1>5. \A t \in RecordType : Logged(t, x)' => Logged(t, x)
  BY ZenonT(60), <1>3 DEF Logged
<1>6. \A t \in RecordType : Flushed(t, x) => Flushed(t, x)'
  BY ZenonT(60), <1>3, <1>4 DEF Flushed
<1>7. ASSUME AbortedLast(x) PROVE AbortedLast(x)'
  <2> SUFFICES ASSUME NEW j \in 1..n, clog'[j] = Record("ABORTED", x)
               PROVE  \E i \in 1..(j - 1) : clog'[i] = Record("ABORTING", x)
    BY ZenonT(60), <1>3 DEF AbortedLast
  <2>1. PICK i \in 1..(j - 1) : clog[i] = Record("ABORTING", x)
    BY ZenonT(60), <1>3, <1>7 DEF AbortedLast
  <2>2. i \in 1..n
    BY <1>2
  <2> QED
    BY ZenonT(60), <1>3, <2>1, <2>2
<1> QED
  BY ZenonT(60), <1>5, <1>6, <1>7 DEF LogCut

\* Faults are counted and never forgotten.
LEMMA SpentNext ==
  ASSUME TypeOK, [Next]_vars
  PROVE  (FaultFree' => FaultFree) /\ (spent'["crash"] = 0 => spent["crash"] = 0)
         /\ (Crash => spent'["crash"] # 0)
<1>1. ASSUME NEW b \in Bounded, Spend(b)
      PROVE  spent'[b] # 0 /\ \A c \in Bounded : c # b => spent'[c] = spent[c]
  <2>1. spent \in [Bounded -> Nat]
    BY ZenonT(60) DEF TypeOK
  <2>2. spent'[b] = spent[b] + 1 /\ \A c \in Bounded : c # b => spent'[c] = spent[c]
    BY ZenonT(60), <1>1, <2>1 DEF Spend
  <2>3. spent[b] \in Nat
    BY ZenonT(60), <2>1
  <2> QED
    BY <2>2, <2>3
<1>2. "fault" \in Bounded /\ "query" \in Bounded /\ "restart" \in Bounded /\ "crash" \in Bounded
  BY ZenonT(60) DEF Bounded
<1>3. CASE spent' = spent
  <2>1. ~Crash
    <3>1. ASSUME Crash PROVE FALSE
      <4>1. spent["crash"] \in Nat /\ spent'["crash"] = spent["crash"] + 1
        BY ZenonT(60), <3>1, <1>2 DEF Crash, Spend, TypeOK
      <4> QED
        BY <1>3, <4>1
    <3> QED
      BY ZenonT(60), <3>1
  <2> QED
    BY ZenonT(60), <1>3, <2>1 DEF FaultFree
<1>4. CASE \E b \in Bounded : Spend(b)
  BY ZenonT(60), <1>1, <1>2, <1>4 DEF FaultFree, Crash
<1>5. spent' = spent \/ \E b \in Bounded : Spend(b)
  <2>1. CASE UNCHANGED vars
    BY ZenonT(60), <2>1 DEF vars, shardVars
  <2>2. CASE ClientStep
    <3>1. ASSUME NEW y \in Txn, NEW t \in Shard, Execute(y, t) PROVE spent' = spent \/ Spend("fault")
      BY ZenonT(60), <3>1 DEF Execute, EnsureShardParticipant, AttemptsFail
    <3> QED
      BY ZenonT(60), <1>2, <2>2, <3>1 DEF ClientStep, BeginTxn, Commit, Abort, VotedCommit, VotedAbort, CommitDone,
         CommitFailed, AbortDone, AbortReturn, ExecuteConflict, shardVars
  <2>3. CASE RecoverStep
    BY ZenonT(60), <1>2, <2>3 DEF RecoverStep, Reopen, RecoverDone, RecoverTxn, RecoverDecide,
       RecoverTxnDone, RecoverFails, Query, QueryFails, shardVars
  <2>4. CASE Crash \/ \E h \in handlers : Deadline(h)
    BY ZenonT(60), <1>2, <2>4 DEF Crash, Deadline
  <2>5. CASE ShardStep
    <3>1. ASSUME NEW h \in handlers, HandlerStep(h) PROVE spent' = spent \/ Spend("fault")
      BY ZenonT(60), <3>1 DEF HandlerStep, PrepareLocal, PreparePropose, PrepareNotReplicated,
         PrepareTake, PrepareVote, CommitPropose, AbortStart, AbortLocal, DecisionApplied,
         DecisionNotReplicated, NoLeader
    <3> QED
      BY ZenonT(60), <1>2, <2>5, <3>1 DEF ShardStep, Apply, ShardRestart
  <2> QED
    BY ZenonT(60), <2>1, <2>2, <2>3, <2>4, <2>5 DEF Next
<1> QED
  BY ZenonT(60), <1>3, <1>4, <1>5

\* Nothing, or a step of the transaction's thread from one place to the next.
Kept(x) == seen'[x] = seen[x] /\ parts'[x] = parts[x]
Untold(x) == outcome'[x] = outcome[x]
Goes(x, from, to) == pc[x] = from /\ pc'[x] = to /\ Kept(x)
All(op, x) == \A s \in parts[x] : rpc[op][s][x] = "yes"

Rests(x) == pc'[x] = pc[x] /\ Kept(x) /\ Untold(x) /\ LogStays(x)
Starts(x) == up = "up" /\ Goes(x, "new", "active") /\ Untold(x) /\ LogStays(x)
Joins(x) ==
  /\ pc[x] = "active" /\ pc'[x] = "active"
  /\ parts[x] \subseteq parts'[x] /\ seen'[x] = seen[x] /\ Untold(x) /\ LogStays(x)
Leaves(x) ==
  /\ Goes(x, "active", "done") /\ parts[x] = {}
  /\ outcome'[x] \in {"ok", "conflict"} /\ LogStays(x)
Asks(x) == Goes(x, "active", "preparing") /\ Untold(x) /\ LogAdds("PREPARING", x)
Resolves(x) ==
  /\ Goes(x, "preparing", "committing") /\ All("prepare", x)
  /\ Untold(x) /\ LogAdds("COMMITTING", x)
Rejects(x) ==
  /\ Goes(x, "preparing", "aborting")
  /\ \E s \in parts[x] : rpc["prepare"][s][x] = "no"
  /\ Untold(x) /\ LogAdds("ABORTING", x)
Errs(x) ==
  /\ Goes(x, "preparing", "done") \/ Goes(x, "committing", "done")
  /\ outcome'[x] = "error" /\ LogStays(x)
Quits(x) ==
  /\ Goes(x, "active", "aborting") /\ Untold(x)
  /\ LogAdds("ABORTING", x) /\ Flushed("ABORTING", x)'
Succeeds(x) ==
  /\ Goes(x, "committing", "done") /\ All("commit", x)
  /\ outcome'[x] = "ok" /\ LogAdds("COMMITTED", x)
Undoes(x) ==
  /\ Goes(x, "aborting", "aborted") /\ Untold(x)
  /\ LogAdds("ABORTED", x) /\ Flushed("ABORTED", x)'
Tells(x) == Goes(x, "aborted", "done") /\ outcome'[x] = "conflict" /\ LogStays(x)

\* The crash, and what Recover does.
Dies(x) ==
  /\ pc'[x] = IF pc[x] \in {"new", "done"} THEN pc[x] ELSE "lost"
  /\ (\A s \in Shard : seen'[x][s] = "none") /\ parts'[x] = parts[x]
  /\ Untold(x) /\ LogCut(x)
  /\ up' = "down" /\ spent'["crash"] # 0
Redrives(op, x) ==
  /\ pc'[x] = IF op = "commit" THEN "recommit" ELSE "reabort"
  /\ Kept(x) /\ Untold(x)
  /\ op = "commit" => LogAdds("COMMITTING", x)
  /\ op = "abort" => LogAdds("ABORTING", x) /\ Flushed("ABORTING", x)'
Resumes(x) ==
  /\ up = "recovering" /\ InDoubt(x)
  /\ \A y \in Txn : pc[y] \notin RecoverSide /\ (y # x => pc'[y] = pc[y])
  /\ \/ Logged("COMMITTING", x) /\ Redrives("commit", x)
     \/ ~Logged("COMMITTING", x) /\ Logged("ABORTING", x) /\ Redrives("abort", x)
     \/ /\ ~Logged("COMMITTING", x) /\ ~Logged("ABORTING", x)
        /\ pc'[x] = "query" /\ Kept(x) /\ Untold(x) /\ LogStays(x)
Inquires(x) ==
  /\ pc[x] = "query" /\ pc'[x] = "query"
  /\ parts'[x] = parts[x] /\ Untold(x) /\ LogStays(x)
  /\ \A s \in Shard :
       \/ seen'[x][s] = seen[x][s]
       \/ seen'[x][s] \in TxnState(s, x)
       \/ seen'[x][s] = "unknown" /\ ~FaultFree'
Concludes(op, x) ==
  /\ pc[x] = "query" /\ (\A s \in parts[x] : seen[x][s] # "none")
  /\ op = Decision({seen[x][s] : s \in parts[x]})
  /\ Redrives(op, x)
Settles(x) ==
  /\ \/ Goes(x, "recommit", "done") /\ All("commit", x) /\ LogAdds("COMMITTED", x)
     \/ Goes(x, "reabort", "done") /\ LogAdds("ABORTED", x)
  /\ Untold(x)
Throws(x) == Goes(x, "recommit", "lost") /\ Untold(x) /\ LogStays(x)

Moves(x) ==
  \/ Rests(x) \/ Starts(x) \/ Joins(x) \/ Leaves(x) \/ Asks(x) \/ Resolves(x) \/ Rejects(x)
  \/ Errs(x) \/ Quits(x) \/ Succeeds(x) \/ Undoes(x) \/ Tells(x)
  \/ Dies(x) \/ Resumes(x) \/ Inquires(x) \/ Settles(x) \/ Throws(x)
  \/ \E op \in {"commit", "abort"} : Concludes(op, x)

\* The values of changed functions at a point.
LEMMA PointFacts ==
  ASSUME TypeOK, NEW x \in Txn, NEW y \in Txn, NEW v
  PROVE  /\ Become(y, v) => pc'[x] = IF x = y THEN v ELSE pc[x]
         /\ Return(y, v) => outcome'[x] = IF x = y THEN v ELSE outcome[x]
<1>1. Become(y, v) => pc'[x] = IF x = y THEN v ELSE pc[x]
  BY ZenonT(60) DEF Become, TypeOK
<1>2. Return(y, v) => outcome'[x] = IF x = y THEN v ELSE outcome[x]
  BY ZenonT(60) DEF Return, TypeOK
<1> QED
  BY ZenonT(60), <1>1, <1>2

\* The thread of another transaction.
LEMMA OtherMoves ==
  ASSUME TypeOK, NEW x \in Txn, NEW y \in Txn, x # y,
         pc' = pc \/ (\E v : Become(y, v)), outcome' = outcome \/ (\E v : Return(y, v)),
         parts'[x] = parts[x], seen'[x] = seen[x],
         \/ UNCHANGED <<clog, synced>>
         \/ \E t \in RecordType : Write(t, y) \/ WriteAndFlush(t, y)
  PROVE  Rests(x)
<1>1. pc'[x] = pc[x]
  BY ZenonT(60), PointFacts
<1>2. outcome'[x] = outcome[x]
  BY ZenonT(60), PointFacts
<1>3. LogStays(x)
  BY ZenonT(60), LogWritten, LogUnmoved DEF Write, WriteAndFlush, Flush
<1> QED
  BY ZenonT(60), <1>1, <1>2, <1>3 DEF Rests, Kept, Untold

\* A step of the shards leaves the coordinator at rest.
LEMMA RestMove ==
  ASSUME NEW x \in Txn, UNCHANGED <<pc, parts, clog, synced, seen, outcome>>
  PROVE  Rests(x)
BY ZenonT(60), LogUnmoved DEF Rests, Kept, Untold

\* The steps of the client's thread are moves.
LEMMA ClientMove ==
  ASSUME TypeOK, NEW x \in Txn, ClientStep
  PROVE  Moves(x)
<1> SUFFICES ASSUME NEW y \in Txn,
                    \/ BeginTxn(y) \/ Commit(y) \/ Abort(y)
                    \/ VotedCommit(y) \/ VotedAbort(y)
                    \/ CommitDone(y) \/ CommitFailed(y)
                    \/ AbortDone(y) \/ AbortReturn(y)
                    \/ \E t \in Shard : Execute(y, t) \/ ExecuteConflict(y, t)
             PROVE  Moves(x)
  BY ZenonT(60) DEF ClientStep
<1> DEFINE D == UNCHANGED <<clog, synced>> \/ \E t \in RecordType : Write(t, y) \/ WriteAndFlush(t, y)
<1>0. ASSUME x # y PROVE Moves(x)
  <2>1. CASE \E t \in Shard : Execute(y, t)
    <3>1. PICK t \in Shard : Execute(y, t)
      BY ZenonT(60), <2>1
    <3>2. parts'[x] = parts[x]
      BY ZenonT(60), <1>0, <3>1 DEF Execute, EnsureShardParticipant, TypeOK
    <3>3. UNCHANGED <<pc, clog, synced, seen, outcome>>
      BY ZenonT(60), <3>1 DEF Execute
    <3> QED
      BY ZenonT(60), <3>2, <3>3, LogUnmoved DEF Moves, Rests, Kept, Untold
  <2>2. CASE \E t \in Shard : ExecuteConflict(y, t)
    BY ZenonT(60), <2>2, RestMove DEF ExecuteConflict, coordVars, Moves
  <2>3. CASE BeginTxn(y) \/ CommitFailed(y) \/ AbortReturn(y)
    BY ZenonT(60), <1>0, <2>3, OtherMoves DEF BeginTxn, CommitFailed, AbortReturn, Moves
  <2>4. CASE VotedCommit(y) \/ CommitDone(y) \/ AbortDone(y)
    BY ZenonT(60), <1>0, <2>4, OtherMoves DEF VotedCommit, CommitDone, AbortDone, Moves, RecordType
  <2>5. CASE Commit(y)
    BY ZenonT(60), <1>0, <2>5, OtherMoves DEF Commit, Moves, RecordType
  <2>6. CASE Abort(y)
    BY ZenonT(60), <1>0, <2>6, OtherMoves DEF Abort, Moves, RecordType
  <2>7. CASE VotedAbort(y)
    BY ZenonT(60), <1>0, <2>7, OtherMoves DEF VotedAbort, Moves, RecordType
  <2> QED
    BY ZenonT(60), <2>1, <2>2, <2>3, <2>4, <2>5, <2>6, <2>7
<1> USE DEF Kept, Goes, Untold
<1>1. CASE x = y
  <2>0. \A v : Become(x, v) => pc'[x] = v
    BY ZenonT(60), PointFacts
  <2>00. \A v : Return(x, v) => outcome'[x] = v
    BY ZenonT(60), PointFacts
  <2>01. \A t \in RecordType : Write(t, x) \/ WriteAndFlush(t, x) => LogAdds(t, x)
    BY ZenonT(60), LogWritten DEF Write, WriteAndFlush, Flush
  <2>02. \A t \in RecordType : WriteAndFlush(t, x) => Flushed(t, x)'
    BY ZenonT(60), LogWritten DEF WriteAndFlush, Flush
  <2>03. clog' = clog /\ synced' = synced => LogStays(x)
    BY ZenonT(60), LogUnmoved
  <2>04. \A op : (Answers(op, x) = {"yes"} => All(op, x))
                 /\ ("no" \in Answers(op, x) => \E s \in parts[x] : rpc[op][s][x] = "no")
    BY ZenonT(60) DEF Answers, All
  <2>1. CASE \E t \in Shard : Execute(y, t)
    <3>1. PICK t \in Shard : Execute(y, t)
      BY ZenonT(60), <2>1
    <3>2. parts[x] \subseteq parts'[x]
      BY <1>1, <3>1 DEF Execute, EnsureShardParticipant, TypeOK
    <3>3. UNCHANGED <<pc, clog, synced, seen, outcome>> /\ pc[x] = "active"
      BY ZenonT(60), <1>1, <3>1 DEF Execute
    <3> QED
      BY ZenonT(60), <2>03, <3>2, <3>3 DEF Moves, Joins
  <2>2. CASE \E t \in Shard : ExecuteConflict(y, t)
    BY ZenonT(60), <2>2, RestMove DEF ExecuteConflict, coordVars, Moves
  <2>3. CASE BeginTxn(y)
    BY ZenonT(60), <1>1, <2>3, <2>0, <2>03 DEF BeginTxn, Moves, Starts
  <2>4. CASE CommitFailed(y)
    BY ZenonT(60), <1>1, <2>4, <2>0, <2>00, <2>03 DEF CommitFailed, Moves, Errs
  <2>5. CASE AbortReturn(y)
    BY ZenonT(60), <1>1, <2>5, <2>0, <2>00, <2>03 DEF AbortReturn, Moves, Tells
  <2>6. CASE VotedCommit(y)
    BY ZenonT(60), <1>1, <2>6, <2>0, <2>01, <2>04 DEF VotedCommit, Moves, Resolves, RecordType
  <2>7. CASE CommitDone(y)
    BY ZenonT(60), <1>1, <2>7, <2>0, <2>00, <2>01, <2>04 DEF CommitDone, Moves, Succeeds, RecordType
  <2>8. CASE AbortDone(y)
    BY ZenonT(60), <1>1, <2>8, <2>0, <2>01, <2>02 DEF AbortDone, Moves, Undoes, RecordType
  <2>9. CASE Commit(y)
    BY ZenonT(60), <1>1, <2>9, <2>0, <2>00, <2>01, <2>03 DEF Commit, Moves, Leaves, Asks, RecordType
  <2>10. CASE Abort(y)
    BY ZenonT(60), <1>1, <2>10, <2>0, <2>00, <2>01, <2>02, <2>03 DEF Abort, Moves, Leaves, Quits, RecordType
  <2>11. CASE VotedAbort(y)
    BY ZenonT(60), <1>1, <2>11, <2>0, <2>00, <2>01, <2>03, <2>04 DEF VotedAbort, Moves, Errs, Rejects, RecordType
  <2> QED
    BY ZenonT(60), <2>1, <2>2, <2>3, <2>4, <2>5, <2>6, <2>7, <2>8, <2>9, <2>10, <2>11
<1> QED
  BY ZenonT(60), <1>0, <1>1

\* The steps of Recover are moves.
LEMMA RecoverMove ==
  ASSUME TypeOK, NEW x \in Txn, RecoverStep
  PROVE  Moves(x)
<1>1. CASE Reopen \/ RecoverDone
  BY ZenonT(60), <1>1, RestMove DEF Reopen, RecoverDone, Moves
<1>2. ASSUME NEW y \in Txn, NEW op \in {"commit", "abort"}, Drive(op, y), UNCHANGED <<parts, seen, outcome>>
      PROVE  IF x = y THEN Redrives(op, x) ELSE Rests(x)
  <2>1. CASE x = y
    <3>1. pc'[x] = IF op = "commit" THEN "recommit" ELSE "reabort"
      BY ZenonT(60), <1>2, <2>1, PointFacts DEF Drive
    <3>2. /\ op = "commit" => LogAdds("COMMITTING", x)
          /\ op = "abort" => LogAdds("ABORTING", x) /\ Flushed("ABORTING", x)'
      BY ZenonT(60), <1>2, <2>1, LogWritten DEF Drive, WriteAndFlush, Flush, RecordType
    <3> QED
      BY ZenonT(60), <1>2, <2>1, <3>1, <3>2 DEF Redrives, Kept, Untold
  <2>2. CASE x # y
    <3>1. \E v : Become(y, v)
      BY ZenonT(60), <1>2 DEF Drive
    <3>2. \E t \in RecordType : WriteAndFlush(t, y)
      BY ZenonT(60), <1>2 DEF Drive, RecordType
    <3> QED
      BY ZenonT(60), <1>2, <2>2, <3>1, <3>2, OtherMoves
  <2> QED
    BY ZenonT(60), <2>1, <2>2
<1>3. ASSUME NEW y \in Txn, RecoverTxn(y) PROVE Moves(x)
  <2>1. CASE x = y
    <3>0. /\ up = "recovering" /\ InDoubt(x)
          /\ \A z \in Txn : pc[z] \notin RecoverSide /\ (z # x => pc'[z] = pc[z])
      BY ZenonT(60), <1>3, <2>1, PointFacts DEF RecoverTxn, RecoverSide, Drive
    <3>1. CASE Become(y, "query") /\ UNCHANGED <<clog, synced>> /\ ~Logged("COMMITTING", y)
               /\ ~Logged("ABORTING", y)
      <4>1. pc'[x] = "query"
        BY ZenonT(60), <2>1, <3>1, PointFacts
      <4>2. LogStays(x)
        BY ZenonT(60), <3>1, LogUnmoved
      <4> QED
        BY ZenonT(60), <1>3, <2>1, <3>0, <3>1, <4>1, <4>2 DEF RecoverTxn, Moves, Resumes, Kept, Untold
    <3>2. CASE Logged("COMMITTING", y) /\ Drive("commit", y)
      BY ZenonT(60), <1>2, <1>3, <2>1, <3>0, <3>2 DEF RecoverTxn, Moves, Resumes
    <3>3. CASE ~Logged("COMMITTING", y) /\ Logged("ABORTING", y) /\ Drive("abort", y)
      BY ZenonT(60), <1>2, <1>3, <2>1, <3>0, <3>3 DEF RecoverTxn, Moves, Resumes
    <3> QED
      BY ZenonT(60), <1>3, <3>1, <3>2, <3>3 DEF RecoverTxn
  <2>2. CASE x # y
    BY ZenonT(60), <1>2, <1>3, <2>2, OtherMoves DEF RecoverTxn, Moves
  <2> QED
    BY ZenonT(60), <2>1, <2>2
<1>4. ASSUME NEW y \in Txn, RecoverDecide(y) PROVE Moves(x)
  <2> DEFINE d == Decision({seen[y][s] : s \in parts[y]})
  <2>1. d \in {"commit", "abort"}
    BY ZenonT(60) DEF Decision
  <2>2. IF x = y THEN Redrives(d, x) ELSE Rests(x)
    BY ZenonT(60), <1>2, <1>4, <2>1 DEF RecoverDecide
  <2> QED
    BY ZenonT(60), <1>4, <2>1, <2>2 DEF RecoverDecide, Moves, Concludes
<1>5. ASSUME NEW y \in Txn, RecoverTxnDone(y) PROVE Moves(x)
  <2>1. CASE x # y
    BY ZenonT(60), <1>5, <2>1, OtherMoves DEF RecoverTxnDone, Moves, RecordType
  <2>2. CASE x = y
    <3>1. pc'[x] = "done"
      BY ZenonT(60), <1>5, <2>2, PointFacts DEF RecoverTxnDone
    <3>2. \A t \in RecordType : WriteAndFlush(t, x) => LogAdds(t, x)
      BY ZenonT(60), LogWritten DEF WriteAndFlush, Flush
    <3>3. Answers("commit", x) = {"yes"} => All("commit", x)
      BY ZenonT(60) DEF Answers, All
    <3> QED
      BY ZenonT(60), <1>5, <2>2, <3>1, <3>2, <3>3
      DEF RecoverTxnDone, Moves, Settles, Goes, Kept, Untold, RecordType
  <2> QED
    BY ZenonT(60), <2>1, <2>2
<1>6. ASSUME NEW y \in Txn, RecoverFails(y) PROVE Moves(x)
  <2>1. CASE x # y
    BY ZenonT(60), <1>6, <2>1, OtherMoves DEF RecoverFails, Moves
  <2>2. CASE x = y
    <3>1. pc'[x] = "lost"
      BY ZenonT(60), <1>6, <2>2, PointFacts DEF RecoverFails
    <3>2. LogStays(x)
      BY ZenonT(60), <1>6, LogUnmoved DEF RecoverFails
    <3> QED
      BY ZenonT(60), <1>6, <2>2, <3>1, <3>2 DEF RecoverFails, Moves, Throws, Goes, Kept, Untold
  <2> QED
    BY ZenonT(60), <2>1, <2>2
<1>7. ASSUME NEW y \in Txn, NEW t \in Shard, Query(y, t) PROVE Moves(x)
  <2>1. UNCHANGED <<pc, parts, clog, synced, outcome>> /\ LogStays(x) /\ pc[y] = "query"
    BY ZenonT(60), <1>7, LogUnmoved DEF Query
  <2>2. CASE x # y
    <3>1. seen'[x] = seen[x]
      BY ZenonT(60), <1>7, <2>2 DEF Query, TypeOK
    <3> QED
      BY ZenonT(60), <2>1, <3>1 DEF Moves, Rests, Kept, Untold
  <2>3. CASE x = y
    <3>1. CASE \E a \in TxnState(t, y) : seen' = [seen EXCEPT ![y][t] = a]
      <4>1. PICK a \in TxnState(t, y) : seen' = [seen EXCEPT ![y][t] = a]
        BY ZenonT(60), <3>1
      <4>2. \A s \in Shard : seen'[x][s] = IF s = t THEN a ELSE seen[x][s]
        BY ZenonT(60), <2>3, <4>1 DEF TypeOK
      <4> QED
        BY ZenonT(60), <2>1, <2>3, <4>1, <4>2 DEF Moves, Inquires, Untold
    <3>2. CASE QueryFails /\ seen' = [seen EXCEPT ![y][t] = "unknown"]
      <4>1. ~FaultFree'
        BY ZenonT(60), <3>2, SpendFault DEF QueryFails, Bounded
      <4>2. \A s \in Shard : seen'[x][s] = IF s = t THEN "unknown" ELSE seen[x][s]
        BY ZenonT(60), <2>3, <3>2 DEF TypeOK
      <4> QED
        BY ZenonT(60), <2>1, <2>3, <4>1, <4>2 DEF Moves, Inquires, Untold
    <3> QED
      BY ZenonT(60), <1>7, <3>1, <3>2 DEF Query
  <2> QED
    BY ZenonT(60), <2>2, <2>3
<1> QED
  BY ZenonT(60), <1>1, <1>3, <1>4, <1>5, <1>6, <1>7 DEF RecoverStep

\* Every step is one of these to every transaction.
LEMMA MoveNext ==
  ASSUME TypeOK, [Next]_vars, NEW x \in Txn
  PROVE  Moves(x)
<1>1. CASE UNCHANGED coordVars
  BY ZenonT(60), <1>1, RestMove DEF coordVars, Moves
<1>2. CASE Crash
  <2>1. PICK n \in synced..Len(clog) : clog' = SubSeq(clog, 1, n) /\ synced' = n
    BY ZenonT(60), <1>2 DEF Crash
  <2>2. LogCut(x)
    BY ZenonT(60), <2>1, LogCrashed
  <2> QED
    BY ZenonT(60), <1>2, <2>2, SpentNext DEF Crash, Moves, Dies, Nothing, Untold
<1> QED
  BY ZenonT(60), <1>1, <1>2, ClientMove, RecoverMove DEF Next, vars, Deadline

-----------------------------------------------------------------------------
(* The invariant is inductive: budgets, places and the coordinator log *)

\* The types of records.
LEMMA RecordTypes ==
  /\ "PREPARING" \in RecordType /\ "COMMITTING" \in RecordType /\ "COMMITTED" \in RecordType
  /\ "ABORTING" \in RecordType /\ "ABORTED" \in RecordType
BY ZenonT(60) DEF RecordType

\* Recover takes up what is neither new nor at work.
LEMMA ResumesFrom ==
  ASSUME NEW x \in Txn, LogOK(x), UpOK(x), Resumes(x)
  PROVE  pc[x] \in {"done", "lost"}
BY ZenonT(60), RecordTypes DEF Resumes, UpOK, LogOK, Fresh, InDoubt, RecoverSide

\* LogOK is kept.
LEMMA LogNext ==
  ASSUME TypeOK, NEW x \in Txn, LogOK(x), UpOK(x), Moves(x)
  PROVE  LogOK(x)'
<1> USE DEF Fresh, Kept, Goes, Untold
<1>1. CASE Rests(x)
  BY ZenonT(60), <1>1, RecordTypes DEF LogOK, Rests, LogStays
<1>2. CASE Starts(x)
  BY ZenonT(60), <1>2, RecordTypes DEF LogOK, Starts, LogStays
<1>3. CASE Joins(x)
  BY ZenonT(60), <1>3, RecordTypes DEF LogOK, Joins, LogStays
<1>4. CASE Leaves(x)
  BY ZenonT(60), <1>4, RecordTypes DEF LogOK, Leaves, LogStays
<1>5. CASE Asks(x)
  BY ZenonT(60), <1>5, RecordTypes DEF LogOK, Asks, LogAdds
<1>6. CASE Resolves(x)
  BY ZenonT(60), <1>6, RecordTypes DEF LogOK, Resolves, LogAdds
<1>7. CASE Rejects(x)
  BY ZenonT(60), <1>7, RecordTypes DEF LogOK, Rejects, LogAdds
<1>8. CASE Errs(x)
  BY ZenonT(60), <1>8, RecordTypes DEF LogOK, Errs, LogStays
<1>9. CASE Quits(x)
  BY ZenonT(60), <1>9, RecordTypes DEF LogOK, Quits, LogAdds
<1>10. CASE Succeeds(x)
  BY ZenonT(60), <1>10, RecordTypes DEF LogOK, Succeeds, LogAdds
<1>11. CASE Undoes(x)
  BY ZenonT(60), <1>11, RecordTypes DEF LogOK, Undoes, LogAdds
<1>12. CASE Tells(x)
  BY ZenonT(60), <1>12, RecordTypes DEF LogOK, Tells, LogStays
<1>13. CASE Dies(x)
  BY ZenonT(60), <1>13, RecordTypes DEF LogOK, Dies, LogCut
<1>14. CASE Resumes(x)
  <2>1. pc[x] \in {"done", "lost"} /\ InDoubt(x)
    BY ZenonT(60), <1>14, ResumesFrom DEF Resumes
  <2>2. outcome[x] # "conflict"
    <3>1. ~Flushed("ABORTED", x) /\ Logged("PREPARING", x)
      BY ZenonT(60), <2>1, FlushedLogged DEF InDoubt
    <3> QED
      BY ZenonT(60), <3>1 DEF LogOK
  <2>3. CASE Logged("COMMITTING", x) /\ Redrives("commit", x)
    BY ZenonT(60), <2>2, <2>3, RecordTypes DEF LogOK, Redrives, LogAdds
  <2>4. CASE Logged("ABORTING", x) /\ Redrives("abort", x)
    BY ZenonT(60), <2>2, <2>4, RecordTypes DEF LogOK, Redrives, LogAdds
  <2>5. CASE /\ ~Logged("COMMITTING", x) /\ ~Logged("ABORTING", x)
             /\ pc'[x] = "query" /\ Kept(x) /\ Untold(x) /\ LogStays(x)
    BY ZenonT(60), <2>1, <2>2, <2>5, RecordTypes DEF LogOK, LogStays
  <2> QED
    BY ZenonT(60), <1>14, <2>3, <2>4, <2>5 DEF Resumes
<1>15. CASE Inquires(x)
  BY ZenonT(60), <1>15, RecordTypes DEF LogOK, Inquires, LogStays
<1>16. CASE Settles(x)
  BY ZenonT(60), <1>16, RecordTypes DEF LogOK, Settles, LogAdds
<1>17. CASE Throws(x)
  BY ZenonT(60), <1>17, RecordTypes DEF LogOK, Throws, LogStays
<1>18. CASE \E op \in {"commit", "abort"} : Concludes(op, x)
  BY ZenonT(60), <1>18, RecordTypes DEF LogOK, Concludes, Redrives, LogAdds
<1> QED
  BY ZenonT(60), <1>1, <1>2, <1>3, <1>4, <1>5, <1>6, <1>7, <1>8, <1>9, <1>10, <1>11, <1>12, <1>13,
     <1>14, <1>15, <1>16, <1>17, <1>18 DEF Moves

\* Whether the coordinator is up.
LEMMA UpMoves ==
  ASSUME [Next]_vars
  PROVE  \/ up' = up
         \/ /\ UNCHANGED <<pc, clog>>
            /\ \/ up = "down" /\ up' = "recovering"
               \/ up = "recovering" /\ up' = "up" /\ \A x \in Txn : ~InDoubt(x)
         \/ Crash
         \/ \E y \in Txn : pc[y] = "recommit" /\ up' = "down" /\ Become(y, "lost")
<1>1. CASE ClientStep
  BY ZenonT(60), <1>1 DEF ClientStep, BeginTxn, Commit, Abort, VotedCommit, VotedAbort, CommitDone,
     CommitFailed, AbortDone, AbortReturn, Execute, ExecuteConflict, coordVars
<1>2. CASE RecoverStep
  <2>1. CASE Reopen \/ RecoverDone
    BY ZenonT(60), <2>1 DEF Reopen, RecoverDone
  <2> QED
    BY ZenonT(60), <1>2, <2>1 DEF RecoverStep, RecoverTxn, RecoverDecide, RecoverTxnDone, RecoverFails, Query
<1> QED
  BY ZenonT(60), <1>1, <1>2 DEF Next, vars, coordVars, Deadline

\* Recover takes up a transaction only by Resumes.
LEMMA RecoverEntered ==
  ASSUME NEW y \in Txn, Moves(y), pc'[y] \in RecoverSide
  PROVE  pc[y] \in RecoverSide \/ Resumes(y)
BY ZenonT(60) DEF Moves, Rests, Starts, Joins, Leaves, Asks, Resolves, Rejects, Errs, Quits, Succeeds,
   Undoes, Tells, Dies, Inquires, Settles, Throws, Concludes, Goes, RecoverSide

\* A transaction in doubt stays so until it is settled.
LEMMA InDoubtStays ==
  ASSUME NEW x \in Txn, InDoubt(x),
         LogStays(x) \/ LogAdds("COMMITTING", x) \/ LogAdds("ABORTING", x)
  PROVE  InDoubt(x)'
BY ZenonT(60), RecordTypes DEF InDoubt, LogStays, LogAdds

\* UpOK is kept.
LEMMA UpNext ==
  ASSUME TypeOK, [Next]_vars, \A y \in Txn : UpOK(y) /\ LogOK(y), NEW x \in Txn
  PROVE  UpOK(x)'
<1>0. \A y \in Txn : Moves(y)
  BY ZenonT(60), MoveNext
<1>1. \A y \in Txn : pc'[y] \in RecoverSide => pc[y] \in RecoverSide \/ Resumes(y)
  BY ZenonT(60), <1>0, RecoverEntered
<1>2. spent'["crash"] = 0 => spent["crash"] = 0
  BY ZenonT(60), SpentNext
<1>3. pc'[x] \in RecoverSide => \A y \in Txn : pc'[y] \in RecoverSide => y = x
  BY ZenonT(60), <1>1 DEF Resumes, UpOK
<1>4. CASE up' = up
  <2>1. CASE pc'[x] = pc[x] /\ LogStays(x)
    BY ZenonT(60), <1>2, <1>3, <1>4, <2>1, InDoubtStays DEF UpOK
  <2>2. CASE Starts(x)
    BY ZenonT(60), <1>2, <1>4, <2>2 DEF UpOK, Starts, Goes, RecoverSide, ClientSide
  <2>3. CASE Dies(x)
    BY ZenonT(60), <1>4, <2>3 DEF UpOK, Dies, RecoverSide
  <2>4. CASE Resumes(x)
    <3>1. InDoubt(x)' /\ pc'[x] \in RecoverSide /\ up = "recovering"
      BY ZenonT(60), <2>4, InDoubtStays DEF Resumes, Redrives, RecoverSide
    <3> QED
      BY ZenonT(60), <1>2, <1>3, <1>4, <3>1 DEF UpOK
  <2>5. CASE \E op \in {"commit", "abort"} : Concludes(op, x)
    <3>1. InDoubt(x)' /\ pc'[x] \in RecoverSide /\ pc[x] \in RecoverSide
      BY ZenonT(60), <2>5, InDoubtStays DEF Concludes, Redrives, RecoverSide, UpOK
    <3> QED
      BY ZenonT(60), <1>2, <1>3, <1>4, <3>1 DEF UpOK
  <2>6. CASE Settles(x) \/ Throws(x)
    <3>1. pc[x] \in RecoverSide /\ pc'[x] \in {"done", "lost"}
      BY ZenonT(60), <2>6 DEF Settles, Throws, Goes, RecoverSide
    <3> QED
      BY ZenonT(60), <1>2, <1>4, <3>1 DEF UpOK, RecoverSide
  <2>7. CASE \/ Leaves(x) \/ Asks(x) \/ Resolves(x) \/ Rejects(x) \/ Errs(x) \/ Quits(x)
             \/ Succeeds(x) \/ Undoes(x) \/ Tells(x)
    <3>1. pc[x] \in ClientSide \ {"new"} /\ pc'[x] \in ClientSide \cup {"done"}
      BY ZenonT(60), <2>7 DEF Leaves, Asks, Resolves, Rejects, Errs, Quits, Succeeds, Undoes, Tells, Goes, ClientSide
    <3>2. up = "up"
      BY ZenonT(60), <3>1 DEF UpOK, ClientSide, RecoverSide
    <3> QED
      BY ZenonT(60), <1>4, <3>1, <3>2 DEF UpOK, ClientSide, RecoverSide
  <2> QED
    BY ZenonT(60), <1>0, <2>1, <2>2, <2>3, <2>4, <2>5, <2>6, <2>7 DEF Moves, Rests, Joins, Inquires
<1>5. CASE /\ UNCHANGED <<pc, clog>>
           /\ \/ up = "down" /\ up' = "recovering"
              \/ up = "recovering" /\ up' = "up" /\ \A y \in Txn : ~InDoubt(y)
  <2>1. InDoubt(x)' <=> InDoubt(x)
    BY ZenonT(60), <1>5 DEF InDoubt, Logged
  <2> QED
    BY ZenonT(60), <1>2, <1>5, <2>1 DEF UpOK
<1>6. CASE Crash
  <2>1. pc'[x] = (IF pc[x] \in {"new", "done"} THEN pc[x] ELSE "lost") /\ spent'["crash"] # 0
    BY ZenonT(60), <1>6, SpentNext DEF Crash
  <2> QED
    BY ZenonT(60), <2>1 DEF UpOK, RecoverSide
<1>7. ASSUME NEW y \in Txn, pc[y] = "recommit", up' = "down", Become(y, "lost") PROVE UpOK(x)'
  <2>1. pc'[x] = IF x = y THEN "lost" ELSE pc[x]
    BY ZenonT(60), <1>7, PointFacts
  <2>2. pc[y] \in RecoverSide
    BY ZenonT(60), <1>7 DEF RecoverSide
  <2>3. up = "recovering" /\ (pc[x] \in RecoverSide => x = y)
    BY ZenonT(60), <2>2 DEF UpOK
  <2>4. "lost" \notin RecoverSide
    BY ZenonT(60) DEF RecoverSide
  <2> QED
    BY ZenonT(60), <1>2, <1>7, <2>1, <2>3, <2>4 DEF UpOK
<1> QED
  BY ZenonT(60), <1>4, <1>5, <1>6, <1>7, UpMoves

-----------------------------------------------------------------------------
(* The invariant is inductive: what a shard knows of a transaction *)

\* A handler returns, or goes on.
Done(h, a, x, s) ==
  /\ handlers' = handlers \ {h}
  /\ \A op \in Op : rpc'[op][s][x] = rpc[op][s][x] \/ (op = h.op /\ rpc'[op][s][x] = a)
Went(h, at, ix) ==
  /\ rpc' = rpc
  /\ \E k : /\ handlers' = (handlers \ {h}) \cup {k}
            /\ k.op = h.op /\ k.txn = h.txn /\ k.shard = h.shard /\ k.at = at /\ k.ix = ix

\* Finish, seen from the handlers and the calls.
LEMMA FinishFacts ==
  ASSUME TypeOK, NEW x \in Txn, NEW s \in Shard, NEW h \in handlers, NEW a, Finish(h, a)
  PROVE  Done(h, a, x, s)
<1>1. rpc \in [Op -> [Shard -> [Txn -> {"none", "asked", "yes", "no"}]]]
  BY ZenonT(60) DEF TypeOK
<1>2. h.op \in Op /\ h.txn \in Txn /\ h.shard \in Shard
  BY ZenonT(60), HandlerFacts
<1>3. \A op \in Op : rpc'[op][s][x] = rpc[op][s][x] \/ (op = h.op /\ rpc'[op][s][x] = a)
  BY <1>1, <1>2 DEF Finish
<1> QED
  BY ZenonT(60), <1>3 DEF Finish, Done

\* Goto, seen from the handlers and the calls.
LEMMA GotoFacts ==
  ASSUME TypeOK, NEW h \in handlers, NEW at, NEW ix, Goto(h, at, ix)
  PROVE  Went(h, at, ix)
<1> DEFINE k == [h EXCEPT !.at = at, !.ix = ix]
<1>1. h \in Handler
  BY ZenonT(60), HandlerFacts
<1>2. k.op = h.op /\ k.txn = h.txn /\ k.shard = h.shard /\ k.at = at /\ k.ix = ix
  BY ZenonT(60), <1>1 DEF Handler
<1>3. handlers' = (handlers \ {h}) \cup {k} /\ rpc' = rpc
  BY ZenonT(60) DEF Goto
<1> HIDE DEF k
<1> QED
  BY ZenonT(60), <1>2, <1>3 DEF Went

\* What a handler's step does to the handlers and to the log.
LEMMA ActsHandlers ==
  ASSUME TypeOK, NEW x \in Txn, NEW s \in Shard, NEW h \in handlers, h.txn = x, h.shard = s,
         Acts(h, x, s)
  PROVE  \/ EntriesSame(x, s) /\ \E a \in {"yes", "no"} : Done(h, a, x, s)
         \/ EntriesSame(x, s) /\ h.op = "prepare" /\ h.at = "sent" /\ Went(h, "prepared", 0)
         \/ EntriesSame(x, s) /\ h.op = "prepare" /\ h.at = "waiting" /\ Went(h, "taken", 0)
         \/ EntriesSame(x, s) /\ h.op = "abort" /\ h.at = "sent" /\ Went(h, "unreplicated", 0)
         \/ /\ Appends(h.op, x, s) /\ Went(h, "waiting", Len(slog'[s]))
            /\ h.at = IF h.op = "prepare" THEN "prepared" ELSE "sent"
<1>1. \A a : Finish(h, a) => Done(h, a, x, s)
  BY ZenonT(60), FinishFacts
<1>2. \A at, ix : Goto(h, at, ix) => Went(h, at, ix)
  BY ZenonT(60), GotoFacts
<1>3. CASE Refuses(h, x, s) \/ GivesUp(h, x, s) \/ Votes(h, x, s)
  BY ZenonT(60), <1>1, <1>3 DEF Refuses, GivesUp, Votes
<1>4. CASE AbortsLocally(h, x, s) \/ Decides(h, x, s) \/ Fails(h, x, s)
  BY ZenonT(60), <1>1, <1>4 DEF AbortsLocally, Decides, Fails
<1>5. CASE Validates(h, x, s) \/ Takes(h, x, s) \/ Defers(h, x, s)
  BY ZenonT(60), <1>1, <1>2, <1>5 DEF Validates, Takes, Defers
<1>6. CASE Proposes(h, x, s)
  BY ZenonT(60), <1>2, <1>6 DEF Proposes
<1> QED
  BY ZenonT(60), <1>3, <1>4, <1>5, <1>6 DEF Acts

\* An applied entry is an entry.
LEMMA AppliedEntry ==
  ASSUME TypeOK, NEW op, NEW x, NEW s \in Shard, HasApplied(op, x, s)
  PROVE  HasEntry(op, x, s)
<1>1. last_applied[s] \in Nat /\ Len(slog[s]) \in Nat /\ last_applied[s] <= Len(slog[s])
  BY ZenonT(60), EntryFacts
<1>2. \A i \in 1..last_applied[s] : i \in 1..Len(slog[s])
  BY <1>1
<1> QED
  BY ZenonT(60), <1>2 DEF HasApplied, HasEntry

\* The entries of a log that grows stay where they are.
LEMMA GrowsFacts ==
  ASSUME TypeOK, TypeOK', NEW s \in Shard, Grows(s)
  PROVE  \A i \in 1..Len(slog[s]) : i \in 1..Len(slog'[s]) /\ slog'[s][i] = slog[s][i]
<1>1. Len(slog[s]) \in Nat
  BY ZenonT(60), EntryFacts
<1>2. Len(slog'[s]) \in Nat
  <2> DEFINE E == [op : Op, txn : Txn]
  <2>1. slog'[s] \in Seq(E)
    BY ZenonT(60) DEF TypeOK
  <2> HIDE DEF E
  <2> QED
    BY <2>1
<1> QED
  BY <1>1, <1>2 DEF Grows

\* What only grows, and where it comes from.
LEMMA CellGrows ==
  ASSUME TypeOK, NEW x \in Txn, NEW s \in Shard, CellStep(x, s)
  PROVE  /\ Grows(s)
         /\ \A op \in Op : HasEntry(op, x, s) => HasEntry(op, x, s)'
         /\ \A op \in Op : HasEntry(op, x, s)' => HasEntry(op, x, s) \/ HasHandler(op, x, s)
         /\ \A op \in Op : HasHandler(op, x, s)' => HasHandler(op, x, s) \/ Sent(op, x, s)
         /\ x \in committed[s] => x \in committed'[s]
<1>1. CASE Idle(x, s)
  <2>1. ASSUME NEW op \in Op, HasHandler(op, x, s)' PROVE HasHandler(op, x, s)
    <3>1. PICK g \in handlers' : Of(g, op, x, s)
      BY ZenonT(60), <2>1 DEF HasHandler
    <3>2. PICK h \in handlers : Alike(g, h)
      BY ZenonT(60), <1>1, <3>1 DEF Idle, Thin, Of
    <3> QED
      BY ZenonT(60), <3>1, <3>2 DEF HasHandler, Of, Alike
  <2> QED
    BY ZenonT(60), <1>1, <2>1 DEF Idle, EntriesSame, Same
<1>2. CASE Begins(x, s) \/ Conflicts(x, s)
  BY ZenonT(60), <1>2 DEF Begins, Conflicts, EntriesSame, HasHandler
<1>3. CASE Restarted(x, s)
  BY ZenonT(60), <1>3 DEF Restarted, HasHandler, Of
<1>4. ASSUME NEW op \in Op, Sent(op, x, s)
      PROVE  /\ EntriesSame(x, s) /\ Same(x, s)
             /\ \A o \in Op : HasHandler(o, x, s)' => HasHandler(o, x, s) \/ Sent(o, x, s)
  <2>1. Request(op, x, s).op = op
    BY ZenonT(60) DEF Request
  <2> QED
    BY ZenonT(60), <1>4, <2>1 DEF Sent, HasHandler, Of
<1>5. ASSUME NEW op \in Op, Applies(op, x, s)
      PROVE  /\ Grows(s) /\ handlers' = handlers
             /\ \A o \in Op : HasEntry(o, x, s)' <=> HasEntry(o, x, s)
             /\ x \in committed[s] => x \in committed'[s]
  BY ZenonT(60), <1>5 DEF Applies, Advances
<1>6. ASSUME NEW h \in handlers, h.txn = x, h.shard = s, Acts(h, x, s)
      PROVE  /\ Grows(s)
             /\ \A op \in Op : HasEntry(op, x, s) => HasEntry(op, x, s)'
             /\ \A op \in Op : HasEntry(op, x, s)' => HasEntry(op, x, s) \/ op = h.op
             /\ \A op \in Op : HasHandler(op, x, s)' => HasHandler(op, x, s)
             /\ x \in committed[s] => x \in committed'[s]
  <2>1. x \in committed'[s] <=> x \in committed[s]
    BY ZenonT(60), <1>6 DEF Acts, Refuses, Validates, Proposes, GivesUp, Takes, Votes, Defers, AbortsLocally,
       Decides, Fails, Same, Others, Dropped
  <2>2. /\ Grows(s)
        /\ \A op \in Op : HasEntry(op, x, s)' <=> HasEntry(op, x, s) \/ (Appends(h.op, x, s) /\ op = h.op)
    BY ZenonT(60), <1>6, ActsHandlers DEF EntriesSame, Appends
  <2>3. \A op \in Op : HasHandler(op, x, s)' => HasHandler(op, x, s)
    <3> SUFFICES ASSUME NEW op \in Op, NEW g \in handlers', Of(g, op, x, s)
                 PROVE  \E i \in handlers : Of(i, op, x, s)
      BY ZenonT(60) DEF HasHandler
    <3>1. CASE \E a : Done(h, a, x, s)
      BY ZenonT(60), <3>1 DEF Done
    <3>2. CASE \E at, ix : Went(h, at, ix)
      <4>1. PICK k : /\ handlers' = (handlers \ {h}) \cup {k}
                     /\ k.op = h.op /\ k.txn = h.txn /\ k.shard = h.shard
        BY ZenonT(60), <3>2 DEF Went
      <4> QED
        BY ZenonT(60), <4>1 DEF Of
    <3> QED
      BY ZenonT(60), <1>6, <3>1, <3>2, ActsHandlers
  <2> QED
    BY ZenonT(60), <2>1, <2>2, <2>3
<1>7. ASSUME NEW h \in handlers, h.txn = x, h.shard = s PROVE HasHandler(h.op, x, s)
  BY ZenonT(60), <1>7 DEF HasHandler, Of
<1>8. CASE \E op \in Op : Sent(op, x, s)
  BY ZenonT(60), <1>4, <1>8 DEF EntriesSame, Same
<1>9. CASE \E op \in Op : Applies(op, x, s)
  <2>1. \A o \in Op : HasHandler(o, x, s)' <=> HasHandler(o, x, s)
    BY ZenonT(60), <1>5, <1>9 DEF HasHandler
  <2> QED
    BY ZenonT(60), <1>5, <1>9, <2>1
<1>10. CASE \E h \in handlers : h.txn = x /\ h.shard = s /\ Acts(h, x, s)
  BY ZenonT(60), <1>6, <1>7, <1>10
<1> QED
  BY ZenonT(60), <1>1, <1>2, <1>3, <1>8, <1>9, <1>10 DEF CellStep

\* A handler that takes no step stays in order.
LEMMA HandlerStays ==
  ASSUME TypeOK, TypeOK', NEW x \in Txn, NEW s \in Shard,
         NEW i \in handlers, i.txn = x, i.shard = s, HandlerOK(i), NEW g, Alike(g, i), Grows(s),
         HasEntry("prepare", x, s) => HasEntry("prepare", x, s)',
         i.op = "prepare" /\ i.at \in {"sent", "prepared"} => ~HasEntry("prepare", x, s)'
  PROVE  HandlerOK(g)'
<1>1. /\ g.op = i.op /\ g.txn = x /\ g.shard = s /\ g.at = i.at /\ g.ix = i.ix
  BY ZenonT(60) DEF Alike
<1>2. \A j \in 1..Len(slog[s]) : j \in 1..Len(slog'[s]) /\ slog'[s][j] = slog[s][j]
  BY ZenonT(60), GrowsFacts
<1>3. g.at = "waiting" => g.ix \in 1..Len(slog'[s]) /\ slog'[s][g.ix] = Entry(g.op, x)
  BY ZenonT(60), <1>1, <1>2 DEF HandlerOK
<1> QED
  BY ZenonT(60), <1>1, <1>3 DEF HandlerOK

\* The handlers of a cell stay in order.
LEMMA HandlersNext ==
  ASSUME TypeOK, TypeOK', NEW x \in Txn, NEW s \in Shard, CellOK(x, s), CellStep(x, s)
  PROVE  \A g \in handlers' : g.txn = x /\ g.shard = s => HandlerOK(g)'
<1>0. /\ \A h \in handlers : h.txn = x /\ h.shard = s => HandlerOK(h)
      /\ Fresh(x) => ~HasEntry("prepare", x, s)
      /\ OnePrepare(x, s)
  BY ZenonT(60) DEF CellOK, Op
<1>1. Grows(s) /\ (HasEntry("prepare", x, s) => HasEntry("prepare", x, s)')
  BY ZenonT(60), CellGrows DEF Op
<1>2. SUFFICES ASSUME NEW g \in handlers', g.txn = x, g.shard = s PROVE HandlerOK(g)'
  BY ZenonT(60)
<1>3. ASSUME NEW i \in handlers, Alike(g, i),
             i.op = "prepare" /\ i.at \in {"sent", "prepared"} =>
               (HasEntry("prepare", x, s)' => HasEntry("prepare", x, s))
      PROVE  HandlerOK(g)'
  <2>1. i.txn = x /\ i.shard = s /\ HandlerOK(i)
    BY ZenonT(60), <1>0, <1>2, <1>3 DEF Alike
  <2>2. i.op = "prepare" /\ i.at \in {"sent", "prepared"} => ~HasEntry("prepare", x, s)'
    BY ZenonT(60), <1>3, <2>1 DEF HandlerOK
  <2> QED
    BY ZenonT(60), <1>1, <1>3, <2>1, <2>2, HandlerStays
<1>4. Alike(g, g)
  BY ZenonT(60) DEF Alike
<1>5. EntriesSame(x, s) => (HasEntry("prepare", x, s)' => HasEntry("prepare", x, s))
  BY ZenonT(60) DEF EntriesSame, Op
<1>6. CASE Idle(x, s)
  BY ZenonT(60), <1>2, <1>3, <1>5, <1>6 DEF Idle, Thin
<1>7. CASE Begins(x, s) \/ Conflicts(x, s)
  BY ZenonT(60), <1>3, <1>4, <1>5, <1>7 DEF Begins, Conflicts
<1>8. CASE Restarted(x, s)
  BY ZenonT(60), <1>2, <1>8 DEF Restarted
<1>9. ASSUME NEW op \in Op, Sent(op, x, s) PROVE HandlerOK(g)'
  <2>1. CASE g \in handlers
    BY ZenonT(60), <1>3, <1>4, <1>5, <1>9, <2>1 DEF Sent
  <2>2. CASE g = Request(op, x, s)
    <3>1. g.op = op /\ g.at = "sent"
      BY ZenonT(60), <2>2 DEF Request
    <3>2. op = "prepare" => ~HasEntry("prepare", x, s)'
      BY ZenonT(60), <1>0, <1>5, <1>9 DEF Sent, Fresh
    <3> QED
      BY ZenonT(60), <1>2, <3>1, <3>2 DEF HandlerOK
  <2> QED
    BY ZenonT(60), <1>2, <1>9, <2>1, <2>2 DEF Sent
<1>10. ASSUME NEW op \in Op, Applies(op, x, s) PROVE HandlerOK(g)'
  BY ZenonT(60), <1>3, <1>4, <1>10 DEF Applies, Advances, Op
<1>11. ASSUME NEW h \in handlers, h.txn = x, h.shard = s, Acts(h, x, s) PROVE HandlerOK(g)'
  <2>0. HandlerOK(h)
    BY ZenonT(60), <1>0, <1>11
  <2>1. CASE EntriesSame(x, s) /\ \E a \in {"yes", "no"} : Done(h, a, x, s)
    BY ZenonT(60), <1>3, <1>4, <1>5, <2>1 DEF Done
  <2>2. CASE EntriesSame(x, s) /\ g \in handlers
    BY ZenonT(60), <1>3, <1>4, <1>5, <2>2
  <2>3. CASE EntriesSame(x, s) /\ h.op = "prepare" /\ h.at = "sent" /\ Went(h, "prepared", 0) /\ g \notin handlers
    <3>1. g.op = "prepare" /\ g.at = "prepared"
      BY ZenonT(60), <2>3 DEF Went
    <3> QED
      BY ZenonT(60), <1>2, <1>5, <1>11, <2>0, <2>3, <3>1 DEF HandlerOK
  <2>4. CASE EntriesSame(x, s) /\ h.op = "prepare" /\ h.at = "waiting" /\ Went(h, "taken", 0) /\ g \notin handlers
    <3>1. g.op = "prepare" /\ g.at = "taken"
      BY ZenonT(60), <2>4 DEF Went
    <3>2. HasEntry("prepare", x, s)
      BY ZenonT(60), <1>11, <2>0, <2>4 DEF HandlerOK, HasEntry
    <3> QED
      BY ZenonT(60), <1>1, <1>2, <3>1, <3>2 DEF HandlerOK
  <2>5. CASE EntriesSame(x, s) /\ h.op = "abort" /\ h.at = "sent" /\ Went(h, "unreplicated", 0) /\ g \notin handlers
    <3>1. g.op = "abort" /\ g.at = "unreplicated"
      BY ZenonT(60), <2>5 DEF Went
    <3> QED
      BY ZenonT(60), <3>1 DEF HandlerOK
  <2>6. CASE /\ Appends(h.op, x, s) /\ Went(h, "waiting", Len(slog'[s]))
             /\ h.at = IF h.op = "prepare" THEN "prepared" ELSE "sent"
    <3>1. CASE g \in handlers \ {h}
      <4>1. g.op = "prepare" => h.op # "prepare"
        BY ZenonT(60), <1>0, <1>2, <1>11, <3>1 DEF OnePrepare, Of
      <4>2. h.op # "prepare" => (HasEntry("prepare", x, s)' => HasEntry("prepare", x, s))
        BY ZenonT(60), <2>6 DEF Appends, Op
      <4> QED
        BY ZenonT(60), <1>3, <1>4, <3>1, <4>1, <4>2
    <3>2. CASE g \notin handlers \ {h}
      <4>1. g.op = h.op /\ g.at = "waiting" /\ g.ix = Len(slog'[s])
        BY ZenonT(60), <2>6, <3>2 DEF Went
      <4>2. g.ix \in 1..Len(slog'[s]) /\ slog'[s][g.ix] = Entry(g.op, x)
        BY ZenonT(60), <2>6, <4>1 DEF Appends
      <4> QED
        BY ZenonT(60), <1>2, <4>1, <4>2 DEF HandlerOK
    <3> QED
      BY ZenonT(60), <3>1, <3>2
  <2> QED
    BY ZenonT(60), <1>11, <2>1, <2>2, <2>3, <2>4, <2>5, <2>6, ActsHandlers
<1> QED
  BY ZenonT(60), <1>6, <1>7, <1>8, <1>9, <1>10, <1>11 DEF CellStep

\* OnePrepare is kept: Prepare is called once, from the active state.
LEMMA OnePrepareNext ==
  ASSUME TypeOK, NEW x \in Txn, NEW s \in Shard, CellOK(x, s), CellStep(x, s)
  PROVE  OnePrepare(x, s)'
<1>0. OnePrepare(x, s) /\ (Fresh(x) => ~HasHandler("prepare", x, s))
  BY ZenonT(60) DEF CellOK, Op
<1>1. CASE Idle(x, s)
  BY ZenonT(60), <1>0, <1>1 DEF Idle, Thin
<1>2. CASE \A g \in handlers' : g.txn = x /\ g.shard = s => g \in handlers
  BY ZenonT(60), <1>0, <1>2 DEF OnePrepare, Of
<1>3. ASSUME NEW op \in Op, Sent(op, x, s) PROVE OnePrepare(x, s)'
  <2>1. CASE op = "prepare"
    <3>1. \A g \in handlers' : Of(g, "prepare", x, s) => g = Request(op, x, s)
      BY ZenonT(60), <1>0, <1>3, <2>1 DEF Sent, Fresh, HasHandler, Of
    <3> QED
      BY ZenonT(60), <3>1 DEF OnePrepare
  <2>2. CASE op # "prepare"
    <3>1. Request(op, x, s).op = op
      BY ZenonT(60) DEF Request
    <3>2. \A g \in handlers' : Of(g, "prepare", x, s) => g \in handlers
      BY ZenonT(60), <1>3, <2>2, <3>1 DEF Sent, Of
    <3> QED
      BY ZenonT(60), <1>0, <3>2 DEF OnePrepare
  <2> QED
    BY ZenonT(60), <2>1, <2>2
<1>4. ASSUME NEW h \in handlers, h.txn = x, h.shard = s, Acts(h, x, s) PROVE OnePrepare(x, s)'
  <2>1. CASE \E a : Done(h, a, x, s)
    BY ZenonT(60), <1>0, <2>1 DEF Done, OnePrepare
  <2>2. CASE \E at, ix : Went(h, at, ix)
    <3>1. PICK k : /\ handlers' = (handlers \ {h}) \cup {k}
                   /\ k.op = h.op /\ k.txn = h.txn /\ k.shard = h.shard
      BY ZenonT(60), <2>2 DEF Went
    <3> SUFFICES ASSUME NEW g \in handlers', NEW i \in handlers',
                        Of(g, "prepare", x, s), Of(i, "prepare", x, s)
                 PROVE  g = i
      BY ZenonT(60) DEF OnePrepare
    <3>2. CASE h.op = "prepare"
      <4>1. \A j \in handlers : Of(j, "prepare", x, s) => j = h
        BY ZenonT(60), <1>0, <1>4, <3>2 DEF OnePrepare, Of
      <4> QED
        BY ZenonT(60), <3>1, <4>1
    <3>3. CASE h.op # "prepare"
      <4>1. g \in handlers /\ i \in handlers
        BY ZenonT(60), <3>1, <3>3 DEF Of
      <4> QED
        BY ZenonT(60), <1>0, <4>1 DEF OnePrepare
    <3> QED
      BY ZenonT(60), <3>2, <3>3
  <2> QED
    BY ZenonT(60), <1>4, <2>1, <2>2, ActsHandlers
<1> QED
  BY ZenonT(60), <1>1, <1>2, <1>3, <1>4 DEF CellStep, Begins, Conflicts, Restarted, Applies

\* How each table can change, and who changes it.
Own(h, x, s) == h \in handlers /\ h.txn = x /\ h.shard = s

\* Which steps change which table.
LEMMA TablesNext ==
  ASSUME NEW x \in Txn, NEW s \in Shard, CellStep(x, s)
  PROVE  /\ \/ terminal'[s][x] = terminal[s][x]
            \/ terminal'[s][x] = "none" /\ Restarted(x, s)
            \/ \E h : Own(h, x, s) /\ (AbortsLocally(h, x, s) \/ Decides(h, x, s))
         /\ \/ pending'[s][x] = pending[s][x]
            \/ Restarted(x, s) \/ Begins(x, s)
            \/ \E h : Own(h, x, s) /\ (Refuses(h, x, s) \/ GivesUp(h, x, s) \/ Votes(h, x, s)
                                       \/ AbortsLocally(h, x, s) \/ Decides(h, x, s))
         /\ \/ local'[s][x] = local[s][x]
            \/ local'[s][x] = "none"
            \/ Begins(x, s)
            \/ \E h : Own(h, x, s) /\ Validates(h, x, s)
         /\ \/ txn_id_map'[s][x] = txn_id_map[s][x]
            \/ txn_id_map'[s][x] = "none" /\ local'[s][x] = "none"
            \/ Begins(x, s)
            \/ \E op \in Op : Applies(op, x, s)
         /\ (prepare_results'[s][x] \/ follower_results'[s][x]) =>
              prepare_results[s][x] \/ follower_results[s][x] \/ Applies("prepare", x, s)
         /\ x \in committed'[s] => x \in committed[s] \/ Applies("commit", x, s)
<1>1. CASE Idle(x, s)
  BY ZenonT(60), <1>1 DEF Idle, Same
<1>2. CASE Begins(x, s)
  BY ZenonT(60), <1>2 DEF Begins
<1>3. CASE Conflicts(x, s)
  BY ZenonT(60), <1>3 DEF Conflicts
<1>4. CASE Restarted(x, s)
  BY ZenonT(60), <1>4 DEF Restarted
<1>5. ASSUME NEW op \in Op, Sent(op, x, s) PROVE Same(x, s)
  BY ZenonT(60), <1>5 DEF Sent
<1>6. CASE \E op \in Op : Sent(op, x, s)
  BY ZenonT(60), <1>5, <1>6 DEF Same
<1>7. ASSUME NEW op \in Op, Applies(op, x, s)
      PROVE  /\ terminal'[s][x] = terminal[s][x] /\ pending'[s][x] = pending[s][x]
             /\ local'[s][x] = local[s][x] \/ local'[s][x] = "none"
             /\ (prepare_results'[s][x] \/ follower_results'[s][x]) =>
                  prepare_results[s][x] \/ follower_results[s][x] \/ op = "prepare"
             /\ x \in committed'[s] => x \in committed[s] \/ op = "commit"
  BY ZenonT(60), <1>7 DEF Applies, Op
<1>8. CASE \E op \in Op : Applies(op, x, s)
  BY ZenonT(60), <1>7, <1>8
<1>9. ASSUME NEW h \in handlers, h.txn = x, h.shard = s, Acts(h, x, s)
      PROVE  /\ \/ terminal'[s][x] = terminal[s][x]
                \/ AbortsLocally(h, x, s) \/ Decides(h, x, s)
             /\ \/ pending'[s][x] = pending[s][x]
                \/ Refuses(h, x, s) \/ GivesUp(h, x, s) \/ Votes(h, x, s)
                \/ AbortsLocally(h, x, s) \/ Decides(h, x, s)
             /\ \/ local'[s][x] = local[s][x]
                \/ local'[s][x] = "none"
                \/ Validates(h, x, s)
             /\ \/ txn_id_map'[s][x] = txn_id_map[s][x]
                \/ txn_id_map'[s][x] = "none" /\ local'[s][x] = "none"
             /\ (prepare_results'[s][x] \/ follower_results'[s][x]) =>
                  prepare_results[s][x] \/ follower_results[s][x]
             /\ x \in committed'[s] => x \in committed[s]
  <2>1. CASE Refuses(h, x, s)
    BY ZenonT(60), <2>1 DEF Refuses, Dropped, Same
  <2>2. CASE Validates(h, x, s)
    BY ZenonT(60), <2>2 DEF Validates, Others
  <2>3. CASE Proposes(h, x, s) \/ Defers(h, x, s) \/ Fails(h, x, s)
    <3>1. Same(x, s)
      BY ZenonT(60), <2>3 DEF Proposes, Defers, Fails
    <3> QED
      BY ZenonT(60), <3>1 DEF Same
  <2>4. CASE GivesUp(h, x, s)
    BY ZenonT(60), <2>4 DEF GivesUp, Dropped
  <2>5. CASE Takes(h, x, s)
    BY ZenonT(60), <2>5 DEF Takes, Others
  <2>6. CASE Votes(h, x, s)
    BY ZenonT(60), <2>6 DEF Votes, Others
  <2>7. CASE AbortsLocally(h, x, s)
    BY ZenonT(60), <2>7 DEF AbortsLocally, Dropped
  <2>8. CASE Decides(h, x, s)
    BY ZenonT(60), <2>8 DEF Decides
  <2> QED
    BY ZenonT(60), <1>9, <2>1, <2>2, <2>3, <2>4, <2>5, <2>6, <2>7, <2>8 DEF Acts
<1>10. CASE \E h \in handlers : h.txn = x /\ h.shard = s /\ Acts(h, x, s)
  <2>1. PICK h \in handlers : h.txn = x /\ h.shard = s /\ Acts(h, x, s)
    BY ZenonT(60), <1>10
  <2>2. Own(h, x, s)
    BY ZenonT(60), <2>1 DEF Own
  <2> QED
    BY ZenonT(60), <1>9, <2>1, <2>2
<1> QED
  BY ZenonT(60), <1>1, <1>2, <1>3, <1>4, <1>6, <1>8, <1>10 DEF CellStep

\* Where a transaction can come from.
LEMMA PlacesNext ==
  ASSUME NEW x \in Txn, Moves(x)
  PROVE  /\ Fresh(x)' => Fresh(x)
         /\ parts[x] \subseteq parts'[x]
         /\ ~Fresh(x) => parts'[x] = parts[x]
         /\ pc'[x] = "preparing" => pc[x] \in {"active", "preparing"}
         /\ pc'[x] \in ClientSide => pc[x] \in ClientSide
         /\ pc'[x] = "query" => pc[x] = "query" \/ Resumes(x)
<1> USE DEF Goes, Kept, Fresh, ClientSide
<1>1. CASE Rests(x) \/ Joins(x) \/ Inquires(x)
  BY ZenonT(60), <1>1 DEF Rests, Joins, Inquires
<1>2. CASE Starts(x) \/ Leaves(x) \/ Asks(x) \/ Resolves(x) \/ Rejects(x) \/ Errs(x) \/ Quits(x)
           \/ Succeeds(x) \/ Undoes(x) \/ Tells(x)
  BY ZenonT(60), <1>2 DEF Starts, Leaves, Asks, Resolves, Rejects, Errs, Quits, Succeeds, Undoes, Tells
<1>3. CASE Dies(x)
  BY ZenonT(60), <1>3 DEF Dies
<1>4. CASE Resumes(x) \/ Settles(x) \/ Throws(x) \/ \E op \in {"commit", "abort"} : Concludes(op, x)
  BY ZenonT(60), <1>4 DEF Resumes, Settles, Throws, Concludes, Redrives
<1> QED
  BY ZenonT(60), <1>1, <1>2, <1>3, <1>4 DEF Moves

\* What Recover's queries have returned.
LEMMA SeenNext ==
  ASSUME NEW x \in Txn, NEW s \in Shard, Moves(x)
  PROVE  \/ seen'[x][s] = seen[x][s]
         \/ seen'[x][s] = "none"
         \/ Inquires(x) /\ seen'[x][s] \in TxnState(s, x)
         \/ Inquires(x) /\ seen'[x][s] = "unknown" /\ ~FaultFree'
BY ZenonT(60) DEF Moves, Rests, Starts, Joins, Leaves, Asks, Resolves, Rejects, Errs, Quits, Succeeds,
   Undoes, Tells, Dies, Resumes, Inquires, Settles, Throws, Concludes, Redrives, Goes, Kept

\* What QueryTxnState can answer.
LEMMA SeenStates ==
  ASSUME TypeOK, NEW x \in Txn, NEW s \in Shard, NEW a \in TxnState(s, x)
  PROVE  /\ a = "committed" => terminal[s][x] = "committed"
         /\ a = "prepared" =>
              \/ pending[s][x] = "prepared"
              \/ /\ terminal[s][x] = "none" /\ pending[s][x] = "none"
                 /\ prepare_results[s][x] \/ follower_results[s][x]
         /\ pending[s][x] = "prepared" \/ terminal[s][x] = "committed" =>
              a \in {"prepared", "committed"} \/ terminal[s][x] = "aborted"
<1>1. terminal[s][x] \in {"none", "committed", "aborted"}
  BY DEF TypeOK
<1> QED
  BY ZenonT(60), <1>1 DEF TxnState

\* A handler of x at s.
LEMMA OwnHandler ==
  ASSUME NEW x \in Txn, NEW s \in Shard, NEW h, Own(h, x, s)
  PROVE  HasHandler(h.op, x, s) /\ h \in handlers /\ h.txn = x /\ h.shard = s
BY ZenonT(60) DEF Own, HasHandler, Of

\* A proposal that was applied is in the log.
LEMMA WaitingFacts ==
  ASSUME TypeOK, NEW x \in Txn, NEW s \in Shard, NEW h, Own(h, x, s), CellOK(x, s)
  PROVE  /\ HandlerOK(h)
         /\ h.at = "waiting" => HasEntry(h.op, x, s)
         /\ h.at = "waiting" /\ last_applied[s] >= h.ix => HasApplied(h.op, x, s)
         /\ h.at = "taken" => HasEntry("prepare", x, s)
<1>1. HandlerOK(h) /\ h.txn = x /\ h.shard = s
  BY ZenonT(60), OwnHandler DEF CellOK
<1>2. ASSUME h.at = "waiting"
      PROVE  h.ix \in 1..Len(slog[s]) /\ slog[s][h.ix] = Entry(h.op, x)
  BY ZenonT(60), <1>1, <1>2 DEF HandlerOK
<1>3. ASSUME h.at = "waiting", last_applied[s] >= h.ix PROVE h.ix \in 1..last_applied[s]
  <2>1. last_applied[s] \in Nat /\ Len(slog[s]) \in Nat
    BY ZenonT(60), EntryFacts
  <2> QED
    BY <1>2, <1>3, <2>1
<1> QED
  BY ZenonT(60), <1>1, <1>2, <1>3 DEF HasEntry, HasApplied, HandlerOK

\* CellOK is kept.
LEMMA CellOKNext ==
  ASSUME TypeOK, TypeOK', NEW x \in Txn, NEW s \in Shard, CellOK(x, s), CellStep(x, s), Moves(x)
  PROVE  CellOK(x, s)'
<1>0. "prepare" \in Op /\ "commit" \in Op /\ "abort" \in Op
  BY ZenonT(60) DEF Op
<1>1. /\ Fresh(x)' => Fresh(x)
      /\ parts[x] \subseteq parts'[x]
      /\ pc'[x] = "preparing" => pc[x] \in {"active", "preparing"}
  BY ZenonT(60), PlacesNext
<1>2. /\ \A op \in Op : HasEntry(op, x, s) => HasEntry(op, x, s)'
      /\ \A op \in Op : HasEntry(op, x, s)' => HasEntry(op, x, s) \/ HasHandler(op, x, s)
      /\ \A op \in Op : HasHandler(op, x, s)' => HasHandler(op, x, s) \/ Sent(op, x, s)
  BY ZenonT(60), CellGrows
<1>3. \A op \in Op : Sent(op, x, s) => ~Fresh(x)' /\ s \in parts[x]
  BY ZenonT(60) DEF Sent, Fresh, Op
<1>4. ASSUME NEW h, Own(h, x, s)
      PROVE  h.op \in Op /\ HasHandler(h.op, x, s) /\ ~Fresh(x) /\ s \in parts[x]
  <2>1. h.op \in Op /\ HasHandler(h.op, x, s)
    BY ZenonT(60), <1>4, OwnHandler, HandlerFacts
  <2> QED
    BY ZenonT(60), <2>1 DEF CellOK
<1>5. ASSUME Fresh(x) PROVE \A op \in Op : ~HasEntry(op, x, s) /\ ~HasHandler(op, x, s)
  BY ZenonT(60), <1>5 DEF CellOK
<1>6. ASSUME Fresh(x)' PROVE terminal'[s][x] = "none" /\ pending'[s][x] # "prepared"
  <2>1. terminal[s][x] = "none" /\ pending[s][x] # "prepared" /\ Fresh(x)
    BY ZenonT(60), <1>1, <1>6 DEF CellOK
  <2>2. \A h : ~Own(h, x, s)
    BY ZenonT(60), <1>4, <2>1
  <2>3. terminal'[s][x] = "none"
    BY ZenonT(60), <2>1, <2>2, TablesNext
  <2>4. pending'[s][x] # "prepared"
    BY ZenonT(60), <2>1, <2>2, TablesNext DEF Restarted, Begins
  <2> QED
    BY ZenonT(60), <2>3, <2>4
<1>7. ASSUME Fresh(x)' PROVE rpc'["prepare"][s][x] = "none"
  <2>1. rpc["prepare"][s][x] = "none" /\ Fresh(x)
    BY ZenonT(60), <1>1, <1>7 DEF CellOK
  <2>2. \A op \in Op : ~Sent(op, x, s) /\ ~HasEntry(op, x, s) /\ ~HasHandler(op, x, s)
    BY ZenonT(60), <1>3, <1>5, <1>7, <2>1
  <2>3. \A h : ~Own(h, x, s)
    BY ZenonT(60), <1>4, <2>1
  <2>4. \A op \in Op : ~Applies(op, x, s)
    BY ZenonT(60), <2>2 DEF Applies, Advances
  <2>5. Idle(x, s) \/ Begins(x, s) \/ Conflicts(x, s) \/ Restarted(x, s)
    BY ZenonT(60), <2>2, <2>3, <2>4 DEF CellStep, Own
  <2> QED
    BY ZenonT(60), <1>0, <2>1, <2>2, <2>5 DEF Idle, Calls, Begins, Conflicts, Restarted
<1>8. (Fresh(x)' \/ s \notin parts'[x]) =>
        \A op \in Op : ~HasEntry(op, x, s)' /\ ~HasHandler(op, x, s)'
  <2>1. Fresh(x)' \/ s \notin parts'[x] => Fresh(x) \/ s \notin parts[x]
    BY ZenonT(60), <1>1
  <2>2. Fresh(x) \/ s \notin parts[x] => \A op \in Op : ~HasEntry(op, x, s) /\ ~HasHandler(op, x, s)
    BY ZenonT(60) DEF CellOK
  <2> QED
    BY ZenonT(60), <1>1, <1>2, <1>3, <2>1, <2>2
<1>9. (\A g \in handlers' : g.txn = x /\ g.shard = s => HandlerOK(g)') /\ OnePrepare(x, s)'
  BY ZenonT(60), HandlersNext, OnePrepareNext
<1>10. ASSUME x \in committed'[s] \/ terminal'[s][x] = "committed" \/ seen'[x][s] = "committed"
       PROVE  HasEntry("commit", x, s)'
  <2>1. x \in committed[s] \/ terminal[s][x] = "committed" \/ seen[x][s] = "committed" =>
          HasEntry("commit", x, s)
    BY ZenonT(60) DEF CellOK
  <2>2. x \in committed'[s] => HasEntry("commit", x, s)
    BY ZenonT(60), <2>1, TablesNext DEF Applies, Advances
  <2>3. terminal'[s][x] = "committed" => HasEntry("commit", x, s)
    <3>1. ASSUME NEW h, Own(h, x, s), AbortsLocally(h, x, s), terminal'[s][x] = "committed" PROVE FALSE
      BY ZenonT(60), <3>1 DEF AbortsLocally
    <3>2. ASSUME NEW h, Own(h, x, s), Decides(h, x, s), terminal'[s][x] = "committed"
          PROVE  HasEntry("commit", x, s)
      BY ZenonT(60), <3>2, WaitingFacts DEF Decides
    <3> QED
      BY ZenonT(60), <2>1, <3>1, <3>2, TablesNext
  <2>4. seen'[x][s] = "committed" => HasEntry("commit", x, s)
    BY ZenonT(60), <2>1, SeenNext, SeenStates
  <2> QED
    BY ZenonT(60), <1>0, <1>2, <1>10, <2>2, <2>3, <2>4
<1>11. ASSUME \/ pending'[s][x] = "prepared" \/ prepare_results'[s][x] \/ follower_results'[s][x]
              \/ seen'[x][s] = "prepared"
       PROVE  HasEntry("prepare", x, s)'
  <2>1. pending[s][x] = "prepared" \/ prepare_results[s][x] \/ follower_results[s][x]
        \/ seen[x][s] = "prepared" => HasEntry("prepare", x, s)
    BY ZenonT(60) DEF CellOK
  <2>2. prepare_results'[s][x] \/ follower_results'[s][x] => HasEntry("prepare", x, s)
    BY ZenonT(60), <2>1, TablesNext DEF Applies, Advances
  <2>3. pending'[s][x] = "prepared" => HasEntry("prepare", x, s)
    <3>1. ASSUME NEW h, Own(h, x, s), pending'[s][x] = "prepared",
                 AbortsLocally(h, x, s) \/ Decides(h, x, s) \/ GivesUp(h, x, s)
          PROVE  FALSE
      BY ZenonT(60), <3>1 DEF AbortsLocally, Decides, GivesUp, Dropped
    <3>2. ASSUME NEW h, Own(h, x, s), Refuses(h, x, s), pending'[s][x] = "prepared" PROVE FALSE
      BY ZenonT(60), <3>2 DEF Refuses, Dropped, Same
    <3>3. ASSUME NEW h, Own(h, x, s), Votes(h, x, s) PROVE HasEntry("prepare", x, s)
      BY ZenonT(60), <3>3, WaitingFacts DEF Votes
    <3>4. Restarted(x, s) \/ Begins(x, s) => pending'[s][x] # "prepared"
      BY ZenonT(60) DEF Restarted, Begins
    <3> QED
      BY ZenonT(60), <2>1, <3>1, <3>2, <3>3, <3>4, TablesNext
  <2>4. seen'[x][s] = "prepared" => HasEntry("prepare", x, s)
    <3>1. \A a \in TxnState(s, x) : a = "prepared" => HasEntry("prepare", x, s)
      BY ZenonT(60), <2>1, SeenStates
    <3> QED
      BY ZenonT(60), <2>1, <3>1, SeenNext
  <2> QED
    BY ZenonT(60), <1>0, <1>2, <1>11, <2>2, <2>3, <2>4
<1>12. ASSUME local'[s][x] # "none" PROVE pending'[s][x] # "none" \/ terminal'[s][x] # "none"
  <2>1. local[s][x] # "none" => pending[s][x] # "none" \/ terminal[s][x] # "none"
    BY ZenonT(60) DEF CellOK
  <2>2. ~Restarted(x, s) /\ (Begins(x, s) => pending'[s][x] # "none")
    BY ZenonT(60), <1>12 DEF Restarted, Begins
  <2>3. ASSUME NEW h, Own(h, x, s)
        PROVE  /\ Validates(h, x, s) => pending'[s][x] # "none"
               /\ Refuses(h, x, s) \/ Votes(h, x, s) => pending'[s][x] # "none" \/ pending[s][x] = "none"
               /\ ~GivesUp(h, x, s) /\ ~AbortsLocally(h, x, s)
               /\ Decides(h, x, s) => terminal'[s][x] # "none"
    BY ZenonT(60), <1>12 DEF Validates, Refuses, Votes, GivesUp, AbortsLocally, Decides, Dropped, Same
  <2>4. terminal[s][x] # "none" => terminal'[s][x] # "none"
    BY ZenonT(60), <2>2, <2>3, TablesNext
  <2>5. pending[s][x] # "none" => pending'[s][x] # "none" \/ terminal'[s][x] # "none"
    BY ZenonT(60), <2>2, <2>3, TablesNext
  <2> QED
    BY ZenonT(60), <1>12, <2>1, <2>2, <2>3, <2>4, <2>5, TablesNext
<1>13. ASSUME local'[s][x] = "active"
       PROVE  txn_id_map'[s][x] = "local" \/ HasEntry("commit", x, s)' \/ HasEntry("abort", x, s)'
  <2>1. local[s][x] = "active" =>
          txn_id_map[s][x] = "local" \/ HasEntry("commit", x, s) \/ HasEntry("abort", x, s)
    BY ZenonT(60) DEF CellOK
  <2>2. Begins(x, s) => txn_id_map'[s][x] = "local"
    BY ZenonT(60) DEF Begins
  <2>3. local[s][x] = "active" \/ Begins(x, s)
    <3>1. \A h : Own(h, x, s) => ~Validates(h, x, s)
      BY ZenonT(60), <1>13 DEF Validates
    <3> QED
      BY ZenonT(60), <1>13, <3>1, TablesNext
  <2>4. ASSUME NEW op \in Op, Applies(op, x, s), txn_id_map[s][x] = "local"
        PROVE  txn_id_map'[s][x] = "local" \/ HasEntry("commit", x, s) \/ HasEntry("abort", x, s)
    BY ZenonT(60), <2>4 DEF Applies, Advances, Op
  <2> QED
    BY ZenonT(60), <1>0, <1>2, <1>13, <2>1, <2>2, <2>3, <2>4, TablesNext
<1>14. ASSUME pc'[x] = "preparing"
       PROVE  /\ terminal'[s][x] = "none"
              /\ \A op \in {"commit", "abort"} : ~HasEntry(op, x, s)' /\ ~HasHandler(op, x, s)'
  <2>1. /\ terminal[s][x] = "none"
        /\ \A op \in {"commit", "abort"} : ~HasEntry(op, x, s) /\ ~HasHandler(op, x, s)
    <3>1. CASE pc[x] = "active"
      BY ZenonT(60), <1>0, <1>5, <3>1 DEF CellOK, Fresh
    <3>2. CASE pc[x] = "preparing"
      BY ZenonT(60), <3>2 DEF CellOK
    <3> QED
      BY ZenonT(60), <1>1, <1>14, <3>1, <3>2
  <2>2. \A op \in {"commit", "abort"} : ~Sent(op, x, s)
    BY ZenonT(60), <1>14 DEF Sent
  <2>3. \A h : Own(h, x, s) => ~AbortsLocally(h, x, s) /\ ~Decides(h, x, s)
    <3>1. \A h : Own(h, x, s) => h.op \notin {"commit", "abort"}
      BY ZenonT(60), <2>1, OwnHandler
    <3> QED
      BY ZenonT(60), <3>1 DEF AbortsLocally, Decides
  <2>4. terminal'[s][x] = "none"
    BY ZenonT(60), <2>1, <2>3, TablesNext
  <2> QED
    BY ZenonT(60), <1>0, <1>2, <2>1, <2>2, <2>4
<1> QED
  BY ZenonT(60), <1>6, <1>7, <1>8, <1>9, <1>10, <1>11, <1>12, <1>13, <1>14 DEF CellOK
=============================================================================
