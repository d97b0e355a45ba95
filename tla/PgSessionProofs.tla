--------------------------- MODULE PgSessionProofs ---------------------------
(***************************************************************************)
(* Proofs about PgSession, for any number of connections, queries and      *)
(* blocks.                                                                 *)
(***************************************************************************)
EXTENDS PgSession, TLAPS

\* A leaf is tried with SMT and then with Zenon, unless it names its prover.
USE SMTT(30), ZenonT(30)

TxnId == Conn \X Nat

\* The kinds of value that sessions and the table of transactions hold.
SessionTypeOK ==
  /\ txns \subseteq TxnId
  /\ current_txn_id \in [Conn -> TxnId \cup {NoTxn}]
  /\ txn_failed \in [Conn -> BOOLEAN] /\ erred \in [Conn -> BOOLEAN]
  /\ begun \in [Conn -> Nat] /\ unclean \in BOOLEAN
  /\ prepared_stmts \in [Conn -> [StmtName -> Statement \cup {NoQuery}]]
  /\ portals \in [Conn -> [StmtName -> Statement \cup {NoQuery}]]
  /\ todo \in [Conn -> Seq(Statement)]
  /\ ready \in [Conn -> {"none", "I", "T", "E"}]
  /\ worker \in [Conn -> {"none", "accepted", "startup", "run", "ended", "exited"}]
  /\ accepted \subseteq Conn

\* A session and the table of transactions keep step: the coordinator holds no
\* transaction of the session but its block, and a refused statement has failed
\* the block.
Block(c) ==
  /\ \A t \in txns : t[1] = c => t = current_txn_id[c]
  /\ current_txn_id[c] # NoTxn => current_txn_id[c][1] = c
  /\ erred[c] => txn_failed[c]
  /\ txn_failed[c] => current_txn_id[c] # NoTxn

\* The coordinator holds the block unless it has failed.
Held(c) == current_txn_id[c] # NoTxn /\ ~txn_failed[c] => current_txn_id[c] \in txns

\* Where the worker is, and what the client read last.
Phase(c) ==
  /\ worker[c] = "run" => Held(c)
  /\ worker[c] \in {"none", "accepted", "startup"} => current_txn_id[c] = NoTxn
  /\ worker[c] # "run" => todo[c] = <<>> /\ ready[c] = "none"
  /\ todo[c] # <<>> => ready[c] = "none"
  /\ ready[c] = "I" => current_txn_id[c] = NoTxn
  /\ ready[c] = "T" => current_txn_id[c] # NoTxn /\ ~txn_failed[c]
  /\ ready[c] = "E" => current_txn_id[c] # NoTxn
  /\ c \in accepted => worker[c] = "accepted"

\* The inductive invariant of the sessions.
SessionInv ==
  /\ SessionTypeOK
  /\ \A c \in Conn : Block(c) /\ Phase(c)
  /\ ~unclean

\* That of Stop: the accept thread is joined before the workers are.
StopInv ==
  /\ stop \in {"join workers", "returned"} => acceptor = "done"
  /\ stop = "returned" => \A c \in Conn : worker[c] \in {"none", "exited"}

-----------------------------------------------------------------------------
(* What executing a statement does to the table of transactions. *)

\* Whatever the statement and its outcome, the transactions of other sessions
\* stay and the session leaves none behind but its block.
LEMMA RowOutcome ==
  ASSUME SessionTypeOK, NEW c \in Conn, Block(c), NEW o \in ExecRow(c)
  PROVE  /\ o.txn = current_txn_id[c]
         /\ o.txns = txns
         /\ o.ok /\ current_txn_id[c] # NoTxn => current_txn_id[c] \in txns
<1>1. CASE ~tables \/ (current_txn_id[c] # NoTxn)
  <2>1. \/ o = Unchanged(c, FALSE)
        \/ o = Unchanged(c, TRUE) /\ current_txn_id[c] \in txns
    BY ZenonT(60), <1>1 DEF ExecRow
  <2>2. QED BY <2>1 DEF Unchanged, Out
<1>2. CASE tables /\ current_txn_id[c] = NoTxn
  <2>1. AutoId(c) \notin txns
    <3>1. AutoId(c)[1] = c /\ AutoId(c) \in TxnId
      BY ZenonT(60) DEF AutoId, TxnId
    <3>2. AutoId(c) # NoTxn
      BY ZenonT(60), <3>1, NoTxnAssumption DEF TxnId
    <3>3. QED BY ZenonT(60), <3>1, <3>2, <1>2 DEF Block
  <2>2. (txns \cup {AutoId(c)}) \ {AutoId(c)} = txns
    BY ZenonT(60), <2>1
  <2>3. PICK ok \in BOOLEAN : o = Out(c, ok, NoTxn, txns, tables)
    BY ZenonT(60), <1>2, <2>2 DEF ExecRow
  <2>4. QED BY ZenonT(60), <1>2, <2>3 DEF Out, SessionTypeOK
<1>3. QED BY ZenonT(60), <1>1, <1>2 DEF SessionTypeOK

\* The same for every statement, with what a success and a failure mean for the
\* block: a success leaves no block or one that the coordinator holds, a failure
\* leaves the session in the block it was in.
LEMMA ExecuteOutcome ==
  ASSUME SessionTypeOK, NEW c \in Conn, Block(c),
         NEW q \in Statement, q # "bad", NEW o \in Execute(c, q)
  PROVE  /\ o.txn \in TxnId \cup {NoTxn} /\ o.txns \subseteq TxnId
         /\ \A t \in TxnId : t[1] # c => (t \in o.txns <=> t \in txns)
         /\ \A t \in o.txns : t[1] = c => t = o.txn
         /\ o.txn # NoTxn => o.txn[1] = c
         /\ ~o.ok => o.txn = current_txn_id[c]
         /\ o.ok /\ q \in {"commit", "rollback"} => o.txn = NoTxn
         /\ o.ok /\ Held(c) /\ o.txn # NoTxn /\ ~txn_failed[c] => o.txn \in o.txns
<1> USE DEF SessionTypeOK, Block
<1>1. current_txn_id[c] \in TxnId \cup {NoTxn} /\ txns \subseteq TxnId
  BY ZenonT(60)
<1>2. CASE q = "create"
  <2>1. o \in ExecCreateTable(c)
    BY ZenonT(60), <1>2 DEF Execute
  <2>2. o = Unchanged(c, FALSE) \/ o = Out(c, TRUE, current_txn_id[c], txns, TRUE)
    BY ZenonT(60), <2>1 DEF ExecCreateTable
  <2>3. o.txn = current_txn_id[c] /\ o.txns = txns
    BY <2>2 DEF Unchanged, Out
  <2>4. QED BY ZenonT(60), <2>3, <1>1, <1>2 DEF Held
<1>3. CASE q \in {"write", "select"}
  <2>1. o \in ExecRow(c)
    BY ZenonT(60), <1>3 DEF Execute
  <2>2. /\ o.txn = current_txn_id[c] /\ o.txns = txns
        /\ o.ok /\ current_txn_id[c] # NoTxn => current_txn_id[c] \in txns
    BY ZenonT(60), <2>1, RowOutcome
  <2>3. QED BY ZenonT(60), <2>2, <1>1, <1>3
<1>4. CASE q = "begin"
  <2>1. o \in ExecBegin(c)
    BY ZenonT(60), <1>4 DEF Execute
  <2>2. CASE current_txn_id[c] # NoTxn
    <3>1. o = Unchanged(c, FALSE)
      BY ZenonT(60), <2>1, <2>2 DEF ExecBegin
    <3>2. /\ o.txns = txns /\ ~o.ok
          /\ o.txn = current_txn_id[c]
      BY ZenonT(60), <3>1 DEF Unchanged, Out
    <3>3. QED BY ZenonT(60), <3>2, <2>2, <1>1, <1>4
  <2>3. CASE current_txn_id[c] = NoTxn
    <3> DEFINE t == BlockId(c, begun[c] + 1)
    <3>1. t \in TxnId /\ t[1] = c
      BY DEF BlockId, TxnId
    <3>2. \A u \in txns : u[1] # c
      BY ZenonT(60), <2>3, NoTxnAssumption DEF TxnId
    <3>3. o = Out(c, TRUE, t, txns \cup {t}, tables)
      BY ZenonT(60), <2>1, <2>3 DEF ExecBegin
    <3>4. o.ok /\ o.txn = t /\ o.txns = txns \cup {t}
      BY ZenonT(60), <3>3 DEF Out
    <3> HIDE DEF t
    <3>5. QED BY ZenonT(60), <3>1, <3>2, <3>4, <1>1, <1>4
  <2>4. QED BY ZenonT(60), <2>2, <2>3
<1>5. CASE q = "commit"
  <2> DEFINE t == current_txn_id[c]
  <2>1. o \in ExecCommit(c)
    BY ZenonT(60), <1>5 DEF Execute
  <2>2. CASE t = NoTxn
    <3>1. o = Unchanged(c, FALSE)
      BY ZenonT(60), <2>1, <2>2 DEF ExecCommit
    <3>2. QED BY ZenonT(60), <3>1, <2>2, <1>1, <1>5 DEF Unchanged, Out
  <2>3. CASE t # NoTxn
    <3>1. o = Out(c, TRUE, NoTxn, txns \ {t}, tables) \/ o = Out(c, FALSE, t, txns \ {t}, tables)
      BY ZenonT(60), <2>1, <2>3 DEF ExecCommit
    <3>2. /\ o.txns = txns \ {t}
          /\ (o.ok /\ o.txn = NoTxn) \/ (~o.ok /\ o.txn = t)
      <4>1. CASE o = Out(c, TRUE, NoTxn, txns \ {t}, tables)
        BY ZenonT(60), <4>1 DEF Out
      <4>2. CASE o = Out(c, FALSE, t, txns \ {t}, tables)
        BY ZenonT(60), <4>2 DEF Out
      <4>3. QED BY ZenonT(60), <3>1, <4>1, <4>2
    <3>3. QED BY ZenonT(60), <3>2, <2>3, <1>1
  <2>4. QED BY ZenonT(60), <2>2, <2>3
<1>6. CASE q = "rollback"
  <2>1. o = Out(c, TRUE, NoTxn, txns \ {current_txn_id[c]}, tables)
    BY ZenonT(60), <1>6 DEF Execute, ExecRollback
  <2>2. /\ o.txns = txns \ {current_txn_id[c]}
        /\ o.ok /\ o.txn = NoTxn
    BY ZenonT(60), <2>1 DEF Out
  <2>3. QED BY ZenonT(60), <2>2, <1>1, NoTxnAssumption DEF TxnId
<1>7. QED BY ZenonT(60), <1>2, <1>3, <1>4, <1>5, <1>6 DEF Statement

-----------------------------------------------------------------------------
(* What a statement does to the sessions. *)

\* A step in which only the session of c acts on its block leaves the others
\* where they are.
Others(c) ==
  /\ \A t \in TxnId : t[1] # c => (t \in txns' <=> t \in txns)
  /\ \A d \in Conn \ {c} :
       /\ current_txn_id'[d] = current_txn_id[d]
       /\ txn_failed'[d] = txn_failed[d] /\ erred'[d] = erred[d]

BlockType ==
  /\ txns \subseteq TxnId
  /\ current_txn_id \in [Conn -> TxnId \cup {NoTxn}]
  /\ txn_failed \in [Conn -> BOOLEAN] /\ erred \in [Conn -> BOOLEAN]
  /\ begun \in [Conn -> Nat] /\ unclean \in BOOLEAN

\* An error answer fails the block of the session that gets it.
LEMMA RefuseKeeps ==
  ASSUME SessionTypeOK, NEW c \in Conn, Block(c), NEW t,
         Refuse(c, t), UNCHANGED <<current_txn_id, txns>>,
         t = current_txn_id[c] \/ txn_failed[c]
  PROVE  /\ txn_failed' \in [Conn -> BOOLEAN] /\ erred' \in [Conn -> BOOLEAN]
         /\ Block(c)' /\ Others(c)
         /\ txn_failed'[c] \/ current_txn_id[c] = NoTxn
BY ZenonT(60) DEF SessionTypeOK, Block, Refuse, Others

\* ProcessSingle keeps its session and the coordinator in step, commits no
\* failed block and leaves the other sessions alone.
LEMMA ProcessSingleKeeps ==
  ASSUME SessionTypeOK, ~unclean, NEW c \in Conn, Block(c), Held(c),
         NEW q \in Statement, ProcessSingle(c, q)
  PROVE  BlockType' /\ ~unclean' /\ Block(c)' /\ Held(c)' /\ Others(c)
<1>1. CASE /\ q = "bad"
           /\ Refuse(c, current_txn_id[c])
           /\ UNCHANGED <<current_txn_id, begun, unclean, sharedVars>>
  BY ZenonT(60), <1>1, RefuseKeeps DEF SessionTypeOK, BlockType, Held, sharedVars
<1>2. CASE /\ q # "bad" /\ txn_failed[c] /\ q # "rollback"
           /\ Refuse(c, NoTxn)
           /\ UNCHANGED <<current_txn_id, begun, unclean, sharedVars>>
  BY ZenonT(60), <1>2, RefuseKeeps DEF SessionTypeOK, BlockType, Held, sharedVars
<1>3. CASE q # "bad" /\ (txn_failed[c] => q = "rollback") /\ ExecuteAndNote(c, q)
  <2>1. PICK o \in Execute(c, q) :
          /\ current_txn_id' = [current_txn_id EXCEPT ![c] = o.txn]
          /\ txns' = o.txns /\ tables' = o.tables
          /\ begun' = [begun EXCEPT ![c] = IF o.ok /\ q = "begin" THEN @ + 1 ELSE @]
          /\ unclean' = (unclean \/ (o.ok /\ q = "commit" /\ erred[c]))
          /\ IF o.ok
               THEN LET ends == q \in {"commit", "rollback"} IN
                    /\ txn_failed' = [txn_failed EXCEPT ![c] = @ /\ ~ends]
                    /\ erred' = [erred EXCEPT ![c] = @ /\ ~ends]
               ELSE Refuse(c, o.txn)
    BY ZenonT(60), <1>3 DEF ExecuteAndNote
  <2>2. /\ o.txn \in TxnId \cup {NoTxn} /\ o.txns \subseteq TxnId
        /\ \A t \in TxnId : t[1] # c => (t \in o.txns <=> t \in txns)
        /\ \A t \in o.txns : t[1] = c => t = o.txn
        /\ o.txn # NoTxn => o.txn[1] = c
        /\ ~o.ok => o.txn = current_txn_id[c]
        /\ o.ok /\ q \in {"commit", "rollback"} => o.txn = NoTxn
        /\ o.ok /\ Held(c) /\ o.txn # NoTxn /\ ~txn_failed[c] => o.txn \in o.txns
    BY ZenonT(60), <1>3, ExecuteOutcome
  <2>3. /\ txns' \subseteq TxnId /\ current_txn_id' \in [Conn -> TxnId \cup {NoTxn}]
        /\ current_txn_id'[c] = o.txn
        /\ \A d \in Conn \ {c} : current_txn_id'[d] = current_txn_id[d]
        /\ begun' \in [Conn -> Nat]
    BY <2>1, <2>2 DEF SessionTypeOK
  <2>4. unclean' \in BOOLEAN /\ ~unclean'
    BY ZenonT(60), <1>3, <2>1 DEF SessionTypeOK, Block
  <2>5. CASE o.ok
    <3> DEFINE ends == q \in {"commit", "rollback"}
    <3>1. /\ txn_failed' = [txn_failed EXCEPT ![c] = @ /\ ~ends]
          /\ erred' = [erred EXCEPT ![c] = @ /\ ~ends]
      BY ZenonT(60), <2>1, <2>5
    <3>2. /\ txn_failed' \in [Conn -> BOOLEAN] /\ erred' \in [Conn -> BOOLEAN]
          /\ txn_failed'[c] <=> txn_failed[c] /\ ~ends
          /\ erred'[c] <=> erred[c] /\ ~ends
          /\ \A d \in Conn \ {c} : txn_failed'[d] = txn_failed[d] /\ erred'[d] = erred[d]
      BY ZenonT(60), <3>1 DEF SessionTypeOK
    <3>3. ~txn_failed'[c] /\ ~erred'[c]
      BY ZenonT(60), <3>2, <1>3 DEF Block
    <3>4. txn_failed[c] => o.txn = NoTxn
      BY ZenonT(60), <1>3, <2>2, <2>5
    <3>5. Block(c)' /\ Held(c)'
      BY ZenonT(60), <2>1, <2>2, <2>3, <2>5, <3>3, <3>4 DEF Block, Held
    <3>6. Others(c)
      BY ZenonT(60), <2>1, <2>2, <2>3, <3>2 DEF Others
    <3>7. QED BY ZenonT(60), <2>3, <2>4, <3>2, <3>5, <3>6 DEF BlockType
  <2>6. CASE ~o.ok
    <3>1. Refuse(c, o.txn) /\ o.txn = current_txn_id[c]
      BY ZenonT(60), <2>1, <2>2, <2>6
    <3>2. /\ txn_failed' \in [Conn -> BOOLEAN] /\ erred' \in [Conn -> BOOLEAN]
          /\ txn_failed'[c] <=> txn_failed[c] \/ o.txn # NoTxn
          /\ erred'[c] <=> erred[c] \/ o.txn # NoTxn
          /\ \A d \in Conn \ {c} : txn_failed'[d] = txn_failed[d] /\ erred'[d] = erred[d]
      BY ZenonT(60), <3>1 DEF SessionTypeOK, Refuse
    <3>3. Block(c)' /\ Held(c)'
      BY ZenonT(60), <2>1, <2>2, <2>3, <3>1, <3>2 DEF Block, Held
    <3>4. Others(c)
      BY ZenonT(60), <2>1, <2>2, <2>3, <3>2 DEF Others
    <3>5. QED BY ZenonT(60), <2>3, <2>4, <3>2, <3>3, <3>4 DEF BlockType
  <2>7. QED BY ZenonT(60), <2>5, <2>6
<1>4. QED BY ZenonT(60), <1>1, <1>2, <1>3 DEF ProcessSingle

\* Another session's block and phase stay when only c acts.
LEMMA OthersKeep ==
  ASSUME SessionTypeOK, BlockType', NEW c \in Conn, Others(c),
         NEW d \in Conn \ {c}, Block(d) /\ Phase(d),
         worker'[d] = worker[d], todo'[d] = todo[d], ready'[d] = ready[d],
         accepted' = accepted
  PROVE  Block(d)' /\ Phase(d)'
<1>1. Block(d)'
  BY DEF Block, Others, BlockType, SessionTypeOK
<1>2. Held(d) => Held(d)'
  <2>1. CASE current_txn_id[d] = NoTxn
    BY ZenonT(60), <2>1 DEF Others, Held
  <2>2. CASE current_txn_id[d] # NoTxn
    BY ZenonT(60), <2>2 DEF Others, Held, Block, SessionTypeOK
  <2>3. QED BY ZenonT(60), <2>1, <2>2
<1>3. Phase(d)'
  BY ZenonT(60), <1>2 DEF Phase, Others
<1>4. QED BY ZenonT(60), <1>1, <1>3

-----------------------------------------------------------------------------
(* The invariant of the sessions. *)

\* Where the invariant depends on the step only through these variables.
inVars == <<worker, accepted, txns, sessionVars>>

LEMMA SameInvariant ==
  ASSUME SessionInv, UNCHANGED inVars
  PROVE  SessionInv'
BY DEF SessionInv, SessionTypeOK, Block, Phase, Held, inVars, sessionVars, blockVars, protoVars

\* A step that leaves blocks and the coordinator alone has to keep the types and
\* the phases.
LEMMA SameBlocks ==
  ASSUME SessionInv, UNCHANGED <<txns, blockVars>>,
         SessionTypeOK', \A c \in Conn : Phase(c)'
  PROVE  SessionInv'
BY ZenonT(60) DEF SessionInv, Block, blockVars

\* The server's own steps: only accepting a connection, giving it a worker and
\* the worker's end touch what the invariant is about.
LEMMA ServerKeeps ==
  ASSUME SessionInv, ServerStep
  PROVE  SessionInv'
<1>1. ASSUME Start \/ ListSocket \/ AcceptEnds \/ StopBegins \/ StopShutsDown
               \/ StopJoinsAccept \/ StopReturns
      PROVE  SessionInv'
  <2>1. UNCHANGED inVars
    BY ZenonT(60), <1>1 DEF Start, ListSocket, AcceptEnds, StopBegins, StopShutsDown,
                StopJoinsAccept, StopReturns, inVars, sharedVars
  <2>2. QED BY ZenonT(60), <2>1, SameInvariant
<1>2. ASSUME NEW c \in Conn, Connect(c) \/ Leave(c)
      PROVE  SessionInv'
  <2>1. UNCHANGED inVars
    BY ZenonT(60), <1>2 DEF Connect, Leave, inVars, sharedVars
  <2>2. QED BY ZenonT(60), <2>1, SameInvariant
<1>3. CASE Spawn
  <2>1. UNCHANGED <<txns, blockVars, protoVars, todo, ready>>
    BY ZenonT(60), <1>3 DEF Spawn, sharedVars, sessionVars
  <2>2. SessionTypeOK'
    BY ZenonT(60), <1>3, <2>1 DEF SessionInv, SessionTypeOK, Spawn, NoConn, blockVars, protoVars
  <2>3. ASSUME NEW c \in Conn PROVE Phase(c)'
    BY ZenonT(60), <1>3, <2>1 DEF SessionInv, SessionTypeOK, Phase, Held, Spawn, NoConn, blockVars
  <2>4. QED BY ZenonT(60), <2>1, <2>2, <2>3, SameBlocks
<1>4. ASSUME NEW c \in Conn, Accept(c)
      PROVE  SessionInv'
  <2>1. UNCHANGED <<txns, blockVars, protoVars, todo, ready>>
    BY ZenonT(60), <1>4 DEF Accept, sharedVars, sessionVars
  <2>2. SessionTypeOK'
    BY ZenonT(60), <1>4, <2>1 DEF SessionInv, SessionTypeOK, Accept, blockVars, protoVars
  <2>3. ASSUME NEW d \in Conn PROVE Phase(d)'
    BY ZenonT(60), <1>4, <2>1 DEF SessionInv, SessionTypeOK, Phase, Held, Accept, blockVars
  <2>4. QED BY ZenonT(60), <2>1, <2>2, <2>3, SameBlocks
<1>5. ASSUME NEW c \in Conn, WorkerEnds(c)
      PROVE  SessionInv'
  <2>1. UNCHANGED <<txns, blockVars, protoVars, todo, ready, accepted>>
    BY ZenonT(60), <1>5 DEF WorkerEnds, sharedVars, sessionVars
  <2>2. SessionTypeOK'
    BY ZenonT(60), <1>5, <2>1 DEF SessionInv, SessionTypeOK, WorkerEnds, blockVars, protoVars
  <2>3. ASSUME NEW d \in Conn PROVE Phase(d)'
    BY ZenonT(60), <1>5, <2>1 DEF SessionInv, SessionTypeOK, Phase, Held, WorkerEnds, blockVars
  <2>4. QED BY ZenonT(60), <2>1, <2>2, <2>3, SameBlocks
<1>6. QED BY ZenonT(60), <1>1, <1>2, <1>3, <1>4, <1>5 DEF ServerStep

\* An answer that ends a query tells the state of the session: c's phase follows
\* from its block.
LEMMA IndicatorPhase ==
  ASSUME NEW c \in Conn, SessionTypeOK, worker'[c] = "run", c \notin accepted',
         Block(c)', Held(c)', todo'[c] = <<>>, ready'[c] = TxnIndicator(c)
  PROVE  Phase(c)'
BY ZenonT(60) DEF Phase, Block, TxnIndicator

\* The steps of a session that run no statement.
LEMMA QuietKeeps ==
  ASSUME SessionInv, NEW c \in Conn,
         \/ Startup(c) \/ EmptyQuery(c) \/ HandleSync(c)
         \/ \E qs \in Query[c] : SimpleQuery(c, qs)
         \/ \E name \in StmtName :
              \/ \E q \in Prepared : HandleParse(c, name, q)
              \/ \E portal \in StmtName : HandleBind(c, portal, name)
              \/ \E kind \in {"S", "P"} : HandleClose(c, kind, name)
  PROVE  SessionInv'
<1> USE DEF SessionInv
<1>1. CASE Startup(c)
  <2>1. UNCHANGED <<txns, blockVars, protoVars, todo, accepted>>
    BY ZenonT(60), <1>1 DEF Startup, sharedVars
  <2>2. SessionTypeOK'
    BY ZenonT(60), <1>1, <2>1 DEF SessionTypeOK, Startup, blockVars, protoVars
  <2>3. ASSUME NEW d \in Conn PROVE Phase(d)'
    BY <1>1, <2>1 DEF SessionTypeOK, Phase, Held, Startup, blockVars
  <2>4. QED BY ZenonT(60), <2>1, <2>2, <2>3, SameBlocks
<1>2. CASE EmptyQuery(c) \/ HandleSync(c)
  <2>1. /\ UNCHANGED <<txns, blockVars, protoVars, todo, worker, accepted>>
        /\ ready' = [ready EXCEPT ![c] = TxnIndicator(c)]
        /\ worker[c] = "run" /\ todo[c] = <<>>
    BY ZenonT(60), <1>2 DEF EmptyQuery, HandleSync, Receives, Idle, sharedVars, serverVars
  <2>2. TxnIndicator(c) \in {"I", "T", "E"}
    BY ZenonT(60) DEF TxnIndicator
  <2>3. SessionTypeOK'
    BY ZenonT(60), <2>1, <2>2 DEF SessionTypeOK, blockVars, protoVars
  <2>4. ASSUME NEW d \in Conn PROVE Phase(d)'
    <3>1. CASE d = c
      <4>1. Block(c)' /\ Held(c)' /\ worker'[c] = "run" /\ todo'[c] = <<>>
        BY ZenonT(60), <2>1 DEF Phase, Block, Held, blockVars
      <4>2. c \notin accepted' /\ ready'[c] = TxnIndicator(c)
        BY ZenonT(60), <2>1 DEF Phase, SessionTypeOK
      <4>3. QED BY ZenonT(60), <3>1, <4>1, <4>2, IndicatorPhase
    <3>2. CASE d # c
      BY ZenonT(60), <3>2, <2>1 DEF SessionTypeOK, Phase, Held, blockVars
    <3>3. QED BY ZenonT(60), <3>1, <3>2
  <2>5. QED BY ZenonT(60), <2>1, <2>3, <2>4, SameBlocks
<1>3. ASSUME NEW qs \in Query[c], SimpleQuery(c, qs)
      PROVE  SessionInv'
  <2>1. /\ UNCHANGED <<txns, blockVars, protoVars, worker, accepted>>
        /\ ready' = [ready EXCEPT ![c] = "none"] /\ todo' = [todo EXCEPT ![c] = qs]
        /\ worker[c] = "run"
    BY ZenonT(60), <1>3 DEF SimpleQuery, Receives, Idle, sharedVars, serverVars
  <2>2. qs \in Seq(Statement)
    BY ZenonT(60), PgAssumption
  <2>3. SessionTypeOK'
    BY ZenonT(60), <2>1, <2>2 DEF SessionTypeOK, blockVars, protoVars
  <2>4. ASSUME NEW d \in Conn PROVE Phase(d)'
    BY ZenonT(60), <2>1 DEF SessionTypeOK, Phase, Held, blockVars
  <2>5. QED BY ZenonT(60), <2>1, <2>3, <2>4, SameBlocks
<1>4. ASSUME NEW name \in StmtName,
             \/ \E q \in Prepared : HandleParse(c, name, q)
             \/ \E portal \in StmtName : HandleBind(c, portal, name)
             \/ \E kind \in {"S", "P"} : HandleClose(c, kind, name)
      PROVE  SessionInv'
  <2> DEFINE Kept == [StmtName -> Statement \cup {NoQuery}]
  <2>1. /\ UNCHANGED <<txns, blockVars, todo, worker, accepted>>
        /\ ready' = [ready EXCEPT ![c] = "none"]
        /\ worker[c] = "run"
    BY ZenonT(60), <1>4 DEF HandleParse, HandleBind, HandleClose, Receives, Idle, Answers,
                sharedVars, serverVars
  <2>2. prepared_stmts' \in [Conn -> Kept] /\ portals' \in [Conn -> Kept]
    <3>1. prepared_stmts \in [Conn -> Kept] /\ portals \in [Conn -> Kept]
      BY ZenonT(60) DEF SessionTypeOK
    <3>2. ASSUME NEW q \in Prepared, HandleParse(c, name, q) PROVE <2>2!1 /\ <2>2!2
      BY ZenonT(60), <3>1, <3>2, PgAssumption DEF HandleParse
    <3>3. ASSUME NEW portal \in StmtName, HandleBind(c, portal, name) PROVE <2>2!1 /\ <2>2!2
      BY ZenonT(60), <3>1, <3>3 DEF HandleBind, Lookup, StmtName
    <3>4. ASSUME NEW kind \in {"S", "P"}, HandleClose(c, kind, name) PROVE <2>2!1 /\ <2>2!2
      <4>1. CASE kind = "S"
        BY <3>1, <3>4, <4>1 DEF HandleClose
      <4>2. CASE kind = "P"
        BY <3>1, <3>4, <4>2 DEF HandleClose
      <4>3. QED BY ZenonT(60), <3>4, <4>1, <4>2
    <3>5. QED BY ZenonT(60), <1>4, <3>2, <3>3, <3>4
  <2>3. SessionTypeOK'
    BY ZenonT(60), <2>1, <2>2 DEF SessionTypeOK, blockVars
  <2>4. ASSUME NEW d \in Conn PROVE Phase(d)'
    BY ZenonT(60), <2>1 DEF SessionTypeOK, Phase, Held, blockVars
  <2>5. QED BY ZenonT(60), <2>1, <2>3, <2>4, SameBlocks
<1>5. QED BY ZenonT(60), <1>1, <1>2, <1>3, <1>4

\* A session ends between two messages; what it leaves behind is its block.
LEMMA SessionEndsKeeps ==
  ASSUME SessionInv, NEW c \in Conn, SessionEnds(c)
  PROVE  SessionInv'
<1> USE DEF SessionInv
<1>1. /\ UNCHANGED <<txns, current_txn_id, begun, unclean, todo, accepted>>
      /\ worker' = [worker EXCEPT ![c] = "ended"]
      /\ prepared_stmts' = [prepared_stmts EXCEPT ![c] = [n \in StmtName |-> NoQuery]]
      /\ portals' = [portals EXCEPT ![c] = [n \in StmtName |-> NoQuery]]
      /\ txn_failed' = [txn_failed EXCEPT ![c] = FALSE]
      /\ erred' = [erred EXCEPT ![c] = FALSE]
      /\ ready' = [ready EXCEPT ![c] = "none"]
      /\ worker[c] = "startup" \/ (worker[c] = "run" /\ todo[c] = <<>>)
  BY ZenonT(60) DEF SessionEnds, Answers, Idle, sharedVars
<1>2. SessionTypeOK'
  BY ZenonT(60), <1>1 DEF SessionTypeOK
<1>3. ASSUME NEW d \in Conn PROVE Block(d)' /\ Phase(d)'
  <2>1. CASE d = c
    BY ZenonT(60), <1>1, <2>1 DEF SessionTypeOK, Block, Phase
  <2>2. CASE d # c
    BY ZenonT(60), <1>1, <2>2 DEF SessionTypeOK, Block, Phase, Held
  <2>3. QED BY ZenonT(60), <2>1, <2>2
<1>4. QED BY ZenonT(60), <1>1, <1>2, <1>3

\* A statement of a simple query.
LEMMA SimpleQueryStepKeeps ==
  ASSUME SessionInv, NEW c \in Conn, SimpleQueryStep(c)
  PROVE  SessionInv'
<1> USE DEF SessionInv
<1>1. /\ worker[c] = "run" /\ todo[c] # <<>> /\ ready[c] = "none" /\ c \notin accepted
      /\ Block(c) /\ Held(c) /\ todo[c] \in Seq(Statement)
  BY ZenonT(60) DEF SimpleQueryStep, Phase, SessionTypeOK
<1>2. UNCHANGED <<protoVars, worker, accepted>>
  BY ZenonT(60) DEF SimpleQueryStep, serverVars
<1>3. Head(todo[c]) \in Statement /\ ProcessSingle(c, Head(todo[c]))
  BY <1>1 DEF SimpleQueryStep
<1>4. BlockType' /\ ~unclean' /\ Block(c)' /\ Held(c)' /\ Others(c)
  BY ZenonT(60), <1>1, <1>3, ProcessSingleKeeps
<1>5. /\ todo' \in [Conn -> Seq(Statement)]
      /\ \A d \in Conn \ {c} : todo'[d] = todo[d]
  <2>1. \E rest \in Seq(Statement) : todo' = [todo EXCEPT ![c] = rest]
    <3>1. Tail(todo[c]) \in Seq(Statement) /\ <<>> \in Seq(Statement)
      BY <1>1
    <3>2. todo' = [todo EXCEPT ![c] = Tail(todo[c])] \/ todo' = [todo EXCEPT ![c] = <<>>]
      BY ZenonT(60) DEF SimpleQueryStep
    <3>3. QED BY ZenonT(60), <3>1, <3>2
  <2>2. QED BY ZenonT(60), <2>1 DEF SessionTypeOK
<1>6. TxnIndicator(c) \in {"I", "T", "E"}
  BY ZenonT(60) DEF TxnIndicator
<1>7. /\ ready' \in [Conn -> {"none", "I", "T", "E"}]
      /\ \A d \in Conn \ {c} : ready'[d] = ready[d]
      /\ ready'[c] = IF todo'[c] = <<>> THEN TxnIndicator(c) ELSE "none"
  BY ZenonT(60), <1>1, <1>6 DEF SimpleQueryStep, SessionTypeOK
<1>8. SessionTypeOK'
  BY ZenonT(60), <1>2, <1>4, <1>5, <1>7 DEF SessionTypeOK, BlockType, protoVars
<1>9. Phase(c)'
  <2>1. CASE todo'[c] = <<>>
    BY ZenonT(60), <2>1, <1>1, <1>2, <1>4, <1>7, IndicatorPhase
  <2>2. CASE todo'[c] # <<>>
    BY ZenonT(60), <2>2, <1>1, <1>2, <1>4, <1>7 DEF Phase
  <2>3. QED BY ZenonT(60), <2>1, <2>2
<1>10. ASSUME NEW d \in Conn, d # c PROVE Block(d)' /\ Phase(d)'
  BY ZenonT(60), <1>2, <1>4, <1>5, <1>7, <1>10, OthersKeep
<1>11. QED BY ZenonT(60), <1>4, <1>8, <1>9, <1>10

\* A statement of the extended protocol: Execute runs it as a simple query
\* would, Describe only if it is a SELECT and without noting the outcome.
LEMMA ExecuteKeeps ==
  ASSUME SessionInv, NEW c \in Conn, NEW name \in StmtName,
         HandleDescribe(c, name) \/ HandleExecute(c, name)
  PROVE  SessionInv'
<1> USE DEF SessionInv
<1>1. /\ worker[c] = "run" /\ todo[c] = <<>> /\ c \notin accepted /\ Block(c) /\ Held(c)
      /\ ready' = [ready EXCEPT ![c] = "none"]
      /\ UNCHANGED <<todo, protoVars, worker, accepted>>
  BY ZenonT(60) DEF HandleDescribe, HandleExecute, Receives, Idle, Answers, Phase, serverVars
<1>2. /\ ready' \in [Conn -> {"none", "I", "T", "E"}] /\ ready'[c] = "none"
      /\ \A d \in Conn \ {c} : ready'[d] = ready[d]
  BY ZenonT(60), <1>1 DEF SessionTypeOK
<1>3. BlockType' /\ ~unclean' /\ Block(c)' /\ Held(c)' /\ Others(c)
  <2>1. ASSUME UNCHANGED <<txns, blockVars>>
        PROVE  <1>3
    BY ZenonT(60), <1>1, <2>1 DEF SessionTypeOK, BlockType, Block, Held, Others, blockVars
  <2>2. CASE HandleDescribe(c, name)
    <3>1. UNCHANGED blockVars
      BY ZenonT(60), <2>2 DEF HandleDescribe
    <3>2. txns' = txns
      <4>1. ASSUME NEW o \in ExecRow(c) PROVE o.txns = txns
        BY ZenonT(60), <1>1, RowOutcome
      <4>2. QED BY ZenonT(60), <2>2, <4>1 DEF HandleDescribe
    <3>3. QED BY ZenonT(60), <3>1, <3>2, <2>1
  <2>3. CASE HandleExecute(c, name)
    <3> DEFINE q == Lookup(portals[c], name)
    <3>1. q \in Statement \cup {NoQuery}
      <4>1. portals[c] \in [StmtName -> Statement \cup {NoQuery}]
        BY ZenonT(60) DEF SessionTypeOK
      <4>2. "" \in StmtName
        BY ZenonT(60) DEF StmtName
      <4>3. QED BY ZenonT(60), <4>1, <4>2 DEF Lookup
    <3>2. CASE q = NoQuery
      BY ZenonT(60), <2>1, <2>3, <3>2 DEF HandleExecute, sharedVars
    <3>3. CASE q # NoQuery
      <4>1. ProcessSingle(c, q) /\ q \in Statement
        BY ZenonT(60), <2>3, <3>1, <3>3 DEF HandleExecute
      <4> HIDE DEF q
      <4>2. QED BY ZenonT(60), <1>1, <4>1, ProcessSingleKeeps
    <3>4. QED BY ZenonT(60), <3>2, <3>3
  <2>4. QED BY ZenonT(60), <2>2, <2>3
<1>4. SessionTypeOK'
  BY ZenonT(60), <1>1, <1>2, <1>3 DEF SessionTypeOK, BlockType, protoVars
<1>5. Phase(c)'
  BY ZenonT(60), <1>1, <1>2, <1>3 DEF Phase
<1>6. ASSUME NEW d \in Conn, d # c PROVE Block(d)' /\ Phase(d)'
  BY ZenonT(60), <1>1, <1>2, <1>3, <1>6, OthersKeep
<1>7. QED BY ZenonT(60), <1>3, <1>4, <1>5, <1>6

LEMMA SessionInitial == PgInit => SessionInv
<1> SUFFICES ASSUME PgInit PROVE SessionInv
  BY ZenonT(60)
<1>1. SessionTypeOK
  <2>1. <<>> \in Seq(Statement)
    OBVIOUS
  <2>2. QED BY ZenonT(60), <2>1 DEF PgInit, SessionTypeOK, NoConn
<1>2. ASSUME NEW c \in Conn PROVE Block(c) /\ Phase(c)
  BY ZenonT(60) DEF PgInit, Block, Phase, Held, NoConn
<1>3. QED BY ZenonT(60), <1>1, <1>2 DEF PgInit, SessionInv

LEMMA SessionInductive == SessionInv /\ [PgNext]_pgVars => SessionInv'
<1> SUFFICES ASSUME SessionInv, [PgNext]_pgVars PROVE SessionInv'
  BY ZenonT(60)
<1>1. CASE ServerStep
  BY ZenonT(60), <1>1, ServerKeeps
<1>2. CASE SimpleStep
  BY ZenonT(60), <1>2, QuietKeeps, SessionEndsKeeps, SimpleQueryStepKeeps DEF SimpleStep
<1>3. CASE ExtendedStep
  <2>1. PICK c \in Extended :
          \/ HandleSync(c)
          \/ \E name \in StmtName :
               \/ \E q \in Prepared : HandleParse(c, name, q)
               \/ \E portal \in StmtName : HandleBind(c, portal, name)
               \/ HandleDescribe(c, name)
               \/ HandleExecute(c, name)
               \/ \E kind \in {"S", "P"} : HandleClose(c, kind, name)
    BY ZenonT(60), <1>3 DEF ExtendedStep
  <2>2. c \in Conn
    BY ZenonT(60), PgAssumption
  <2>3. QED BY ZenonT(60), <2>1, <2>2, QuietKeeps, ExecuteKeeps
<1>4. CASE UNCHANGED pgVars
  BY ZenonT(60), <1>4, SameInvariant DEF pgVars, serverVars, sharedVars, inVars
<1>5. QED BY ZenonT(60), <1>1, <1>2, <1>3, <1>4 DEF PgNext

\* What ReadyForQuery told a client is true of the coordinator's table of
\* transactions, whatever queries, failures and disconnections came before
\* (TxnIndicator, ProcessSingle).
THEOREM IndicatorIsAlwaysTrue == PgSpec => []IndicatorIsTrue
<1>1. SessionInv => IndicatorIsTrue
  BY NoTxnAssumption DEF SessionInv, SessionTypeOK, Block, Phase, Held, IndicatorIsTrue, TxnId
<1>2. QED BY <1>1, SessionInitial, SessionInductive, PTL DEF PgSpec

\* COMMIT never commits a block one of whose statements was refused
\* (txn_failed_).
THEOREM CommittedIsAlwaysClean == PgSpec => []CommittedIsClean
<1>1. SessionInv => CommittedIsClean
  BY ZenonT(60) DEF SessionInv, CommittedIsClean
<1>2. QED BY <1>1, SessionInitial, SessionInductive, PTL DEF PgSpec

\* The only transactions the coordinator keeps are the blocks that sessions are
\* in or ended in: no failing statement leaves one behind.
THEOREM LeftoversAreExplained == PgSpec => []LeftoversExplained
<1>1. SessionInv => LeftoversExplained
  BY ZenonT(60) DEF SessionInv, SessionTypeOK, Block, LeftoversExplained, TxnId
<1>2. QED BY <1>1, SessionInitial, SessionInductive, PTL DEF PgSpec

-----------------------------------------------------------------------------
(* Stop *)

LEMMA StopInitial == PgInit => StopInv
BY ZenonT(60) DEF PgInit, StopInv

\* Once the accept thread is joined no worker is started any more, so that the
\* workers that Stop joins are all there are.
LEMMA StopInductive == SessionInv /\ StopInv /\ [PgNext]_pgVars => StopInv'
<1> SUFFICES ASSUME SessionInv, StopInv, [PgNext]_pgVars PROVE StopInv'
  BY ZenonT(60)
<1> USE DEF StopInv
<1>1. ASSUME Start \/ ListSocket \/ Spawn \/ AcceptEnds \/ StopBegins \/ StopShutsDown
               \/ StopJoinsAccept \/ StopReturns
      PROVE  StopInv'
  BY ZenonT(60), <1>1 DEF Start, ListSocket, Spawn, AcceptEnds, StopBegins, StopShutsDown,
              StopJoinsAccept, StopReturns
<1>2. ASSUME NEW c \in Conn, Connect(c) \/ Leave(c) \/ Accept(c) \/ WorkerEnds(c)
      PROVE  StopInv'
  BY ZenonT(60), <1>2 DEF SessionInv, SessionTypeOK, Connect, Leave, Accept, WorkerEnds
<1>3. CASE SimpleStep
  <2>1. PICK c \in Conn :
          \/ Startup(c) \/ SessionEnds(c) \/ EmptyQuery(c) \/ SimpleQueryStep(c)
          \/ \E qs \in Query[c] : SimpleQuery(c, qs)
    BY ZenonT(60), <1>3 DEF SimpleStep
  <2>2. CASE Startup(c) \/ SessionEnds(c)
    BY ZenonT(60), <2>2 DEF SessionInv, SessionTypeOK, Startup, SessionEnds, Idle
  <2>3. CASE EmptyQuery(c) \/ SimpleQueryStep(c) \/ \E qs \in Query[c] : SimpleQuery(c, qs)
    BY ZenonT(60), <2>3 DEF EmptyQuery, SimpleQueryStep, SimpleQuery, serverVars
  <2>4. QED BY ZenonT(60), <2>1, <2>2, <2>3
<1>4. CASE ExtendedStep
  <2>1. UNCHANGED serverVars
    BY ZenonT(60), <1>4 DEF ExtendedStep, HandleSync, HandleParse, HandleBind, HandleDescribe,
                HandleExecute, HandleClose
  <2>2. QED BY ZenonT(60), <2>1 DEF serverVars
<1>5. CASE UNCHANGED pgVars
  BY ZenonT(60), <1>5 DEF pgVars, serverVars
<1>6. QED BY ZenonT(60), <1>1, <1>2, <1>3, <1>4, <1>5 DEF PgNext, ServerStep

\* When Stop has returned no thread of the server is left (the order in which
\* it joins the accept thread and the workers).
THEOREM StoppedIsAlwaysQuiet == PgSpec => []StoppedIsQuiet
<1>1. StopInv => StoppedIsQuiet
  BY ZenonT(60) DEF StopInv, StoppedIsQuiet
<1>2. QED
  BY <1>1, StopInitial, StopInductive, SessionInitial, SessionInductive, PTL DEF PgSpec
=============================================================================
