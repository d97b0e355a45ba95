------------------------------ MODULE PgSession ------------------------------
(***************************************************************************)
(* The PostgreSQL wire server: pgwire/pgwire_server.cpp, with the          *)
(* transaction control of coordinator/executor.cpp, the table catalog and  *)
(* the table txns_ of coordinator/coordinator.cpp that it works on.        *)
(*                                                                         *)
(* PgWireServer runs an accept thread and one worker thread per connection *)
(* and Stop, called by the main thread, ends them.  A worker runs a        *)
(* PgSession: it reads a message, handles it and answers.  A session acts  *)
(* on what others can see only in ProcessSingle, so an action is one       *)
(* statement, or one message that holds none.                              *)
(*                                                                         *)
(* Abstraction: a statement is its kind; which rows it touches and why it  *)
(* fails are in Executor, TxnManager and Coordinator, here a statement may *)
(* fail whenever the code lets it.  An answer is what the client learns of *)
(* the transaction: an error, or the status that ReadyForQuery carries.    *)
(***************************************************************************)
EXTENDS Naturals, Sequences, FiniteSets

CONSTANTS
  Conn,        \* connections that clients make
  Query,       \* the simple queries, as sequences of statements, of each client
  Extended,    \* the connections whose clients use the extended protocol
  Prepared,    \* the queries that Parse is sent
  MaxBlocks,   \* bound on BEGINs per connection
  NoTxn,       \* current_txn_id_ = 0
  NoQuery      \* no statement or portal under that name

\* "bad" does not parse, "write" is INSERT, UPDATE or DELETE.
Statement == {"bad", "create", "write", "select", "begin", "commit", "rollback"}
StmtName == {"", "s"}

ASSUME PgAssumption ==
  /\ Extended \subseteq Conn /\ Prepared \subseteq Statement /\ MaxBlocks \in Nat
  /\ \A c \in Conn : \A qs \in Query[c] : qs \in Seq(Statement) /\ qs # <<>>
ASSUME NoTxnAssumption == NoTxn \notin Conn \X Nat

VARIABLES
  client,          \* each client: away, waiting, on, gone
  running,         \* running_
  acceptor,        \* where the accept thread is
  accepted,        \* the connection it holds, or none
  client_sockets,  \* client_sockets_
  worker,          \* where each worker thread is
  stop,            \* where the thread that calls Stop is
  txns,            \* Coordinator::txns_
  tables,          \* does the catalog have the table?
  current_txn_id,  \* PgSession::current_txn_id_
  txn_failed,      \* PgSession::txn_failed_
  prepared_stmts,  \* PgSession::prepared_stmts_
  portals,         \* PgSession::portals_
  todo,            \* statements of a simple query still to run
  ready,           \* what the last answer, if it was ReadyForQuery, said
  begun,           \* BEGINs so far
  erred,           \* was a statement of the block refused?
  unclean          \* was such a block committed?

serverVars == <<client, running, acceptor, accepted, client_sockets, worker, stop>>
sharedVars == <<txns, tables>>
protoVars == <<prepared_stmts, portals>>
blockVars == <<current_txn_id, txn_failed, begun, erred, unclean>>
sessionVars == <<blockVars, protoVars, todo, ready>>
pgVars == <<serverVars, sharedVars, sessionVars>>

NoConn == {}

PgInit ==
  /\ client = [c \in Conn |-> "away"]
  /\ running = FALSE
  /\ acceptor = "none"
  /\ accepted = NoConn
  /\ client_sockets = {}
  /\ worker = [c \in Conn |-> "none"]
  /\ stop = "none"
  /\ txns = {}
  /\ tables = FALSE
  /\ current_txn_id = [c \in Conn |-> NoTxn]
  /\ txn_failed = [c \in Conn |-> FALSE]
  /\ prepared_stmts = [c \in Conn |-> [n \in StmtName |-> NoQuery]]
  /\ portals = [c \in Conn |-> [n \in StmtName |-> NoQuery]]
  /\ todo = [c \in Conn |-> <<>>]
  /\ ready = [c \in Conn |-> "none"]
  /\ begun = [c \in Conn |-> 0]
  /\ erred = [c \in Conn |-> FALSE]
  /\ unclean = FALSE

-----------------------------------------------------------------------------
(* Clients *)

Connect(c) ==
  /\ client[c] = "away" /\ running
  /\ client' = [client EXCEPT ![c] = "waiting"]
  /\ UNCHANGED <<running, acceptor, accepted, client_sockets, worker, stop,
                 sharedVars, sessionVars>>

\* The connection breaks or the client closes it, at any time.
Leave(c) ==
  /\ client[c] \in {"waiting", "on"}
  /\ client' = [client EXCEPT ![c] = "gone"]
  /\ UNCHANGED <<running, acceptor, accepted, client_sockets, worker, stop,
                 sharedVars, sessionVars>>

-----------------------------------------------------------------------------
(* PgWireServer *)

\* Start: socket, bind and listen succeed and the accept thread starts; if one
\* fails, running_ is reset and nothing has happened.
Start ==
  /\ ~running /\ acceptor = "none"
  /\ running' = TRUE
  /\ acceptor' = "accept"
  /\ UNCHANGED <<client, accepted, client_sockets, worker, stop, sharedVars, sessionVars>>

\* accept returns a connection while the server is running ...
Accept(c) ==
  /\ acceptor = "accept" /\ running
  /\ client[c] \in {"waiting", "gone"} /\ worker[c] = "none"
  /\ acceptor' = "push"
  /\ accepted' = {c}
  /\ client' = [client EXCEPT ![c] = IF @ = "waiting" THEN "on" ELSE @]
  /\ worker' = [worker EXCEPT ![c] = "accepted"]
  /\ UNCHANGED <<running, client_sockets, stop, sharedVars, sessionVars>>

\* ... its socket is listed ...
ListSocket ==
  /\ acceptor = "push"
  /\ client_sockets' = client_sockets \cup accepted
  /\ acceptor' = "spawn"
  /\ UNCHANGED <<client, running, accepted, worker, stop, sharedVars, sessionVars>>

\* ... and it gets its worker thread.
Spawn ==
  /\ acceptor = "spawn"
  /\ worker' = [c \in Conn |-> IF c \in accepted THEN "startup" ELSE worker[c]]
  /\ accepted' = NoConn
  /\ acceptor' = "accept"
  /\ UNCHANGED <<client, running, client_sockets, stop, sharedVars, sessionVars>>

\* The accept thread ends: the server is not running any more, or accept failed.
AcceptEnds ==
  /\ acceptor = "accept"
  /\ acceptor' = "done"
  /\ UNCHANGED <<client, running, accepted, client_sockets, worker, stop,
                 sharedVars, sessionVars>>

\* The worker unlists the socket of the session that ended, closes it and ends.
WorkerEnds(c) ==
  /\ worker[c] = "ended"
  /\ client_sockets' = client_sockets \ {c}
  /\ client' = [client EXCEPT ![c] = "gone"]
  /\ worker' = [worker EXCEPT ![c] = "exited"]
  /\ UNCHANGED <<running, acceptor, accepted, stop, sharedVars, sessionVars>>

\* Stop: running_ is taken back ...
StopBegins ==
  /\ running
  /\ running' = FALSE
  /\ stop' = "begun"
  /\ UNCHANGED <<client, acceptor, accepted, client_sockets, worker, sharedVars, sessionVars>>

\* Fault: the listed connections are forgotten and not shut down.
StopShutsDown_OnlyUnlists ==
  /\ stop = "begun"
  /\ client_sockets' = {}
  /\ stop' = "join accept"
  /\ UNCHANGED <<client, running, acceptor, accepted, worker, sharedVars, sessionVars>>

\* ... the listening socket and the listed connections are shut down ...
StopShutsDown ==
  /\ stop = "begun"
  /\ client' = [c \in Conn |-> IF c \in client_sockets THEN "gone" ELSE client[c]]
  /\ client_sockets' = {}
  /\ stop' = "join accept"
  /\ UNCHANGED <<running, acceptor, accepted, worker, sharedVars, sessionVars>>

\* Fault: the worker threads are joined before the accept thread.
StopJoinsAccept_WorkersFirst ==
  /\ stop = "join accept"
  /\ \A c \in Conn : worker[c] \in {"none", "accepted", "exited"}
  /\ stop' = "join workers"
  /\ UNCHANGED <<client, running, acceptor, accepted, client_sockets, worker,
                 sharedVars, sessionVars>>

\* ... the accept thread is joined ...
StopJoinsAccept ==
  /\ stop = "join accept"
  /\ acceptor = "done"
  /\ stop' = "join workers"
  /\ UNCHANGED <<client, running, acceptor, accepted, client_sockets, worker,
                 sharedVars, sessionVars>>

\* ... and then every worker thread.
StopReturns ==
  /\ stop = "join workers"
  /\ \A c \in Conn : worker[c] \in {"none", "exited"}
  /\ stop' = "returned"
  /\ UNCHANGED <<client, running, acceptor, accepted, client_sockets, worker,
                 sharedVars, sessionVars>>

-----------------------------------------------------------------------------
(* Executor: what a statement does to the transaction of its session, to txns_ *)
(* and to the catalog.  Each is the set of its possible outcomes.              *)

BlockId(c, n) == <<c, n>>
AutoId(c) == <<c, 0>>

Out(c, ok, t, open, exists) == [ok |-> ok, txn |-> t, txns |-> open, tables |-> exists]

Unchanged(c, ok) == Out(c, ok, current_txn_id[c], txns, tables)

ExecCreateTable(c) ==
  {IF tables THEN Unchanged(c, FALSE) ELSE Out(c, TRUE, current_txn_id[c], txns, TRUE)}

\* Fault: a statement that fails on its own leaves its transaction behind.
ExecRow_NoAbort(c) ==
  IF ~tables THEN {Unchanged(c, FALSE)}
  ELSE IF current_txn_id[c] = NoTxn
    THEN {Unchanged(c, TRUE), Out(c, FALSE, NoTxn, txns \cup {AutoId(c)}, tables)}
  ELSE IF current_txn_id[c] \in txns
    THEN {Unchanged(c, TRUE), Unchanged(c, FALSE)}
  ELSE {Unchanged(c, FALSE)}

\* SELECT, INSERT, UPDATE, DELETE: an unknown table is an error; outside a block
\* Begin, the operation, and Abort if it failed or else Commit; inside a block
\* the operation, which the coordinator refuses for a transaction it has not.
ExecRow(c) ==
  LET begin == txns \cup {AutoId(c)} IN
  IF ~tables THEN {Unchanged(c, FALSE)}
  ELSE IF current_txn_id[c] = NoTxn
    THEN {Out(c, ok, NoTxn, begin \ {AutoId(c)}, tables) : ok \in BOOLEAN}
  ELSE IF current_txn_id[c] \in txns
    THEN {Unchanged(c, TRUE), Unchanged(c, FALSE)}
  ELSE {Unchanged(c, FALSE)}

ExecBegin(c) ==
  IF current_txn_id[c] # NoTxn THEN {Unchanged(c, FALSE)}
  ELSE LET t == BlockId(c, begun[c] + 1) IN {Out(c, TRUE, t, txns \cup {t}, tables)}

\* Coordinator::Commit forgets the transaction whatever comes of it; after an
\* error the session stays in the block.
ExecCommit(c) ==
  LET t == current_txn_id[c] IN
  IF t = NoTxn THEN {Unchanged(c, FALSE)}
  ELSE {Out(c, TRUE, NoTxn, txns \ {t}, tables) : u \in txns \cap {t}}
         \cup {Out(c, FALSE, t, txns \ {t}, tables)}

\* Coordinator::Abort of a transaction it does not have does nothing.
ExecRollback(c) == {Out(c, TRUE, NoTxn, txns \ {current_txn_id[c]}, tables)}

Execute(c, q) ==
  CASE q = "create" -> ExecCreateTable(c)
    [] q \in {"write", "select"} -> ExecRow(c)
    [] q = "begin" -> ExecBegin(c)
    [] q = "commit" -> ExecCommit(c)
    [] q = "rollback" -> ExecRollback(c)

-----------------------------------------------------------------------------
(* PgSession *)

Idle(c) == worker[c] = "run" /\ todo[c] = <<>>
Receives(c) == Idle(c) /\ client[c] = "on"

\* The bound on blocks: a client does not send another BEGIN.
Bounded(c, q) == q = "begin" => begun[c] < MaxBlocks \/ current_txn_id[c] # NoTxn

\* TxnIndicator, of the state after the step
TxnIndicator(c) ==
  IF txn_failed'[c] THEN "E" ELSE IF current_txn_id'[c] # NoTxn THEN "T" ELSE "I"

\* An answer that is not ReadyForQuery.
Answers(c) == ready' = [ready EXCEPT ![c] = "none"]

\* An error answer to a statement; it fails the block the session is in.
Refuse(c, t) ==
  /\ txn_failed' = [txn_failed EXCEPT ![c] = @ \/ t # NoTxn]
  /\ erred' = [erred EXCEPT ![c] = @ \/ current_txn_id[c] # NoTxn]

\* The part of ProcessSingle behind the checks: execute the statement and note
\* what became of the transaction.
ExecuteAndNote(c, q) ==
  \E o \in Execute(c, q) :
    /\ current_txn_id' = [current_txn_id EXCEPT ![c] = o.txn]
    /\ txns' = o.txns /\ tables' = o.tables
    /\ begun' = [begun EXCEPT ![c] = IF o.ok /\ q = "begin" THEN @ + 1 ELSE @]
    /\ unclean' = (unclean \/ (o.ok /\ q = "commit" /\ erred[c]))
    /\ IF o.ok
         THEN LET ends == q \in {"commit", "rollback"} IN
              /\ txn_failed' = [txn_failed EXCEPT ![c] = @ /\ ~ends]
              /\ erred' = [erred EXCEPT ![c] = @ /\ ~ends]
         ELSE Refuse(c, o.txn)

\* Fault: a statement that does not parse does not fail the block.
ProcessSingle_ParseErrorIsFree(c, q) ==
  \/ /\ q = "bad"
     /\ erred' = [erred EXCEPT ![c] = @ \/ current_txn_id[c] # NoTxn]
     /\ UNCHANGED <<current_txn_id, txn_failed, begun, unclean, sharedVars>>
  \/ /\ q # "bad" /\ txn_failed[c] /\ q # "rollback"
     /\ Refuse(c, NoTxn)
     /\ UNCHANGED <<current_txn_id, begun, unclean, sharedVars>>
  \/ q # "bad" /\ (txn_failed[c] => q = "rollback") /\ ExecuteAndNote(c, q)

\* Fault: COMMIT also ends a failed block.
ProcessSingle_CommitsFailed(c, q) ==
  \/ /\ q = "bad"
     /\ Refuse(c, current_txn_id[c])
     /\ UNCHANGED <<current_txn_id, begun, unclean, sharedVars>>
  \/ /\ q # "bad" /\ txn_failed[c] /\ q \notin {"rollback", "commit"}
     /\ Refuse(c, NoTxn)
     /\ UNCHANGED <<current_txn_id, begun, unclean, sharedVars>>
  \/ q # "bad" /\ (txn_failed[c] => q \in {"rollback", "commit"}) /\ ExecuteAndNote(c, q)

\* ProcessSingle: parse, refuse everything but ROLLBACK in a failed block, execute.
ProcessSingle(c, q) ==
  \/ /\ q = "bad"
     /\ Refuse(c, current_txn_id[c])
     /\ UNCHANGED <<current_txn_id, begun, unclean, sharedVars>>
  \/ /\ q # "bad" /\ txn_failed[c] /\ q # "rollback"
     /\ Refuse(c, NoTxn)
     /\ UNCHANGED <<current_txn_id, begun, unclean, sharedVars>>
  \/ q # "bad" /\ (txn_failed[c] => q = "rollback") /\ ExecuteAndNote(c, q)

\* Run: the startup message (an SSL request is answered "N" and read again) and
\* its answer.
Startup(c) ==
  /\ worker[c] = "startup" /\ client[c] = "on"
  /\ worker' = [worker EXCEPT ![c] = "run"]
  /\ ready' = [ready EXCEPT ![c] = "I"]
  /\ UNCHANGED <<client, running, acceptor, accepted, client_sockets, stop,
                 sharedVars, blockVars, protoVars, todo>>

\* Run ends: the client is gone, sent Terminate or a message that cannot be
\* read.  The session's state goes with it, its transaction is left as it is
\* (current_txn_id still says which one that was).
SessionEnds(c) ==
  /\ worker[c] = "startup" \/ Idle(c)
  /\ worker' = [worker EXCEPT ![c] = "ended"]
  /\ prepared_stmts' = [prepared_stmts EXCEPT ![c] = [n \in StmtName |-> NoQuery]]
  /\ portals' = [portals EXCEPT ![c] = [n \in StmtName |-> NoQuery]]
  /\ txn_failed' = [txn_failed EXCEPT ![c] = FALSE]
  /\ erred' = [erred EXCEPT ![c] = FALSE]
  /\ Answers(c)
  /\ UNCHANGED <<client, running, acceptor, accepted, client_sockets, stop,
                 sharedVars, current_txn_id, begun, unclean, todo>>

\* HandleSimpleQuery: a query without a statement is answered at once ...
EmptyQuery(c) ==
  /\ Receives(c)
  /\ UNCHANGED <<blockVars, protoVars, todo, serverVars, sharedVars>>
  /\ ready' = [ready EXCEPT ![c] = TxnIndicator(c)]

\* ... another is split into its statements ...
SimpleQuery(c, qs) ==
  /\ Receives(c)
  /\ \A i \in DOMAIN qs : Bounded(c, qs[i])
  /\ todo' = [todo EXCEPT ![c] = qs]
  /\ ready' = [ready EXCEPT ![c] = "none"]
  /\ UNCHANGED <<blockVars, protoVars, serverVars, sharedVars>>

\* ... which run in turn, also after one that failed, unless the client is
\* gone and the error cannot be sent; the answer ends with ReadyForQuery.
SimpleQueryStep(c) ==
  /\ worker[c] = "run" /\ todo[c] # <<>>
  /\ ProcessSingle(c, Head(todo[c]))
  /\ \/ todo' = [todo EXCEPT ![c] = Tail(@)]
     \/ client[c] = "gone" /\ todo' = [todo EXCEPT ![c] = <<>>]
  /\ ready' = [ready EXCEPT ![c] = IF todo'[c] = <<>> THEN TxnIndicator(c) ELSE @]
  /\ UNCHANGED <<protoVars, serverVars>>

\* HandleParse keeps the text; it is parsed when it is executed.
HandleParse(c, name, q) ==
  /\ Receives(c)
  /\ prepared_stmts' = [prepared_stmts EXCEPT ![c][name] = q]
  /\ Answers(c)
  /\ UNCHANGED <<portals, todo, blockVars, serverVars, sharedVars>>

\* An entry is looked up by name and then under "".
Lookup(entries, name) == IF entries[name] # NoQuery THEN entries[name] ELSE entries[""]

\* HandleBind: without a statement an error is sent and the portal stays.
HandleBind(c, portal, name) ==
  /\ Receives(c)
  /\ LET q == Lookup(prepared_stmts[c], name) IN
     portals' = [portals EXCEPT ![c][portal] = IF q = NoQuery THEN @ ELSE q]
  /\ Answers(c)
  /\ UNCHANGED <<prepared_stmts, todo, blockVars, serverVars, sharedVars>>

\* HandleDescribe of a statement runs it if it is a SELECT, inside the block or
\* on its own, and ignores how that ends.
HandleDescribe(c, name) ==
  /\ Receives(c)
  /\ LET q == Lookup(prepared_stmts[c], name) IN
     IF q = "select" THEN \E o \in ExecRow(c) : txns' = o.txns ELSE UNCHANGED txns
  /\ Answers(c)
  /\ UNCHANGED <<tables, todo, blockVars, protoVars, serverVars>>

\* HandleExecute: the statement of the portal, or an error.
HandleExecute(c, portal) ==
  /\ Receives(c)
  /\ LET q == Lookup(portals[c], portal) IN
     /\ Bounded(c, q)
     /\ IF q = NoQuery THEN UNCHANGED <<blockVars, sharedVars>> ELSE ProcessSingle(c, q)
  /\ Answers(c)
  /\ UNCHANGED <<todo, protoVars, serverVars>>

HandleSync(c) ==
  /\ Receives(c)
  /\ UNCHANGED <<blockVars, protoVars, todo, serverVars, sharedVars>>
  /\ ready' = [ready EXCEPT ![c] = TxnIndicator(c)]

HandleClose(c, kind, name) ==
  /\ Receives(c)
  /\ IF kind = "S"
       THEN prepared_stmts' = [prepared_stmts EXCEPT ![c][name] = NoQuery] /\ UNCHANGED portals
       ELSE portals' = [portals EXCEPT ![c][name] = NoQuery] /\ UNCHANGED prepared_stmts
  /\ Answers(c)
  /\ UNCHANGED <<todo, blockVars, serverVars, sharedVars>>

-----------------------------------------------------------------------------
ServerStep ==
  \/ Start \/ ListSocket \/ Spawn \/ AcceptEnds
  \/ StopBegins \/ StopShutsDown \/ StopJoinsAccept \/ StopReturns
  \/ \E c \in Conn : Connect(c) \/ Leave(c) \/ Accept(c) \/ WorkerEnds(c)

SimpleStep ==
  \E c \in Conn :
    \/ Startup(c) \/ SessionEnds(c) \/ EmptyQuery(c) \/ SimpleQueryStep(c)
    \/ \E qs \in Query[c] : SimpleQuery(c, qs)

ExtendedStep ==
  \E c \in Extended :
    \/ HandleSync(c)
    \/ \E name \in StmtName :
         \/ \E q \in Prepared : HandleParse(c, name, q)
         \/ \E portal \in StmtName : HandleBind(c, portal, name)
         \/ HandleDescribe(c, name)
         \/ HandleExecute(c, name)
         \/ \E kind \in {"S", "P"} : HandleClose(c, kind, name)

PgNext == ServerStep \/ SimpleStep \/ ExtendedStep

PgSpec == PgInit /\ [][PgNext]_pgVars

\* Threads of the server keep running; a session whose client is gone notices
\* when it next reads.  What clients do is up to them.
PgFairness ==
  /\ WF_pgVars(ListSocket) /\ WF_pgVars(Spawn)
  /\ WF_pgVars(~running /\ AcceptEnds)
  /\ WF_pgVars(StopShutsDown) /\ WF_pgVars(StopJoinsAccept) /\ WF_pgVars(StopReturns)
  /\ \A c \in Conn :
       /\ WF_pgVars(WorkerEnds(c))
       /\ WF_pgVars(SimpleQueryStep(c))
       /\ WF_pgVars(client[c] = "gone" /\ SessionEnds(c))

-----------------------------------------------------------------------------
(* Properties *)

\* The status a client reads in ReadyForQuery is true of the server: 'I' means
\* that the coordinator holds no transaction of the session, 'T' that it holds
\* the session's block and no statement of the block was refused.
IndicatorIsTrue ==
  \A c \in Conn :
    /\ ready[c] = "I" => \A t \in txns : t[1] # c
    /\ ready[c] = "T" => current_txn_id[c] \in txns /\ ~erred[c]
    /\ ready[c] = "E" => current_txn_id[c] # NoTxn

\* A block that COMMIT committed contains no statement that was refused
\* (txn_failed_).  A Bind or Execute that finds no statement is an error answer
\* that does not fail the block and is not counted.
CommittedIsClean == ~unclean

\* A transaction the coordinator still holds is the one its session is in, or
\* was in when it ended: no other path through executor and session leaves one.
LeftoversExplained == \A t \in txns : current_txn_id[t[1]] = t

\* When Stop has returned no thread of the server runs any more, so nobody uses
\* the coordinator that main destroys next.
StoppedIsQuiet ==
  stop = "returned" =>
    acceptor = "done" /\ \A c \in Conn : worker[c] \in {"none", "exited"}

\* Stop returns, whatever the sessions are doing, unless a client stays on whose
\* connection was accepted before Stop and listed after Stop had shut the listed
\* ones down: its worker reads for as long as the client likes.
StopEnds ==
  stop = "join accept" ~>
    \/ stop = "returned"
    \/ [](\E c \in client_sockets : client[c] = "on")
=============================================================================
