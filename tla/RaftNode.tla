------------------------------ MODULE RaftNode ------------------------------
(***************************************************************************)
(* The consensus group of one shard: raft/raft_node.cpp on raft_log.cpp,   *)
(* over the transports of raft_transport.cpp and grpc_raft_transport.cpp.  *)
(*                                                                         *)
(* An action is one critical section under a node's mu_.  RPCs are blocking*)
(* calls: StartElection asks its peers one after the other, and every      *)
(* thread inside SendAppendEntriesToAll works through a list of requests   *)
(* that was built in one critical section.  So there is no bag of messages *)
(* but, for each calling thread, the requests it still has to make and the *)
(* reply to the one it is waiting for.  A call may fail at any moment (peer*)
(* unreachable, partition, 5 s deadline).  Its request may nevertheless    *)
(* reach the peer later: such requests are in `late'.                      *)
(*                                                                         *)
(* Timing is abstracted: an election timeout may expire at any time.  The  *)
(* order in which a thread visits its peers is left open.  Batching of     *)
(* proposals decides only when a broadcast starts and is left out, and so  *)
(* is leader_id_, which no decision of the node depends on.                *)
(***************************************************************************)
EXTENDS Integers, Sequences, FiniteSets

CONSTANTS
  Server,      \* node ids of the replicas
  Sender,      \* threads of a node that broadcast AppendEntries
  Tick,        \* the one of them that also runs elections
  Value,       \* payloads of proposals
  NOOP,        \* the entry a new leader appends
  Nil,         \* no vote
  MaxLog,      \* bound on the length of a log that a proposal extends
  MaxLate,     \* bound on the requests in `late'
  Budget       \* how many elections, broadcasts and faults may go together

\* A fault is a restart, or a call that fails or is made twice.
Bounded == {"election", "round", "fault"}

ASSUME ServerAssumption == IsFiniteSet(Server) /\ Nil \notin Server
ASSUME SenderAssumption == Tick \in Sender
ASSUME NoopAssumption == NOOP \notin Value
ASSUME BoundAssumption ==
  MaxLog \in Nat /\ MaxLate \in Nat /\ Budget \subseteq [Bounded -> Nat]

VARIABLES
  currentTerm, votedFor, log,            \* persisted: raft_meta and the log file
  role, commitIndex, applied,            \* volatile; last_applied_ = Len(applied)
  nextIndex, matchIndex,                 \* volatile, of a leader
  elec,                                  \* the StartElection call of each node
  round,                                 \* the broadcasts of each node's threads
  late,                                  \* requests whose caller has given up
  spent,                                 \* how much of the Budget is used up
  granted, elected, chosen               \* history, read by no action's guard

persistVars == <<currentTerm, votedFor>>
leaderVars == <<nextIndex, matchIndex>>
callVars == <<elec, round>>
historyVars == <<granted, elected, chosen>>
vars == <<currentTerm, votedFor, log, role, commitIndex, applied, nextIndex,
          matchIndex, elec, round, late, spent, granted, elected, chosen>>

Larger(a, b) == IF a >= b THEN a ELSE b
Smaller(a, b) == IF a <= b THEN a ELSE b

Peers(n) == Server \ {n}

\* MajorityThreshold()
Majority == Cardinality(Server) \div 2 + 1

Entry == [term : Nat, val : Value \cup {NOOP}]

LastIndex(l) == Len(l)
TermAt(l, i) == IF i \in 1..Len(l) THEN l[i].term ELSE 0
LastTerm(l) == TermAt(l, Len(l))

VoteRequest == [type : {"vote"}, from : Server, to : Server, term : Nat,
                lli : Nat, llt : Nat]
AppendRequest == [type : {"append"}, from : Server, to : Server, term : Nat,
                  prev : Nat, prevTerm : Nat, entries : Seq(Entry), commit : Nat]

VoteResponse == [from : Server, term : Nat, granted : BOOLEAN]
AppendResponse == [from : Server, term : Nat, success : BOOLEAN, match : Nat]

\* The locals of StartElection and of SendAppendEntriesToAll, with the reply to
\* the current call once the peer has answered.
Election == [term : Nat, lli : Nat, llt : Nat, todo : SUBSET Server,
             voters : SUBSET Server, reply : SUBSET VoteResponse]
Round == [term : Nat, jobs : SUBSET AppendRequest, ok : Nat,
          reply : SUBSET AppendResponse]

NoElection == [term |-> 0, lli |-> 0, llt |-> 0, todo |-> {}, voters |-> {},
               reply |-> {}]
NoRound == [term |-> 0, jobs |-> {}, ok |-> 0, reply |-> {}]

Init ==
  /\ currentTerm = [n \in Server |-> 0]
  /\ votedFor = [n \in Server |-> Nil]
  /\ log = [n \in Server |-> <<>>]
  /\ role = [n \in Server |-> "follower"]
  /\ commitIndex = [n \in Server |-> 0]
  /\ applied = [n \in Server |-> <<>>]
  /\ nextIndex = [n \in Server |-> [p \in Server |-> 1]]
  /\ matchIndex = [n \in Server |-> [p \in Server |-> 0]]
  /\ elec = [n \in Server |-> NoElection]
  /\ round = [n \in Server |-> [s \in Sender |-> NoRound]]
  /\ late = {}
  /\ spent = [b \in Bounded |-> 0]
  /\ granted = {}
  /\ elected = {}
  /\ chosen = <<>>

Spend(what) ==
  /\ spent' = [spent EXCEPT ![what] = @ + 1]
  /\ \E limit \in Budget : \A b \in Bounded : spent'[b] <= limit[b]

-----------------------------------------------------------------------------
(* Role changes *)

\* Called on a higher term, and with the current term by a leader that has
\* lost its quorum: the vote is cleared either way.
BecomeFollower(n, t) ==
  /\ currentTerm' = [currentTerm EXCEPT ![n] = t]
  /\ votedFor' = [votedFor EXCEPT ![n] = Nil]
  /\ role' = [role EXCEPT ![n] = "follower"]

\* Fault: a new leader appends nothing.
BecomeLeader_NoNoop(n) ==
  /\ role' = [role EXCEPT ![n] = "leader"]
  /\ nextIndex' = [nextIndex EXCEPT ![n] = [p \in Server |-> LastIndex(log[n]) + 1]]
  /\ matchIndex' = [matchIndex EXCEPT ![n] = [p \in Server |-> 0]]
  /\ elected' = elected \cup {<<currentTerm[n], n>>}
  /\ UNCHANGED log

BecomeLeader(n) ==
  /\ role' = [role EXCEPT ![n] = "leader"]
  /\ nextIndex' = [nextIndex EXCEPT ![n] = [p \in Server |-> LastIndex(log[n]) + 1]]
  /\ matchIndex' = [matchIndex EXCEPT ![n] = [p \in Server |-> 0]]
  /\ log' = [log EXCEPT ![n] = Append(@, [term |-> currentTerm[n], val |-> NOOP])]
  /\ elected' = elected \cup {<<currentTerm[n], n>>}

-----------------------------------------------------------------------------
(* RequestVote *)

\* Fault: logs are compared by length alone.
UpToDate_ByLength(req, l) == req.lli >= LastIndex(l)

UpToDate(req, l) ==
  \/ req.llt > LastTerm(l)
  \/ req.llt = LastTerm(l) /\ req.lli >= LastIndex(l)

Grants(p, req) ==
  /\ \/ req.term > currentTerm[p]
     \/ req.term = currentTerm[p] /\ votedFor[p] \in {Nil, req.from}
  /\ UpToDate(req, log[p])

\* The handler at p.  Its reply is VoteReply(p, req).
HandleRequestVote(p, req) ==
  LET newer == req.term > currentTerm[p] IN
  /\ currentTerm' = [currentTerm EXCEPT ![p] = IF newer THEN req.term ELSE @]
  /\ role' = [role EXCEPT ![p] = IF newer THEN "follower" ELSE @]
  /\ votedFor' = [votedFor EXCEPT
                    ![p] = IF Grants(p, req) THEN req.from
                           ELSE IF newer THEN Nil ELSE @]
  /\ granted' = IF Grants(p, req)
                THEN granted \cup {<<p, req.term, req.from>>} ELSE granted
  /\ UNCHANGED <<log, commitIndex, applied, leaderVars, spent, elected, chosen>>

VoteReply(p, req) ==
  [from |-> p,
   term |-> IF req.term > currentTerm[p] THEN req.term ELSE currentTerm[p],
   granted |-> Grants(p, req)]

VoteRequestOf(n, p) ==
  [type |-> "vote", from |-> n, to |-> p, term |-> elec[n].term,
   lli |-> elec[n].lli, llt |-> elec[n].llt]

\* TickOnce: the election timeout has passed.  StartElection up to its loop.
StartElection(n) ==
  /\ role[n] # "leader"
  /\ elec[n] = NoElection /\ round[n][Tick] = NoRound
  /\ Spend("election")
  /\ currentTerm' = [currentTerm EXCEPT ![n] = @ + 1]
  /\ votedFor' = [votedFor EXCEPT ![n] = n]
  /\ role' = [role EXCEPT ![n] = "candidate"]
  /\ elec' = [elec EXCEPT ![n] =
               IF Peers(n) = {} THEN NoElection
               ELSE [term |-> currentTerm[n] + 1, lli |-> LastIndex(log[n]),
                     llt |-> LastTerm(log[n]), todo |-> Peers(n), voters |-> {n},
                     reply |-> {}]]
  /\ granted' = granted \cup {<<n, currentTerm[n] + 1, n>>}
  /\ UNCHANGED <<log, commitIndex, applied, leaderVars, round, late,
                 elected, chosen>>

\* Peer p handles the request that n's election is waiting on.
AskVote(n, p) ==
  /\ p \in elec[n].todo /\ elec[n].reply = {}
  /\ HandleRequestVote(p, VoteRequestOf(n, p))
  /\ elec' = [elec EXCEPT ![n].reply = {VoteReply(p, VoteRequestOf(n, p))}]
  /\ UNCHANGED <<round, late>>

\* The loop goes on without p, and ends when it has asked everybody.
Without(e, p, voters) ==
  IF e.todo = {p} THEN NoElection
  ELSE [e EXCEPT !.todo = @ \ {p}, !.voters = voters, !.reply = {}]

\* StartElection after SendRequestVote has returned r.
VoteReturns(n, r) ==
  LET e == elec[n]
      voters == IF r.granted THEN e.voters \cup {r.from} ELSE e.voters
  IN
  \/ /\ r.term > currentTerm[n]
     /\ BecomeFollower(n, r.term)
     /\ elec' = [elec EXCEPT ![n] = NoElection]
     /\ UNCHANGED <<log, leaderVars, elected>>
  \/ /\ r.term <= currentTerm[n]
     /\ currentTerm[n] # e.term \/ role[n] # "candidate"
     /\ elec' = [elec EXCEPT ![n] = NoElection]
     /\ UNCHANGED <<currentTerm, votedFor, role, log, leaderVars, elected>>
  \/ /\ currentTerm[n] = e.term /\ role[n] = "candidate"
     /\ r.term < e.term
     /\ elec' = [elec EXCEPT ![n] = Without(e, r.from, e.voters)]
     /\ UNCHANGED <<currentTerm, votedFor, role, log, leaderVars, elected>>
  \/ /\ currentTerm[n] = e.term /\ role[n] = "candidate"
     /\ r.term = e.term
     /\ Cardinality(voters) < Majority
     /\ elec' = [elec EXCEPT ![n] = Without(e, r.from, voters)]
     /\ UNCHANGED <<currentTerm, votedFor, role, log, leaderVars, elected>>
  \/ /\ currentTerm[n] = e.term /\ role[n] = "candidate"
     /\ r.term = e.term
     /\ Cardinality(voters) >= Majority
     /\ BecomeLeader(n)
     /\ elec' = [elec EXCEPT ![n] = NoElection]
     /\ UNCHANGED <<currentTerm, votedFor>>

VoteReplied(n) ==
  /\ \E r \in elec[n].reply : VoteReturns(n, r)
  /\ UNCHANGED <<commitIndex, applied, round, late, spent, granted, chosen>>

\* A request whose call failed may still be under way.
GiveUp(req) ==
  late' \in {late} \cup IF Cardinality(late) < MaxLate THEN {late \cup {req}} ELSE {}

\* SendRequestVote fails: RequestVoteResponse{} has term 0 and no vote.  If the
\* peer had answered, its answer is lost.
VoteFailed(n, p) ==
  /\ p \in elec[n].todo
  /\ \A r \in elec[n].reply : r.from = p
  /\ VoteReturns(n, [from |-> p, term |-> 0, granted |-> FALSE])
  /\ IF elec[n].reply = {} THEN GiveUp(VoteRequestOf(n, p)) ELSE UNCHANGED late
  /\ Spend("fault")
  /\ UNCHANGED <<commitIndex, applied, round, granted, chosen>>

-----------------------------------------------------------------------------
(* AppendEntries *)

\* RaftLog::AppendEntries, for entries that follow index prev: the log stays as
\* it is if it has them all, compared by term; otherwise it keeps what agrees
\* and takes over the rest in place of its own tail.
AppendToLog(l, prev, entries) ==
  LET AgreesUpTo(i) ==
        i <= Len(l) /\ \A k \in prev + 1 .. i : l[k].term = entries[k - prev].term
      last == prev + Len(entries)
  IN  IF AgreesUpTo(last) THEN l
      ELSE [i \in 1..last |-> IF AgreesUpTo(i) THEN l[i] ELSE entries[i - prev]]

\* Fault: an entry at the preceding index is enough, whatever its term.
Accepts_AnyPrevTerm(p, req) ==
  /\ req.term >= currentTerm[p]
  /\ req.prev <= LastIndex(log[p])

Accepts(p, req) ==
  /\ req.term >= currentTerm[p]
  /\ req.prev > 0 => /\ req.prev <= LastIndex(log[p])
                     /\ TermAt(log[p], req.prev) = req.prevTerm

\* The handler at p up to the unlock; the ApplyCommitted that follows is the
\* action ApplyCommitted(p).  The reply is AppendReply(p, req).
HandleAppendEntries(p, req) ==
  LET newer == req.term > currentTerm[p]
      l == IF Accepts(p, req) THEN AppendToLog(log[p], req.prev, req.entries)
                              ELSE log[p]
  IN
  /\ currentTerm' = [currentTerm EXCEPT ![p] = IF newer THEN req.term ELSE @]
  /\ votedFor' = [votedFor EXCEPT ![p] = IF newer THEN Nil ELSE @]
  /\ role' = [role EXCEPT ![p] = IF req.term >= currentTerm[p] THEN "follower" ELSE @]
  /\ log' = [log EXCEPT ![p] = l]
  /\ commitIndex' = [commitIndex EXCEPT
                       ![p] = IF Accepts(p, req)
                              THEN Larger(@, Smaller(req.commit, Len(l))) ELSE @]
  /\ UNCHANGED <<applied, leaderVars, elec, spent, historyVars>>

AppendReply(p, req) ==
  [from |-> p,
   term |-> IF req.term > currentTerm[p] THEN req.term ELSE currentTerm[p],
   success |-> Accepts(p, req),
   match |-> IF Accepts(p, req) THEN req.prev + Len(req.entries) ELSE 0]

AppendRequestFor(n, p) ==
  LET prev == nextIndex[n][p] - 1 IN
  [type |-> "append", from |-> n, to |-> p, term |-> currentTerm[n],
   prev |-> prev, prevTerm |-> TermAt(log[n], prev),
   entries |-> SubSeq(log[n], prev + 1, LastIndex(log[n])),
   commit |-> commitIndex[n]]

\* SendAppendEntriesToAll up to its loop: all requests are built at once.
StartRound(n, s) ==
  /\ role[n] = "leader"
  /\ round[n][s] = NoRound
  /\ s = Tick => elec[n] = NoElection
  /\ Spend("round")
  /\ round' = [round EXCEPT ![n][s] =
                [term |-> currentTerm[n],
                 jobs |-> {AppendRequestFor(n, p) : p \in Peers(n)},
                 ok |-> 0, reply |-> {}]]
  /\ UNCHANGED <<persistVars, log, role, commitIndex, applied, leaderVars, elec,
                 late, historyVars>>

\* The peer handles the request that the thread is waiting on.
AskAppend(n, s, req) ==
  /\ req \in round[n][s].jobs /\ round[n][s].reply = {}
  /\ HandleAppendEntries(req.to, req)
  /\ round' = [round EXCEPT ![n][s].reply = {AppendReply(req.to, req)}]
  /\ UNCHANGED late

\* The entries of the current term that a majority has, by match_index_ = m.
Committable(n, m) ==
  {i \in commitIndex[n] + 1 .. LastIndex(log[n]) :
     /\ log[n][i].term = currentTerm[n]
     /\ Cardinality({n} \cup {p \in Peers(n) : m[p] >= i}) >= Majority}

\* Move commit_index_ to the last of them, if there is one.
AdvanceCommitIndexLocked(n, m) ==
  \E c \in {commitIndex[n]} \cup Committable(n, m) :
    /\ \A i \in Committable(n, m) : i <= c
    /\ commitIndex' = [commitIndex EXCEPT ![n] = c]

\* Fault: next_index_ is decremented below 1.
ProcessAppendEntriesResponse_NoFloor(n, r, sent_term) ==
  \/ /\ r.term > currentTerm[n]
     /\ BecomeFollower(n, r.term)
     /\ UNCHANGED <<commitIndex, leaderVars>>
  \/ /\ r.term <= currentTerm[n]
     /\ sent_term # currentTerm[n] \/ role[n] # "leader"
     /\ UNCHANGED <<currentTerm, votedFor, role, commitIndex, leaderVars>>
  \/ /\ r.term <= currentTerm[n]
     /\ sent_term = currentTerm[n] /\ role[n] = "leader"
     /\ ~r.success
     /\ nextIndex' = [nextIndex EXCEPT ![n][r.from] = @ - 1]
     /\ UNCHANGED <<currentTerm, votedFor, role, commitIndex, matchIndex>>
  \/ /\ r.term <= currentTerm[n]
     /\ sent_term = currentTerm[n] /\ role[n] = "leader"
     /\ r.success
     /\ matchIndex' = [matchIndex EXCEPT ![n][r.from] = Larger(@, r.match)]
     /\ nextIndex' = [nextIndex EXCEPT ![n][r.from] = Larger(@, r.match + 1)]
     /\ AdvanceCommitIndexLocked(n, matchIndex'[n])
     /\ UNCHANGED <<currentTerm, votedFor, role>>

\* Fault: a success is taken to cover all that the log holds by now.
ProcessAppendEntriesResponse_MatchIsLast(n, r, sent_term) ==
  \/ /\ r.term > currentTerm[n]
     /\ BecomeFollower(n, r.term)
     /\ UNCHANGED <<commitIndex, leaderVars>>
  \/ /\ r.term <= currentTerm[n]
     /\ sent_term # currentTerm[n] \/ role[n] # "leader"
     /\ UNCHANGED <<currentTerm, votedFor, role, commitIndex, leaderVars>>
  \/ /\ r.term <= currentTerm[n]
     /\ sent_term = currentTerm[n] /\ role[n] = "leader"
     /\ ~r.success
     /\ nextIndex' = [nextIndex EXCEPT ![n][r.from] = Larger(1, @ - 1)]
     /\ UNCHANGED <<currentTerm, votedFor, role, commitIndex, matchIndex>>
  \/ /\ r.term <= currentTerm[n]
     /\ sent_term = currentTerm[n] /\ role[n] = "leader"
     /\ r.success
     /\ matchIndex' = [matchIndex EXCEPT ![n][r.from] = LastIndex(log[n])]
     /\ nextIndex' = [nextIndex EXCEPT ![n][r.from] = Larger(@, r.match + 1)]
     /\ AdvanceCommitIndexLocked(n, matchIndex'[n])
     /\ UNCHANGED <<currentTerm, votedFor, role>>

\* ProcessAppendEntriesResponse up to the unlock.
ProcessAppendEntriesResponse(n, r, sent_term) ==
  \/ /\ r.term > currentTerm[n]
     /\ BecomeFollower(n, r.term)
     /\ UNCHANGED <<commitIndex, leaderVars>>
  \/ /\ r.term <= currentTerm[n]
     /\ sent_term # currentTerm[n] \/ role[n] # "leader"
     /\ UNCHANGED <<currentTerm, votedFor, role, commitIndex, leaderVars>>
  \/ /\ r.term <= currentTerm[n]
     /\ sent_term = currentTerm[n] /\ role[n] = "leader"
     /\ ~r.success
     /\ nextIndex' = [nextIndex EXCEPT ![n][r.from] = Larger(1, @ - 1)]
     /\ UNCHANGED <<currentTerm, votedFor, role, commitIndex, matchIndex>>
  \/ /\ r.term <= currentTerm[n]
     /\ sent_term = currentTerm[n] /\ role[n] = "leader"
     /\ r.success
     /\ matchIndex' = [matchIndex EXCEPT ![n][r.from] = Larger(@, r.match)]
     /\ nextIndex' = [nextIndex EXCEPT ![n][r.from] = Larger(@, r.match + 1)]
     /\ AdvanceCommitIndexLocked(n, matchIndex'[n])
     /\ UNCHANGED <<currentTerm, votedFor, role>>

\* The thread's current call has returned r and it goes on to the next peer.
NextJob(n, s, r) ==
  round' = [round EXCEPT
              ![n][s].jobs = {q \in @ : q.to # r.from},
              ![n][s].ok = IF r.success THEN @ + 1 ELSE @,
              ![n][s].reply = {}]

AppendReplied(n, s) ==
  /\ \E r \in round[n][s].reply :
       /\ ProcessAppendEntriesResponse(n, r, round[n][s].term)
       /\ NextJob(n, s, r)
  /\ UNCHANGED <<log, applied, elec, late, spent, historyVars>>

\* SendAppendEntries fails: AppendEntriesResponse{} has term 0, no success.
AppendFailed(n, s, req) ==
  LET r == [from |-> req.to, term |-> 0, success |-> FALSE, match |-> 0] IN
  /\ req \in round[n][s].jobs
  /\ \A q \in round[n][s].reply : q.from = req.to
  /\ ProcessAppendEntriesResponse(n, r, round[n][s].term)
  /\ NextJob(n, s, r)
  /\ IF round[n][s].reply = {} THEN GiveUp(req) ELSE UNCHANGED late
  /\ Spend("fault")
  /\ UNCHANGED <<log, applied, elec, historyVars>>

\* The duplicate the gRPC transport can be told to send after a successful
\* call: the request is handled once more, at any later time.
DuplicateAppend(n, s, req) ==
  /\ req \in round[n][s].jobs
  /\ \E r \in round[n][s].reply : r.from = req.to
  /\ Cardinality(late) < MaxLate
  /\ late' = late \cup {req}
  /\ Spend("fault")
  /\ UNCHANGED <<persistVars, log, role, commitIndex, applied, leaderVars, callVars,
                 historyVars>>

\* End of SendAppendEntriesToAll: a leader that reached no majority, for longer
\* than its election timeout, steps down in its own term.
EndRound(n, s) ==
  /\ round[n][s].term > 0 /\ round[n][s].jobs = {}
  /\ round' = [round EXCEPT ![n][s] = NoRound]
  /\ \/ UNCHANGED <<currentTerm, votedFor, role>>
     \/ /\ role[n] = "leader" /\ currentTerm[n] = round[n][s].term
        /\ 1 + round[n][s].ok < Majority
        /\ BecomeFollower(n, currentTerm[n])
  /\ UNCHANGED <<log, commitIndex, applied, leaderVars, elec, late, spent,
                 historyVars>>

\* A request whose caller gave up arrives; nobody reads the reply.
LateArrives(req) ==
  /\ req \in late
  /\ late' = late \ {req}
  /\ \/ req.type = "vote" /\ HandleRequestVote(req.to, req) /\ UNCHANGED elec
     \/ req.type = "append" /\ HandleAppendEntries(req.to, req)
  /\ UNCHANGED round

-----------------------------------------------------------------------------
(* Proposals, the apply loop, restarts *)

\* Propose, up to the broadcast that it or the batching thread starts.
Propose(n, v) ==
  /\ role[n] = "leader"
  /\ LastIndex(log[n]) < MaxLog
  /\ log' = [log EXCEPT ![n] = Append(@, [term |-> currentTerm[n], val |-> v])]
  /\ UNCHANGED <<persistVars, role, commitIndex, applied, leaderVars, callVars,
                 late, spent, historyVars>>

\* The end of a leader's TickOnce: its thread is past election and broadcast.
TickAdvance(n) ==
  /\ role[n] = "leader"
  /\ elec[n] = NoElection /\ round[n][Tick] = NoRound
  /\ AdvanceCommitIndexLocked(n, matchIndex[n])
  /\ UNCHANGED <<persistVars, log, role, applied, leaderVars, callVars, late,
                 spent, historyVars>>

\* Fault: everything in the log is applied.
ApplyCommitted_All(n) ==
  LET last == LastIndex(log[n]) IN
  /\ Len(applied[n]) < last
  /\ applied' = [applied EXCEPT ![n] = @ \o SubSeq(log[n], Len(@) + 1, last)]
  /\ chosen' = IF Len(applied'[n]) > Len(chosen) THEN applied'[n] ELSE chosen
  /\ UNCHANGED <<persistVars, log, role, commitIndex, leaderVars, callVars, late,
                 spent, granted, elected>>

\* ApplyCommitted: a critical section of its own, after every handler that can
\* move commit_index_ and in every tick.
ApplyCommitted(n) ==
  LET last == Smaller(commitIndex[n], LastIndex(log[n])) IN
  /\ Len(applied[n]) < last
  /\ applied' = [applied EXCEPT ![n] = @ \o SubSeq(log[n], Len(@) + 1, last)]
  /\ chosen' = IF Len(applied'[n]) > Len(chosen) THEN applied'[n] ELSE chosen
  /\ UNCHANGED <<persistVars, log, role, commitIndex, leaderVars, callVars, late,
                 spent, granted, elected>>

\* The process dies and comes back: LoadMeta and RaftLog::Load restore term,
\* vote and log; the rest starts from its initial value.
Restart(n) ==
  /\ Spend("fault")
  /\ role' = [role EXCEPT ![n] = "follower"]
  /\ commitIndex' = [commitIndex EXCEPT ![n] = 0]
  /\ applied' = [applied EXCEPT ![n] = <<>>]
  /\ nextIndex' = [nextIndex EXCEPT ![n] = [p \in Server |-> 1]]
  /\ matchIndex' = [matchIndex EXCEPT ![n] = [p \in Server |-> 0]]
  /\ elec' = [elec EXCEPT ![n] = NoElection]
  /\ round' = [round EXCEPT ![n] = [s \in Sender |-> NoRound]]
  /\ UNCHANGED <<persistVars, log, late, historyVars>>

-----------------------------------------------------------------------------
\* The steps that no request thread and no operator takes part in.
GroupStep ==
  \/ \E n \in Server :
       \/ StartElection(n)
       \/ VoteReplied(n)
       \/ \E p \in Peers(n) : AskVote(n, p) \/ VoteFailed(n, p)
       \/ TickAdvance(n)
       \/ ApplyCommitted(n)
       \/ \E s \in Sender :
            \/ StartRound(n, s)
            \/ AppendReplied(n, s)
            \/ EndRound(n, s)
            \/ \E req \in round[n][s].jobs :
                 \/ AskAppend(n, s, req)
                 \/ AppendFailed(n, s, req)
                 \/ DuplicateAppend(n, s, req)
  \/ \E req \in late : LateArrives(req)

Next ==
  \/ GroupStep
  \/ \E n \in Server : Restart(n) \/ \E v \in Value : Propose(n, v)

Spec == Init /\ [][Next]_vars

-----------------------------------------------------------------------------
(* Properties *)

\* Terms, votes, indices and the locals of every call have their types; in
\* particular next_index_ never falls below 1 (raft_node.cpp, line 190).
TypeOK ==
  /\ currentTerm \in [Server -> Nat]
  /\ votedFor \in [Server -> Server \cup {Nil}]
  /\ log \in [Server -> Seq(Entry)]
  /\ role \in [Server -> {"follower", "candidate", "leader"}]
  /\ commitIndex \in [Server -> Nat]
  /\ applied \in [Server -> Seq(Entry)]
  /\ nextIndex \in [Server -> [Server -> Nat \ {0}]]
  /\ matchIndex \in [Server -> [Server -> Nat]]
  /\ elec \in [Server -> Election]
  /\ round \in [Server -> [Sender -> Round]]
  /\ late \subseteq VoteRequest \cup AppendRequest
  /\ spent \in [Bounded -> Nat]
  /\ granted \subseteq Server \X Nat \X Server
  /\ elected \subseteq Nat \X Server
  /\ chosen \in Seq(Entry)

\* At most one node ever becomes leader of a term, although a leader that loses
\* its quorum forgets its own vote of that term.
ElectionSafety ==
  \A a, b \in elected : a[1] = b[1] => a = b

\* Two logs that have an entry of the same term at an index are equal up to it.
LogMatching ==
  \A m, n \in Server : \A i \in 1..Smaller(Len(log[m]), Len(log[n])) :
    log[m][i].term = log[n][i].term => SubSeq(log[m], 1, i) = SubSeq(log[n], 1, i)

\* match_index_ can be trusted: as long as a peer has not moved to a later term,
\* it has the leader's log up to there, whatever calls were lost, repeated or
\* late, and across the peer's restarts.
MatchIndexIsReplicated ==
  \A n \in Server : role[n] = "leader" =>
    \A p \in Peers(n) :
      currentTerm[p] <= currentTerm[n] =>
        /\ matchIndex[n][p] <= Len(log[p])
        /\ SubSeq(log[p], 1, matchIndex[n][p]) = SubSeq(log[n], 1, matchIndex[n][p])

-----------------------------------------------------------------------------
(* The inductive invariant behind ElectionSafety *)

\* A node remembers the vote of its current term, or it led that term and
\* stepped down.
VotesAreRemembered ==
  \A g \in granted :
    /\ g[2] <= currentTerm[g[1]]
    /\ g[2] = currentTerm[g[1]] =>
         \/ votedFor[g[1]] = g[3]
         \/ votedFor[g[1]] = Nil /\ <<g[2], g[1]>> \in elected

OneVotePerTerm ==
  \A g, h \in granted : g[1] = h[1] /\ g[2] = h[2] => g[3] = h[3]

ElectedByMajority ==
  \A e \in elected : \E voters \in SUBSET Server :
    /\ Cardinality(voters) >= Majority
    /\ \A v \in voters : <<v, e[1], e[2]>> \in granted

LeaderIsElected ==
  \A n \in Server : role[n] = "leader" => <<currentTerm[n], n>> \in elected

\* Its NOOP, or what follows it, marks the log of a node that led its term: no
\* candidate of the same term looks up to date to it.
ElectedHasEntry ==
  \A e \in elected :
    /\ e[1] <= currentTerm[e[2]]
    /\ e[1] = currentTerm[e[2]] => LastTerm(log[e[2]]) = e[1]

EntriesAreNotAhead ==
  \A n \in Server : \A i \in 1..Len(log[n]) : log[n][i].term <= currentTerm[n]

NodeInv ==
  /\ VotesAreRemembered
  /\ OneVotePerTerm
  /\ ElectedByMajority
  /\ LeaderIsElected
  /\ ElectedHasEntry
  /\ EntriesAreNotAhead

CountedVotesAreGranted ==
  \A n \in Server :
    /\ \A v \in elec[n].voters : <<v, elec[n].term, n>> \in granted
    /\ \A r \in elec[n].reply : r.granted => <<r.from, r.term, n>> \in granted

CandidateLogIsOlder ==
  /\ \A n \in Server : elec[n].todo # {} => elec[n].llt < elec[n].term
  /\ \A req \in late : req.type = "vote" => req.llt < req.term

SentByElected(req) ==
  /\ <<req.term, req.from>> \in elected
  /\ req.from # req.to
  /\ \A i \in 1..Len(req.entries) : req.entries[i].term <= req.term

AppendsAreSentByElected ==
  /\ \A n \in Server, s \in Sender : \A req \in round[n][s].jobs : SentByElected(req)
  /\ \A req \in late : req.type = "append" => SentByElected(req)

ElectionInv ==
  /\ TypeOK
  /\ NodeInv
  /\ CountedVotesAreGranted
  /\ CandidateLogIsOlder
  /\ AppendsAreSentByElected
=============================================================================
