--------------------------- MODULE RaftNodeProofs ---------------------------
(***************************************************************************)
(* Proofs about RaftNode, for every number of servers, values and bounds.  *)
(***************************************************************************)
EXTENDS RaftNode, TLAPS, FiniteSetTheorems

\* A leaf is tried with SMT and then with Zenon, unless it names its prover.
USE SMTT(30), ZenonT(30)

\* Two majorities of the servers have a member in common.
LEMMA MajoritiesIntersect ==
  ASSUME NEW P \in SUBSET Server, NEW Q \in SUBSET Server,
         Cardinality(P) >= Majority, Cardinality(Q) >= Majority
  PROVE  P \cap Q # {}
<1>1. IsFiniteSet(P) /\ IsFiniteSet(Q) /\ IsFiniteSet(P \cup Q)
  BY ZenonT(60), ServerAssumption, FS_Subset, FS_Union
<1>2. Cardinality(P \cup Q) <= Cardinality(Server)
  BY ZenonT(60), ServerAssumption, FS_Subset, P \cup Q \subseteq Server
<1>3. Cardinality(P \cup Q)
        = Cardinality(P) + Cardinality(Q) - Cardinality(P \cap Q)
  BY ZenonT(60), <1>1, FS_Union
<1>4. /\ Cardinality(Server) \in Nat
      /\ Cardinality(P) \in Nat
      /\ Cardinality(Q) \in Nat
  BY ZenonT(60), ServerAssumption, <1>1, FS_CardinalityType
<1>5. Cardinality({}) = 0
  BY ZenonT(60), FS_EmptySet
<1> QED
  BY <1>2, <1>3, <1>4, <1>5 DEF Majority

-----------------------------------------------------------------------------
(* Types *)

\* RaftLog::AppendEntries makes a log of entries from a log of entries.
LEMMA AppendToLogType ==
  ASSUME NEW l \in Seq(Entry), NEW entries \in Seq(Entry), NEW prev \in Nat,
         prev <= Len(l)
  PROVE  /\ AppendToLog(l, prev, entries) \in Seq(Entry)
         /\ \A i \in 1..Len(AppendToLog(l, prev, entries)) :
              \/ i \in 1..Len(l) /\ AppendToLog(l, prev, entries)[i] = l[i]
              \/ \E k \in 1..Len(entries) :
                   AppendToLog(l, prev, entries)[i] = entries[k]
<1> DEFINE AgreesUpTo(i) ==
             i <= Len(l) /\ \A k \in prev + 1 .. i : l[k].term = entries[k - prev].term
           last == prev + Len(entries)
           new == [i \in 1..last |-> IF AgreesUpTo(i) THEN l[i] ELSE entries[i - prev]]
<1> HIDE DEF AgreesUpTo
<1>1. AppendToLog(l, prev, entries) = IF AgreesUpTo(last) THEN l ELSE new
  BY ZenonT(60) DEF AppendToLog, AgreesUpTo
<1>2. CASE AgreesUpTo(last)
  BY ZenonT(60), <1>1, <1>2
<1>3. CASE ~AgreesUpTo(last)
  <2>1. ASSUME NEW i \in 1..last
        PROVE  \/ i \in 1..Len(l) /\ new[i] = l[i]
               \/ i - prev \in 1..Len(entries) /\ new[i] = entries[i - prev]
    <3>1. CASE i <= prev
      <4>1. AgreesUpTo(i)
        BY <3>1 DEF AgreesUpTo
      <4> QED
        BY <3>1, <4>1
    <3>2. CASE i > prev
      <4>1. AgreesUpTo(i) => i <= Len(l)
        BY ZenonT(60) DEF AgreesUpTo
      <4> QED
        BY <3>2, <4>1
    <3> QED
      BY <3>1, <3>2
  <2>2. new \in Seq(Entry) /\ Len(new) = last
    <3>1. \A i \in 1..last : new[i] \in Entry
      BY <2>1
    <3> HIDE DEF new
    <3>2. last \in Nat /\ new = [i \in 1..last |-> new[i]]
      BY DEF new
    <3>3. new \in [1..last -> Entry]
      BY ZenonT(60), <3>1, <3>2
    <3> QED
      BY <3>2, <3>3
  <2> HIDE DEF new
  <2> QED
    BY ZenonT(60), <1>1, <1>3, <2>1, <2>2
<1> QED
  BY ZenonT(60), <1>2, <1>3

\* RaftLog::TermAt returns a term for every index.
LEMMA TermAtType ==
  ASSUME NEW l \in Seq(Entry), NEW i \in Int
  PROVE  TermAt(l, i) \in Nat
<1>1. i \in 1..Len(l) => l[i] \in Entry
  OBVIOUS
<1> QED
  BY ZenonT(60), <1>1 DEF TermAt, Entry

\* Appending an entry to a log makes a log.
LEMMA AppendType ==
  ASSUME NEW l \in Seq(Entry), NEW t \in Nat, NEW v \in Value \cup {NOOP}
  PROVE  Append(l, [term |-> t, val |-> v]) \in Seq(Entry)
<1>1. [term |-> t, val |-> v] \in Entry
  BY ZenonT(60) DEF Entry
<1> HIDE DEF Entry
<1> QED
  BY <1>1

\* The entries a request carries are a log of their own.
LEMMA SubSeqType ==
  ASSUME NEW l \in Seq(Entry), NEW m \in Nat \ {0}, NEW k \in Nat, k <= Len(l)
  PROVE  /\ SubSeq(l, m, k) \in Seq(Entry)
         /\ \A i \in 1..Len(SubSeq(l, m, k)) :
              m + i - 1 \in 1..Len(l) /\ SubSeq(l, m, k)[i] = l[m + i - 1]
<1>1. CASE m <= k
  BY <1>1
<1>2. CASE m > k
  <2>1. SubSeq(l, m, k) = <<>>
    BY <1>2
  <2> QED
    BY <2>1
<1> QED
  BY <1>1, <1>2

\* A thread outside a call is described by records of the right type.
LEMMA NoCallType == NoElection \in Election /\ NoRound \in Round
BY ZenonT(60) DEF NoElection, Election, NoRound, Round

\* The loop of SendAppendEntriesToAll keeps the type of its locals.
LEMMA RoundUpdateType ==
  ASSUME NEW rd \in Round, NEW jobs \in SUBSET rd.jobs, NEW ok \in Nat,
         NEW reply \in SUBSET AppendResponse
  PROVE  /\ [rd EXCEPT !.reply = reply] \in Round
         /\ [rd EXCEPT !.jobs = jobs, !.ok = ok, !.reply = reply] \in Round
BY ZenonT(60) DEF Round

\* The part of TypeOK about the nodes, and the part about calls.
NodeTypeOK ==
  /\ currentTerm \in [Server -> Nat]
  /\ votedFor \in [Server -> Server \cup {Nil}]
  /\ log \in [Server -> Seq(Entry)]
  /\ role \in [Server -> {"follower", "candidate", "leader"}]
  /\ commitIndex \in [Server -> Nat]
  /\ applied \in [Server -> Seq(Entry)]
  /\ nextIndex \in [Server -> [Server -> Nat \ {0}]]
  /\ matchIndex \in [Server -> [Server -> Nat]]
  /\ granted \subseteq Server \X Nat \X Server
  /\ elected \subseteq Nat \X Server
  /\ chosen \in Seq(Entry)
CallTypeOK ==
  /\ elec \in [Server -> Election]
  /\ round \in [Server -> [Sender -> Round]]
  /\ late \subseteq VoteRequest \cup AppendRequest
  /\ spent \in [Bounded -> Nat]

\* The type invariant, split into what nodes hold and what calls hold.
LEMMA TypeOKParts == TypeOK <=> NodeTypeOK /\ CallTypeOK
BY ZenonT(60) DEF TypeOK, NodeTypeOK, CallTypeOK

\* The same split after a step.
LEMMA TypeOKPartsNext == TypeOK' <=> NodeTypeOK' /\ CallTypeOK'
BY ZenonT(60) DEF TypeOK, NodeTypeOK, CallTypeOK

\* HandleRequestVote preserves the types of node state and of its reply.
LEMMA HandleRequestVoteType ==
  ASSUME NodeTypeOK, NEW p \in Server, NEW req \in VoteRequest,
         HandleRequestVote(p, req)
  PROVE  NodeTypeOK' /\ VoteReply(p, req) \in VoteResponse
<1>1. req.term \in Nat /\ req.from \in Server
  BY ZenonT(60) DEF VoteRequest
<1>2. Grants(p, req) \in BOOLEAN
  BY ZenonT(60) DEF Grants
<1>3. VoteReply(p, req) \in VoteResponse
  BY ZenonT(60), <1>1, <1>2 DEF VoteReply, VoteResponse, NodeTypeOK
<1>4. granted' \subseteq Server \X Nat \X Server
  <2>1. <<p, req.term, req.from>> \in Server \X Nat \X Server
    BY ZenonT(60), <1>1
  <2> QED
    BY ZenonT(60), <2>1 DEF HandleRequestVote, NodeTypeOK
<1>5. /\ currentTerm' \in [Server -> Nat]
      /\ votedFor' \in [Server -> Server \cup {Nil}]
      /\ role' \in [Server -> {"follower", "candidate", "leader"}]
  BY ZenonT(60), <1>1 DEF HandleRequestVote, NodeTypeOK
<1> QED
  BY ZenonT(60), <1>3, <1>4, <1>5 DEF HandleRequestVote, NodeTypeOK, leaderVars

\* StartElection preserves the types when a call has returned.
LEMMA VoteReturnsType ==
  ASSUME NodeTypeOK, elec \in [Server -> Election],
         NEW n \in Server, NEW r \in VoteResponse, VoteReturns(n, r),
         UNCHANGED <<commitIndex, applied, granted, chosen>>
  PROVE  NodeTypeOK' /\ elec' \in [Server -> Election]
<1> USE NoCallType
<1>1. r.term \in Nat /\ r.from \in Server
  BY ZenonT(60) DEF VoteResponse
<1> DEFINE voters == IF r.granted THEN elec[n].voters \cup {r.from} ELSE elec[n].voters
<1>2. /\ Without(elec[n], r.from, elec[n].voters) \in Election
      /\ Without(elec[n], r.from, voters) \in Election
  BY ZenonT(60), <1>1 DEF Without, Election
<1>3. Append(log[n], [term |-> currentTerm[n], val |-> NOOP]) \in Seq(Entry)
  BY ZenonT(60), AppendType DEF NodeTypeOK
<1>4. elec' \in [Server -> Election]
  BY ZenonT(60), <1>2 DEF VoteReturns
<1>5. CASE BecomeFollower(n, r.term) /\ UNCHANGED <<log, leaderVars, elected>>
  BY ZenonT(60), <1>1, <1>4, <1>5 DEF BecomeFollower, NodeTypeOK, leaderVars
<1>6. CASE UNCHANGED <<currentTerm, votedFor, role, log, leaderVars, elected>>
  BY ZenonT(60), <1>4, <1>6 DEF NodeTypeOK, leaderVars
<1>7. CASE BecomeLeader(n) /\ UNCHANGED <<currentTerm, votedFor>>
  <2>1. log' \in [Server -> Seq(Entry)]
    BY ZenonT(60), <1>3, <1>7 DEF BecomeLeader, NodeTypeOK
  <2>2. LastIndex(log[n]) + 1 \in Nat \ {0}
    BY DEF LastIndex, NodeTypeOK
  <2>3. /\ nextIndex' \in [Server -> [Server -> Nat \ {0}]]
        /\ matchIndex' \in [Server -> [Server -> Nat]]
        /\ role' \in [Server -> {"follower", "candidate", "leader"}]
    BY ZenonT(60), <1>7, <2>2 DEF BecomeLeader, NodeTypeOK
  <2>4. elected' \subseteq Nat \X Server
    BY <1>7 DEF BecomeLeader, NodeTypeOK
  <2> QED
    BY ZenonT(60), <1>4, <1>7, <2>1, <2>3, <2>4 DEF NodeTypeOK
<1> QED
  BY ZenonT(60), <1>5, <1>6, <1>7 DEF VoteReturns

\* HandleAppendEntries preserves the types of node state and of its reply.
LEMMA HandleAppendEntriesType ==
  ASSUME NodeTypeOK, NEW p \in Server, NEW req \in AppendRequest,
         HandleAppendEntries(p, req)
  PROVE  NodeTypeOK' /\ AppendReply(p, req) \in AppendResponse
<1>1. /\ req.term \in Nat /\ req.prev \in Nat /\ req.commit \in Nat
      /\ req.entries \in Seq(Entry)
  BY ZenonT(60) DEF AppendRequest
<1>2. Accepts(p, req) \in BOOLEAN
  BY ZenonT(60) DEF Accepts
<1>3. Accepts(p, req) => req.prev <= Len(log[p])
  BY <1>1 DEF Accepts, LastIndex, NodeTypeOK
<1> DEFINE l == IF Accepts(p, req) THEN AppendToLog(log[p], req.prev, req.entries)
                                   ELSE log[p]
           c == IF Accepts(p, req) THEN Larger(commitIndex[p], Smaller(req.commit, Len(l)))
                                   ELSE commitIndex[p]
<1>4. l \in Seq(Entry)
  BY ZenonT(60), <1>1, <1>3, AppendToLogType DEF NodeTypeOK
<1>5. /\ log' = [log EXCEPT ![p] = l]
      /\ commitIndex' = [commitIndex EXCEPT ![p] = c]
  BY ZenonT(60) DEF HandleAppendEntries
<1> HIDE DEF l
<1>6. Len(l) \in Nat
  BY <1>4
<1>7. Smaller(req.commit, Len(l)) \in Nat
  BY ZenonT(60), <1>1, <1>6 DEF Smaller
<1>8. c \in Nat
  BY ZenonT(60), <1>7 DEF Larger, NodeTypeOK
<1> HIDE DEF c
<1>9. AppendReply(p, req) \in AppendResponse
  BY <1>1, <1>2 DEF AppendReply, AppendResponse, NodeTypeOK
<1>10. /\ currentTerm' \in [Server -> Nat]
       /\ votedFor' \in [Server -> Server \cup {Nil}]
       /\ role' \in [Server -> {"follower", "candidate", "leader"}]
  BY ZenonT(60), <1>1 DEF HandleAppendEntries, NodeTypeOK
<1>11. log' \in [Server -> Seq(Entry)] /\ commitIndex' \in [Server -> Nat]
  BY ZenonT(60), <1>4, <1>5, <1>8 DEF NodeTypeOK
<1> QED
  BY ZenonT(60), <1>9, <1>10, <1>11 DEF HandleAppendEntries, NodeTypeOK, leaderVars, historyVars

\* AdvanceCommitIndexLocked sets commit_index_ to an index.
LEMMA AdvanceCommitType ==
  ASSUME NodeTypeOK, NEW n \in Server, NEW m, AdvanceCommitIndexLocked(n, m)
  PROVE  commitIndex' \in [Server -> Nat]
<1>1. Committable(n, m) \subseteq Nat
  BY DEF Committable, NodeTypeOK, LastIndex
<1> QED
  BY ZenonT(60), <1>1 DEF AdvanceCommitIndexLocked, NodeTypeOK

\* ProcessAppendEntriesResponse preserves the types; next_index_ stays above 0.
LEMMA ProcessAppendType ==
  ASSUME NodeTypeOK, NEW n \in Server, NEW r \in AppendResponse, NEW t,
         ProcessAppendEntriesResponse(n, r, t),
         UNCHANGED <<log, applied, historyVars>>
  PROVE  NodeTypeOK'
<1>1. r.term \in Nat /\ r.from \in Server /\ r.match \in Nat
  BY ZenonT(60) DEF AppendResponse
<1>2. CASE BecomeFollower(n, r.term) /\ UNCHANGED <<commitIndex, leaderVars>>
  BY ZenonT(60), <1>1, <1>2 DEF BecomeFollower, NodeTypeOK, leaderVars, historyVars
<1>3. CASE UNCHANGED <<currentTerm, votedFor, role, commitIndex, leaderVars>>
  BY ZenonT(60), <1>3 DEF NodeTypeOK, leaderVars, historyVars
<1>6. /\ nextIndex[n][r.from] \in Nat \ {0}
      /\ matchIndex[n][r.from] \in Nat
  <2>1. /\ nextIndex[n] \in [Server -> Nat \ {0}]
        /\ matchIndex[n] \in [Server -> Nat]
    BY ZenonT(60) DEF NodeTypeOK
  <2> QED
    BY ZenonT(60), <1>1, <2>1
<1>4. CASE /\ nextIndex' = [nextIndex EXCEPT ![n][r.from] = Larger(1, @ - 1)]
           /\ UNCHANGED <<currentTerm, votedFor, role, commitIndex, matchIndex>>
  <2>1. Larger(1, nextIndex[n][r.from] - 1) \in Nat \ {0}
    BY <1>6 DEF Larger
  <2>2. nextIndex' \in [Server -> [Server -> Nat \ {0}]]
    BY ZenonT(60), <1>1, <1>4, <2>1 DEF NodeTypeOK
  <2> QED
    BY ZenonT(60), <1>4, <2>2 DEF NodeTypeOK, historyVars
<1>5. CASE /\ matchIndex' = [matchIndex EXCEPT ![n][r.from] = Larger(@, r.match)]
           /\ nextIndex' = [nextIndex EXCEPT ![n][r.from] = Larger(@, r.match + 1)]
           /\ AdvanceCommitIndexLocked(n, matchIndex'[n])
           /\ UNCHANGED <<currentTerm, votedFor, role>>
  <2>1. /\ Larger(nextIndex[n][r.from], r.match + 1) \in Nat \ {0}
        /\ Larger(matchIndex[n][r.from], r.match) \in Nat
    BY <1>1, <1>6 DEF Larger
  <2>2. /\ nextIndex' \in [Server -> [Server -> Nat \ {0}]]
        /\ matchIndex' \in [Server -> [Server -> Nat]]
    BY ZenonT(60), <1>1, <1>5, <2>1 DEF NodeTypeOK
  <2>3. commitIndex' \in [Server -> Nat]
    BY ZenonT(60), <1>5, AdvanceCommitType
  <2> QED
    BY ZenonT(60), <1>5, <2>2, <2>3 DEF NodeTypeOK, historyVars
<1> QED
  BY ZenonT(60), <1>2, <1>3, <1>4, <1>5 DEF ProcessAppendEntriesResponse

\* Every action preserves the type invariant.
LEMMA TypeInductive == TypeOK /\ [Next]_vars => TypeOK'
<1> SUFFICES ASSUME NodeTypeOK, CallTypeOK, [Next]_vars PROVE NodeTypeOK' /\ CallTypeOK'
  BY ZenonT(60), TypeOKParts, TypeOKPartsNext
<1> USE NoCallType
<1>0. ASSUME NEW b \in Bounded, Spend(b) PROVE spent' \in [Bounded -> Nat]
  BY <1>0 DEF Spend, CallTypeOK
<1>1. ASSUME NEW n \in Server, StartElection(n) PROVE NodeTypeOK' /\ CallTypeOK'
  <2>1. LastTerm(log[n]) \in Nat /\ LastIndex(log[n]) \in Nat
    BY TermAtType DEF LastTerm, LastIndex, NodeTypeOK
  <2> DEFINE e == [term |-> currentTerm[n] + 1, lli |-> LastIndex(log[n]),
                   llt |-> LastTerm(log[n]), todo |-> Peers(n), voters |-> {n},
                   reply |-> {}]
  <2>2. e \in Election
    BY <2>1 DEF Election, NodeTypeOK, Peers
  <2>3. elec' = [elec EXCEPT ![n] = IF Peers(n) = {} THEN NoElection ELSE e]
    BY ZenonT(60), <1>1 DEF StartElection
  <2> HIDE DEF e
  <2>4. elec' \in [Server -> Election]
    BY ZenonT(60), <2>2, <2>3 DEF CallTypeOK
  <2>5. spent' \in [Bounded -> Nat]
    BY ZenonT(60), <1>0, <1>1 DEF StartElection, Bounded
  <2>6. /\ currentTerm' \in [Server -> Nat]
        /\ votedFor' \in [Server -> Server \cup {Nil}]
        /\ role' \in [Server -> {"follower", "candidate", "leader"}]
    BY <1>1 DEF StartElection, NodeTypeOK
  <2>7. granted' \subseteq Server \X Nat \X Server
    <3>1. <<n, currentTerm[n] + 1, n>> \in Server \X Nat \X Server
      BY DEF NodeTypeOK
    <3> QED
      BY ZenonT(60), <1>1, <3>1 DEF StartElection, NodeTypeOK
  <2> QED
    BY ZenonT(60), <1>1, <2>4, <2>5, <2>6, <2>7 DEF StartElection, NodeTypeOK, CallTypeOK, leaderVars
<1>2. ASSUME NEW n \in Server, VoteReplied(n) PROVE NodeTypeOK' /\ CallTypeOK'
  <2>1. PICK r \in elec[n].reply : VoteReturns(n, r)
    BY ZenonT(60), <1>2 DEF VoteReplied
  <2>2. r \in VoteResponse
    BY ZenonT(60), <2>1 DEF CallTypeOK, Election
  <2> QED
    BY ZenonT(60), <1>2, <2>1, <2>2, VoteReturnsType DEF VoteReplied, CallTypeOK
<1>3. ASSUME NEW n \in Server, NEW p \in Peers(n), AskVote(n, p)
      PROVE  NodeTypeOK' /\ CallTypeOK'
  <2>1. VoteRequestOf(n, p) \in VoteRequest /\ p \in Server
    BY ZenonT(60) DEF VoteRequestOf, VoteRequest, CallTypeOK, Election, Peers
  <2>2. NodeTypeOK' /\ VoteReply(p, VoteRequestOf(n, p)) \in VoteResponse
    BY ZenonT(60), <1>3, <2>1, HandleRequestVoteType DEF AskVote
  <2>3. [elec[n] EXCEPT !.reply = {VoteReply(p, VoteRequestOf(n, p))}] \in Election
    BY ZenonT(60), <2>2 DEF CallTypeOK, Election
  <2> QED
    BY ZenonT(60), <1>3, <2>2, <2>3 DEF AskVote, HandleRequestVote, CallTypeOK
<1>4. ASSUME NEW n \in Server, NEW p \in Peers(n), VoteFailed(n, p)
      PROVE  NodeTypeOK' /\ CallTypeOK'
  <2>1. [from |-> p, term |-> 0, granted |-> FALSE] \in VoteResponse
    BY ZenonT(60) DEF VoteResponse, Peers
  <2>2. NodeTypeOK' /\ elec' \in [Server -> Election]
    BY ZenonT(60), <1>4, <2>1, VoteReturnsType DEF VoteFailed, CallTypeOK
  <2>3. VoteRequestOf(n, p) \in VoteRequest
    BY ZenonT(60) DEF VoteRequestOf, VoteRequest, CallTypeOK, Election, Peers
  <2>4. late' \subseteq VoteRequest \cup AppendRequest
    BY ZenonT(60), <1>4, <2>3 DEF VoteFailed, GiveUp, CallTypeOK
  <2>5. spent' \in [Bounded -> Nat]
    BY ZenonT(60), <1>0, <1>4 DEF VoteFailed, Bounded
  <2> QED
    BY ZenonT(60), <1>4, <2>2, <2>4, <2>5 DEF VoteFailed, CallTypeOK
<1>5. ASSUME NEW n \in Server, TickAdvance(n) PROVE NodeTypeOK' /\ CallTypeOK'
  BY ZenonT(60), <1>5, AdvanceCommitType
     DEF TickAdvance, NodeTypeOK, CallTypeOK, persistVars, leaderVars, callVars, historyVars
<1>6. ASSUME NEW n \in Server, ApplyCommitted(n) PROVE NodeTypeOK' /\ CallTypeOK'
  <2> DEFINE last == Smaller(commitIndex[n], LastIndex(log[n]))
             more == SubSeq(log[n], Len(applied[n]) + 1, last)
  <2>1. last \in Nat /\ last <= Len(log[n])
    BY DEF Smaller, NodeTypeOK, LastIndex
  <2>2. applied' = [applied EXCEPT ![n] = applied[n] \o more]
    BY ZenonT(60), <1>6 DEF ApplyCommitted
  <2> HIDE DEF last
  <2>3. Len(applied[n]) + 1 \in Nat \ {0} /\ log[n] \in Seq(Entry)
    BY DEF NodeTypeOK
  <2>4. more \in Seq(Entry)
    BY ZenonT(60), <2>1, <2>3, SubSeqType
  <2> HIDE DEF more
  <2>5. applied' \in [Server -> Seq(Entry)]
    BY <2>2, <2>4 DEF NodeTypeOK
  <2>6. chosen' \in Seq(Entry)
    BY ZenonT(60), <1>6, <2>5 DEF ApplyCommitted, NodeTypeOK
  <2> QED
    BY ZenonT(60), <1>6, <2>5, <2>6
       DEF ApplyCommitted, NodeTypeOK, CallTypeOK, persistVars, leaderVars, callVars
<1>7. ASSUME NEW n \in Server, NEW s \in Sender, StartRound(n, s)
      PROVE  NodeTypeOK' /\ CallTypeOK'
  <2>1. ASSUME NEW p \in Peers(n) PROVE AppendRequestFor(n, p) \in AppendRequest
    <3> DEFINE prev == nextIndex[n][p] - 1
    <3>1. prev \in Nat /\ p \in Server /\ log[n] \in Seq(Entry) /\ Len(log[n]) \in Nat
      BY DEF NodeTypeOK, Peers
    <3>2. AppendRequestFor(n, p) =
            [type |-> "append", from |-> n, to |-> p, term |-> currentTerm[n],
             prev |-> prev, prevTerm |-> TermAt(log[n], prev),
             entries |-> SubSeq(log[n], prev + 1, LastIndex(log[n])),
             commit |-> commitIndex[n]]
      BY ZenonT(60) DEF AppendRequestFor
    <3> HIDE DEF prev
    <3>3. TermAt(log[n], prev) \in Nat
      BY <3>1, TermAtType
    <3>4. SubSeq(log[n], prev + 1, LastIndex(log[n])) \in Seq(Entry)
      BY <3>1, SubSeqType DEF LastIndex
    <3> QED
      BY <3>1, <3>2, <3>3, <3>4 DEF AppendRequest, NodeTypeOK
  <2> DEFINE rd == [term |-> currentTerm[n],
                    jobs |-> {AppendRequestFor(n, p) : p \in Peers(n)},
                    ok |-> 0, reply |-> {}]
  <2>2. rd \in Round
    BY <2>1 DEF Round, NodeTypeOK
  <2>3. round' = [round EXCEPT ![n][s] = rd]
    BY ZenonT(60), <1>7 DEF StartRound
  <2> HIDE DEF rd
  <2>4. round' \in [Server -> [Sender -> Round]]
    BY ZenonT(60), <2>2, <2>3 DEF CallTypeOK
  <2>5. spent' \in [Bounded -> Nat]
    BY ZenonT(60), <1>0, <1>7 DEF StartRound, Bounded
  <2> QED
    BY ZenonT(60), <1>7, <2>4, <2>5
       DEF StartRound, NodeTypeOK, CallTypeOK, persistVars, leaderVars, historyVars
<1>8. ASSUME NEW n \in Server, NEW s \in Sender, NEW r \in AppendResponse,
             NextJob(n, s, r)
      PROVE  round' \in [Server -> [Sender -> Round]]
  <2> DEFINE old == round[n][s]
             jobs == {q \in old.jobs : q.to # r.from}
             ok == IF r.success THEN old.ok + 1 ELSE old.ok
  <2>1. old \in Round
    BY ZenonT(60) DEF CallTypeOK
  <2>2. jobs \subseteq old.jobs /\ ok \in Nat
    BY <2>1 DEF Round
  <2>3. round' = [round EXCEPT ![n][s] =
                    [old EXCEPT !.jobs = jobs, !.ok = ok, !.reply = {}]]
    BY ZenonT(60), <1>8 DEF NextJob, CallTypeOK
  <2> HIDE DEF old, jobs, ok
  <2>4. [old EXCEPT !.jobs = jobs, !.ok = ok, !.reply = {}] \in Round
    BY ZenonT(60), <2>1, <2>2, RoundUpdateType
  <2> QED
    BY ZenonT(60), <2>3, <2>4 DEF CallTypeOK
<1>9. ASSUME NEW n \in Server, NEW s \in Sender, AppendReplied(n, s)
      PROVE  NodeTypeOK' /\ CallTypeOK'
  <2>1. PICK r \in round[n][s].reply :
          ProcessAppendEntriesResponse(n, r, round[n][s].term) /\ NextJob(n, s, r)
    BY ZenonT(60), <1>9 DEF AppendReplied
  <2>2. r \in AppendResponse
    BY ZenonT(60) DEF CallTypeOK, Round
  <2> QED
    BY ZenonT(60), <1>8, <1>9, <2>1, <2>2, ProcessAppendType DEF AppendReplied, CallTypeOK
<1>10. ASSUME NEW n \in Server, NEW s \in Sender, EndRound(n, s)
       PROVE  NodeTypeOK' /\ CallTypeOK'
  <2>1. round' \in [Server -> [Sender -> Round]]
    BY ZenonT(60), <1>10 DEF EndRound, CallTypeOK
  <2>2. /\ currentTerm' \in [Server -> Nat]
        /\ votedFor' \in [Server -> Server \cup {Nil}]
        /\ role' \in [Server -> {"follower", "candidate", "leader"}]
    BY ZenonT(60), <1>10 DEF EndRound, BecomeFollower, NodeTypeOK
  <2> QED
    BY ZenonT(60), <1>10, <2>1, <2>2 DEF EndRound, NodeTypeOK, CallTypeOK, leaderVars, historyVars
<1>11. ASSUME NEW n \in Server, NEW s \in Sender, NEW req \in round[n][s].jobs
       PROVE  req \in AppendRequest /\ req.to \in Server
  BY DEF CallTypeOK, Round, AppendRequest
<1>12. ASSUME NEW n \in Server, NEW s \in Sender, NEW req \in round[n][s].jobs,
              AskAppend(n, s, req)
       PROVE  NodeTypeOK' /\ CallTypeOK'
  <2>1. NodeTypeOK' /\ AppendReply(req.to, req) \in AppendResponse
    BY ZenonT(60), <1>11, <1>12, HandleAppendEntriesType DEF AskAppend
  <2> DEFINE old == round[n][s]
             new == [old EXCEPT !.reply = {AppendReply(req.to, req)}]
  <2>2. new \in Round
    <3>1. old \in Round /\ old.jobs \subseteq old.jobs /\ old.ok \in Nat
      BY ZenonT(60) DEF CallTypeOK, Round
    <3> HIDE DEF old
    <3> QED
      BY ZenonT(60), <2>1, <3>1, RoundUpdateType
  <2>3. round' = [round EXCEPT ![n][s] = new]
    BY ZenonT(60), <1>12 DEF AskAppend, CallTypeOK
  <2> HIDE DEF old, new
  <2>4. round' \in [Server -> [Sender -> Round]]
    BY ZenonT(60), <2>2, <2>3 DEF CallTypeOK
  <2> QED
    BY ZenonT(60), <1>12, <2>1, <2>4 DEF AskAppend, HandleAppendEntries, CallTypeOK
<1>13. ASSUME NEW n \in Server, NEW s \in Sender, NEW req \in round[n][s].jobs,
              AppendFailed(n, s, req)
       PROVE  NodeTypeOK' /\ CallTypeOK'
  <2> DEFINE r == [from |-> req.to, term |-> 0, success |-> FALSE, match |-> 0]
  <2>1. r \in AppendResponse
    BY ZenonT(60), <1>11 DEF AppendResponse
  <2>2. ProcessAppendEntriesResponse(n, r, round[n][s].term) /\ NextJob(n, s, r)
    BY ZenonT(60), <1>13 DEF AppendFailed
  <2> HIDE DEF r
  <2>3. NodeTypeOK'
    BY ZenonT(60), <1>13, <2>1, <2>2, ProcessAppendType DEF AppendFailed
  <2>4. round' \in [Server -> [Sender -> Round]]
    BY ZenonT(60), <1>8, <2>1, <2>2
  <2>5. late' \subseteq VoteRequest \cup AppendRequest
    BY <1>11, <1>13 DEF AppendFailed, GiveUp, CallTypeOK
  <2>6. spent' \in [Bounded -> Nat]
    BY ZenonT(60), <1>0, <1>13 DEF AppendFailed, Bounded
  <2> QED
    BY ZenonT(60), <1>13, <2>3, <2>4, <2>5, <2>6 DEF AppendFailed, CallTypeOK
<1>14. ASSUME NEW n \in Server, NEW s \in Sender, NEW req \in round[n][s].jobs,
              DuplicateAppend(n, s, req)
       PROVE  NodeTypeOK' /\ CallTypeOK'
  <2>1. spent' \in [Bounded -> Nat]
    BY ZenonT(60), <1>0, <1>14 DEF DuplicateAppend, Bounded
  <2> QED
    BY ZenonT(60), <1>11, <1>14, <2>1
       DEF DuplicateAppend, NodeTypeOK, CallTypeOK, persistVars, leaderVars, callVars,
           historyVars
<1>15. ASSUME NEW req \in late, LateArrives(req) PROVE NodeTypeOK' /\ CallTypeOK'
  <2>1. CASE req.type = "vote" /\ HandleRequestVote(req.to, req) /\ UNCHANGED elec
    <3>1. req \in VoteRequest /\ req.to \in Server
      BY ZenonT(60), <2>1 DEF CallTypeOK, VoteRequest, AppendRequest
    <3> QED
      BY ZenonT(60), <1>15, <2>1, <3>1, HandleRequestVoteType
         DEF LateArrives, HandleRequestVote, CallTypeOK
  <2>2. CASE req.type = "append" /\ HandleAppendEntries(req.to, req)
    <3>1. req \in AppendRequest /\ req.to \in Server
      BY ZenonT(60), <2>2 DEF CallTypeOK, VoteRequest, AppendRequest
    <3> QED
      BY ZenonT(60), <1>15, <2>2, <3>1, HandleAppendEntriesType
         DEF LateArrives, HandleAppendEntries, CallTypeOK
  <2> QED
    BY ZenonT(60), <1>15, <2>1, <2>2 DEF LateArrives
<1>16. ASSUME NEW n \in Server, Restart(n) PROVE NodeTypeOK' /\ CallTypeOK'
  <2>1. spent' \in [Bounded -> Nat]
    BY ZenonT(60), <1>0, <1>16 DEF Restart, Bounded
  <2>2. /\ elec' \in [Server -> Election]
        /\ round' \in [Server -> [Sender -> Round]]
    BY ZenonT(60), <1>16 DEF Restart, CallTypeOK
  <2>3. /\ role' \in [Server -> {"follower", "candidate", "leader"}]
        /\ commitIndex' \in [Server -> Nat]
        /\ applied' \in [Server -> Seq(Entry)]
        /\ nextIndex' \in [Server -> [Server -> Nat \ {0}]]
        /\ matchIndex' \in [Server -> [Server -> Nat]]
    BY <1>16 DEF Restart, NodeTypeOK
  <2> QED
    BY ZenonT(60), <1>16, <2>1, <2>2, <2>3 DEF Restart, NodeTypeOK, CallTypeOK, persistVars, historyVars
<1>17. ASSUME NEW n \in Server, NEW v \in Value, Propose(n, v)
       PROVE  NodeTypeOK' /\ CallTypeOK'
  <2>1. Append(log[n], [term |-> currentTerm[n], val |-> v]) \in Seq(Entry)
    BY ZenonT(60), AppendType DEF NodeTypeOK
  <2>2. log' \in [Server -> Seq(Entry)]
    BY ZenonT(60), <1>17, <2>1 DEF Propose, NodeTypeOK
  <2> QED
    BY ZenonT(60), <1>17, <2>2
       DEF Propose, NodeTypeOK, CallTypeOK, persistVars, leaderVars, callVars, historyVars
<1>18. CASE UNCHANGED vars
  BY ZenonT(60), <1>18 DEF NodeTypeOK, CallTypeOK, vars
<1> QED
  BY ZenonT(60), <1>1, <1>2, <1>3, <1>4, <1>5, <1>6, <1>7, <1>9, <1>10, <1>12, <1>13, <1>14,
     <1>15, <1>16, <1>17, <1>18 DEF Next, GroupStep

\* The type invariant holds in every reachable state.
THEOREM TypeCorrect == Spec => []TypeOK
<1>1. Init => TypeOK
  BY NoCallType DEF Init, TypeOK, Bounded
<1> QED
  BY <1>1, TypeInductive, PTL DEF Spec

-----------------------------------------------------------------------------
(* Pieces of logs *)

\* A piece is what an AppendEntries request carries: the entries after index
\* prev and the term of the entry at prev.  A whole log is one too.
LogPiece(l) == [prev |-> 0, prevTerm |-> 0, entries |-> l]

IsPiece(a) == a.prev \in Nat /\ a.prevTerm \in Nat /\ a.entries \in Seq(Entry)

Covers(a, k) == k > a.prev /\ k <= a.prev + Len(a.entries)
EntryAt(a, k) == a.entries[k - a.prev]
At(a, k) == IF k = a.prev THEN a.prevTerm ELSE EntryAt(a, k).term

\* Where a and b have an entry of the same term, they agree on all before it
\* that both cover.
Match(a, b) ==
  \A k \in Nat :
    Covers(a, k) /\ Covers(b, k) /\ EntryAt(a, k).term = EntryAt(b, k).term =>
      \A j \in 0..k :
        j >= a.prev /\ j >= b.prev =>
          /\ At(a, j) = At(b, j)
          /\ Covers(a, j) /\ Covers(b, j) => EntryAt(a, j) = EntryAt(b, j)

\* No entry of term t of the piece is beyond index len.
Within(a, t, len) == \A k \in Nat : Covers(a, k) /\ EntryAt(a, k).term = t => k <= len

\* The piece that is a whole log.
LEMMA LogPieceFacts ==
  ASSUME NEW l \in Seq(Entry)
  PROVE  /\ IsPiece(LogPiece(l))
         /\ LogPiece(l).prev = 0 /\ LogPiece(l).prevTerm = 0
         /\ \A k \in Nat : Covers(LogPiece(l), k) <=> k \in 1..Len(l)
         /\ \A k \in Nat : EntryAt(LogPiece(l), k) = l[k]
<1> DEFINE a == LogPiece(l)
<1>1. a.prev = 0 /\ a.prevTerm = 0 /\ a.entries = l
  BY ZenonT(60) DEF LogPiece
<1> HIDE DEF a
<1>2. IsPiece(a) /\ \A k \in Nat : Covers(a, k) <=> k \in 1..Len(l)
  BY <1>1 DEF IsPiece, Covers
<1>3. \A k \in Nat : EntryAt(a, k) = l[k]
  <2> SUFFICES ASSUME NEW k \in Nat PROVE EntryAt(a, k) = l[k]
    BY ZenonT(60)
  <2>1. k - 0 = k
    OBVIOUS
  <2> QED
    BY ZenonT(60), <1>1, <2>1 DEF EntryAt
<1> QED
  BY ZenonT(60), <1>1, <1>2, <1>3 DEF a

LEMMA MatchSymmetric ==
  ASSUME NEW a, NEW b, Match(a, b)
  PROVE  Match(b, a)
BY ZenonT(60) DEF Match

LEMMA MatchSelf ==
  ASSUME NEW a
  PROVE  Match(a, a)
BY ZenonT(60) DEF Match

\* A slice of a log matches what the log matches.
LEMMA SliceMatches ==
  ASSUME NEW l \in Seq(Entry), NEW a, NEW b, IsPiece(a), IsPiece(b),
         \A k \in Nat : Covers(a, k) => k \in 1..Len(l) /\ EntryAt(a, k) = l[k],
         a.prev > 0 /\ a.entries # <<>> => a.prevTerm = l[a.prev].term,
         a.prev = 0 => a.prevTerm = 0,
         Match(LogPiece(l), b)
  PROVE  Match(a, b)
<1> DEFINE c == LogPiece(l)
<1>1. /\ c.prev = 0 /\ c.prevTerm = 0 /\ \A k \in Nat : Covers(c, k) <=> k \in 1..Len(l)
      /\ \A k \in Nat : EntryAt(c, k) = l[k]
  BY ZenonT(60), LogPieceFacts
<1>2. Match(c, b)
  BY ZenonT(60)
<1> HIDE DEF c
<1> SUFFICES ASSUME NEW k \in Nat, Covers(a, k), Covers(b, k),
                    EntryAt(a, k).term = EntryAt(b, k).term,
                    NEW j \in 0..k, j >= a.prev, j >= b.prev
             PROVE  /\ At(a, j) = At(b, j)
                    /\ Covers(a, j) /\ Covers(b, j) => EntryAt(a, j) = EntryAt(b, j)
  BY ZenonT(60) DEF Match
<1>3. Covers(c, k) /\ EntryAt(c, k) = EntryAt(a, k)
  BY ZenonT(60), <1>1
<1>4. /\ j >= c.prev => At(c, j) = At(b, j)
      /\ j >= c.prev => (Covers(c, j) /\ Covers(b, j) => EntryAt(c, j) = EntryAt(b, j))
  BY ZenonT(60), <1>2, <1>3 DEF Match
<1>5. a.prev \in Nat /\ j \in Nat /\ Len(a.entries) \in Nat /\ a.entries # <<>>
  BY DEF IsPiece, Covers
<1>6. At(a, j) = At(c, j)
  <2>1. CASE j = a.prev
    <3>1. CASE j = 0
      BY ZenonT(60), <1>1, <2>1, <3>1 DEF At
    <3>2. CASE j > 0
      BY ZenonT(60), <1>1, <1>5, <2>1, <3>2 DEF At
    <3> QED
      BY <1>5, <3>1, <3>2
  <2>2. CASE j > a.prev
    <3>1. Covers(a, j)
      BY <1>5, <2>2 DEF Covers
    <3>2. EntryAt(a, j) = EntryAt(c, j) /\ j # c.prev
      BY <1>1, <1>5, <2>2, <3>1
    <3> QED
      BY <1>5, <2>2, <3>2 DEF At
  <2> QED
    BY <1>5, <2>1, <2>2
<1>7. Covers(a, j) => Covers(c, j) /\ EntryAt(a, j) = EntryAt(c, j)
  BY ZenonT(60), <1>1, <1>5
<1> QED
  BY <1>1, <1>4, <1>5, <1>6, <1>7

\* A log with one more entry matches what it matched, if nobody has an entry of
\* that term at its index.
LEMMA ExtendMatches ==
  ASSUME NEW l \in Seq(Entry), NEW e \in Entry, NEW b, IsPiece(b),
         Match(LogPiece(l), b), Within(b, e.term, Len(l))
  PROVE  Match(LogPiece(Append(l, e)), b)
<1> DEFINE m == Append(l, e)
           c == LogPiece(l)
           d == LogPiece(m)
<1>0. m \in Seq(Entry) /\ Len(m) = Len(l) + 1 /\ m[Len(l) + 1] = e /\ \A k \in 1..Len(l) : m[k] = l[k]
  OBVIOUS
<1> HIDE DEF m
<1>1. /\ c.prev = 0 /\ c.prevTerm = 0 /\ \A k \in Nat : Covers(c, k) <=> k \in 1..Len(l)
      /\ \A k \in Nat : EntryAt(c, k) = l[k]
  BY ZenonT(60), LogPieceFacts
<1>2. /\ d.prev = 0 /\ d.prevTerm = 0 /\ \A k \in Nat : Covers(d, k) <=> k \in 1..Len(m)
      /\ \A k \in Nat : EntryAt(d, k) = m[k]
  BY ZenonT(60), <1>0, LogPieceFacts
<1>3. Match(c, b)
  BY ZenonT(60)
<1> HIDE DEF c, d
<1>4. ASSUME NEW k \in Nat, Covers(d, k), Covers(b, k),
             EntryAt(d, k).term = EntryAt(b, k).term,
             NEW j \in 0..k, j >= d.prev, j >= b.prev
      PROVE  /\ At(d, j) = At(b, j)
             /\ Covers(d, j) /\ Covers(b, j) => EntryAt(d, j) = EntryAt(b, j)
  <2>1. k \in 1..Len(l)
    <3>1. k # Len(l) + 1
      <4>1. k = Len(l) + 1 => EntryAt(d, k) = e
        BY ZenonT(60), <1>0, <1>2
      <4> QED
        BY <1>4, <4>1 DEF Within
    <3> QED
      BY <1>0, <1>2, <1>4, <3>1
  <2>2. \A i \in 1..k : EntryAt(c, i) = EntryAt(d, i) /\ Covers(c, i) /\ Covers(d, i)
    BY <1>0, <1>1, <1>2, <2>1
  <2>3. At(c, j) = At(b, j) /\ (Covers(c, j) /\ Covers(b, j) => EntryAt(c, j) = EntryAt(b, j))
    <3>1. Covers(c, k) /\ EntryAt(c, k).term = EntryAt(b, k).term /\ j >= c.prev
      BY <1>1, <1>4, <2>1, <2>2
    <3> QED
      BY ZenonT(60), <1>3, <1>4, <3>1 DEF Match
  <2>4. At(c, j) = At(d, j)
    BY <1>1, <1>2, <2>2 DEF At
  <2> QED
    BY <1>1, <1>2, <2>2, <2>3, <2>4
<1>5. Match(d, b)
  BY ZenonT(60), <1>4 DEF Match
<1> QED
  BY ZenonT(60), <1>5 DEF d, m

\* What RaftLog::AppendEntries makes of a log and a request that it matches: the

\* log as it was, or its part up to prev followed by the request's entries.
LEMMA AppendToLogJoins ==
  ASSUME NEW l \in Seq(Entry), NEW r, IsPiece(r), r.prev <= Len(l),
         Match(LogPiece(l), r)
  PROVE  LET m == AppendToLog(l, r.prev, r.entries)
         IN  \/ m = l
             \/ /\ m \in Seq(Entry) /\ Len(m) = r.prev + Len(r.entries)
                /\ \A k \in 1..r.prev : m[k] = l[k]
                /\ \A k \in Nat : Covers(r, k) => m[k] = EntryAt(r, k)
<1> DEFINE prev == r.prev
           entries == r.entries
           AgreesUpTo(i) ==
             i <= Len(l) /\ \A k \in prev + 1 .. i : l[k].term = entries[k - prev].term
           last == prev + Len(entries)
           new == [i \in 1..last |-> IF AgreesUpTo(i) THEN l[i] ELSE entries[i - prev]]
           c == LogPiece(l)
<1>0. prev \in Nat /\ entries \in Seq(Entry) /\ Len(entries) \in Nat /\ last \in Nat
  BY DEF IsPiece
<1>1. AppendToLog(l, prev, entries) = IF AgreesUpTo(last) THEN l ELSE new
  BY ZenonT(60) DEF AppendToLog
<1>2. /\ c.prev = 0 /\ c.prevTerm = 0 /\ \A k \in Nat : Covers(c, k) <=> k \in 1..Len(l)
      /\ \A k \in Nat : EntryAt(c, k) = l[k]
  BY ZenonT(60), LogPieceFacts
<1>3. CASE AgreesUpTo(last)
  BY ZenonT(60), <1>1, <1>3
<1>4. CASE ~AgreesUpTo(last)
  <2>1. ASSUME NEW k \in 1..prev PROVE k \in 1..last /\ new[k] = l[k]
    BY <1>0, k \in 1..last, AgreesUpTo(k)
  <2>2. ASSUME NEW k \in Nat, Covers(r, k)
        PROVE  k \in 1..last /\ new[k] = EntryAt(r, k)
    <3>1. k \in 1..last /\ k > prev
      BY <1>0, <2>2 DEF Covers
    <3>2. CASE ~AgreesUpTo(k)
      BY ZenonT(60), <3>1, <3>2 DEF EntryAt
    <3>3. CASE AgreesUpTo(k)
      <4>1. new[k] = l[k] /\ k \in 1..Len(l) /\ l[k].term = entries[k - prev].term
        BY <1>0, <3>1, <3>3
      <4> HIDE DEF AgreesUpTo, new, c
      <4>2. EntryAt(c, k).term = EntryAt(r, k).term /\ Covers(c, k)
        BY ZenonT(60), <1>2, <4>1 DEF EntryAt
      <4>3. k >= c.prev /\ k >= r.prev /\ k \in 0..k
        BY <1>0, <1>2, <3>1
      <4>4. EntryAt(c, k) = EntryAt(r, k)
        BY ZenonT(60), <2>2, <4>2, <4>3 DEF Match, c
      <4> QED
        BY ZenonT(60), <1>2, <3>1, <4>1, <4>4
    <3> QED
      BY ZenonT(60), <3>2, <3>3
  <2>3. new \in Seq(Entry) /\ Len(new) = last
    <3>1. ASSUME NEW i \in 1..last PROVE new[i] \in Entry
      <4>1. CASE i <= prev
        BY <1>0, <2>1, <4>1
      <4>2. CASE i > prev
        <5>1. i \in Nat /\ Covers(r, i) /\ i - prev \in 1..Len(entries)
          BY <1>0, <4>2 DEF Covers
        <5> HIDE DEF new
        <5>2. new[i] = entries[i - prev]
          BY ZenonT(60), <2>2, <5>1 DEF EntryAt
        <5> QED
          BY <1>0, <5>1, <5>2
      <4> QED
        BY <1>0, <4>1, <4>2
    <3> HIDE DEF new
    <3>2. new = [i \in 1..last |-> new[i]]
      BY ZenonT(60) DEF new
    <3>3. new \in [1..last -> Entry]
      BY ZenonT(60), <3>1, <3>2
    <3> QED
      BY <1>0, <3>2, <3>3
  <2> HIDE DEF new, AgreesUpTo
  <2> QED
    BY ZenonT(60), <1>1, <1>4, <2>1, <2>2, <2>3
<1> QED
  BY ZenonT(60), <1>3, <1>4
=============================================================================
