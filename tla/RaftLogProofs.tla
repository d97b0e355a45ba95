--------------------------- MODULE RaftLogProofs ---------------------------
(***************************************************************************)
(* Log matching of RaftNode, for every number of servers.                  *)
(*                                                                         *)
(* A log, and the slice of a log that an AppendEntries request carries, is *)
(* a piece (RaftNodeProofs). Any two pieces in the system match: where     *)
(* they have an entry of the same term they agree on everything before it  *)
(* that both cover. This holds because only a leader makes entries of its  *)
(* term, it makes one per index, and it is the only leader of that term    *)
(* (RaftElectionProofs).                                                   *)
(***************************************************************************)
EXTENDS RaftElectionProofs

\* A leaf is tried with SMT and then with Zenon, unless it names its prover.
USE SMTT(30), ZenonT(30)

\* A follower takes over a request.
LEMMA HandleAppendLog ==
  ASSUME TypeOK, TypeOK', NodeInv, LogInv,
         NEW req \in Pieces, req \in AppendRequest, HandleAppendEntries(req.to, req),
         \A n \in Server, s \in Sender : \A q \in round'[n][s].jobs : q \in Pieces,
         \A q \in late' : q \in AppendRequest => q \in Pieces
  PROVE  LogInv'
<1>0. PICK p \in Server : p = req.to
  BY ZenonT(60) DEF AppendRequest
<1>1. /\ req.term \in Nat /\ currentTerm[p] \in Nat /\ log[p] \in Seq(Entry)
      /\ IsPiece(req) /\ IsPiece(LogPiece(log[p]))
  BY ZenonT(60), PiecesType, PiecesHave DEF AppendRequest, TypeOK
<1> DEFINE l == log[p]
           m == AppendToLog(l, req.prev, req.entries)
<1>2. /\ elected' = elected
      /\ \A n \in Server \ {p} :
           role'[n] = role[n] /\ currentTerm'[n] = currentTerm[n] /\ log'[n] = log[n]
      /\ log'[p] = IF Accepts(p, req) THEN m ELSE l
      /\ role'[p] = IF req.term >= currentTerm[p] THEN "follower" ELSE role[p]
      /\ currentTerm'[p] = IF req.term > currentTerm[p] THEN req.term ELSE currentTerm[p]
  BY ZenonT(60), <1>0 DEF HandleAppendEntries, historyVars, TypeOK
<1>3. Quiet
  BY <1>1, <1>2 DEF Quiet, Accepts
<1>4. CASE log'[p] = l
  <2>1. \A n \in Server : LogPiece(log'[n]) \in Pieces \cup {}
    BY ZenonT(60), <1>2, <1>4, PiecesHave
  <2>2. Pieces' \subseteq Pieces \cup {}
    BY ZenonT(60), <2>1, PiecesNext
  <2> QED
    BY <1>3, <2>2, QuietInv
<1>5. CASE Accepts(p, req)
  <2> DEFINE c == LogPiece(l)
             d == LogPiece(m)
  <2>1. /\ req.prev <= Len(l) /\ (req.prev > 0 => l[req.prev].term = req.prevTerm)
        /\ (req.prev = 0 => req.prevTerm = 0)
    <3>1. req.prev \in Nat
      BY ZenonT(60), <1>1 DEF IsPiece
    <3> QED
      BY <1>1, <1>5, <3>1 DEF Accepts, LastIndex, TermAt, LogInv
  <2>2. /\ c \in Pieces /\ IsPiece(c) /\ IsPiece(req) /\ Match(c, req)
        /\ \A b \in Pieces : IsPiece(b) /\ Match(c, b) /\ Match(req, b)
    BY ZenonT(60), <1>1, PiecesHave, PiecesType DEF LogInv
  <2>3. \A b \in Pieces : Match(d, b)
    BY ZenonT(60), <1>1, <2>1, <2>2, JoinMatches
  <2>4. m \in Seq(Entry)
    BY ZenonT(60), <1>1, <2>1, AppendToLogType DEF IsPiece
  <2>5. /\ d.prev = 0 /\ d.prevTerm = 0
        /\ \A k \in Nat : Covers(d, k) <=> k \in 1..Len(m)
        /\ \A k \in Nat : EntryAt(d, k) = m[k]
    <3> HIDE DEF m
    <3> QED
      BY ZenonT(60), <2>4, LogPieceFacts
  <2>6. /\ \A k \in Nat : Covers(c, k) <=> k \in 1..Len(l)
        /\ \A k \in Nat : EntryAt(c, k) = l[k]
    BY ZenonT(60), <1>1, LogPieceFacts
  <2>7. \A k \in Nat : Covers(d, k) =>
          \/ Covers(c, k) /\ EntryAt(d, k) = EntryAt(c, k)
          \/ Covers(req, k) /\ EntryAt(d, k) = EntryAt(req, k)
    <3>1. \/ m = l
          \/ /\ m \in Seq(Entry) /\ Len(m) = req.prev + Len(req.entries)
             /\ \A k \in 1..req.prev : m[k] = l[k]
             /\ \A k \in Nat : Covers(req, k) => m[k] = EntryAt(req, k)
      BY ZenonT(60), <1>1, <2>1, <2>2, AppendToLogJoins
    <3> HIDE DEF m, c, d
    <3>2. ASSUME NEW k \in Nat, k \in 1..Len(m), m # l
          PROVE  \/ k \in 1..Len(l) /\ m[k] = l[k]
                 \/ Covers(req, k) /\ m[k] = EntryAt(req, k)
      <4>1. req.prev \in Nat /\ Len(req.entries) \in Nat /\ Len(l) \in Nat
        BY <1>1 DEF IsPiece
      <4>2. CASE k <= req.prev
        BY <2>1, <3>1, <3>2, <4>1, <4>2
      <4>3. CASE k > req.prev
        BY <3>1, <3>2, <4>1, <4>3 DEF Covers
      <4> QED
        BY <4>1, <4>2, <4>3
    <3> QED
      BY ZenonT(60), <2>5, <2>6, <3>2
  <2> HIDE DEF m, c, d
  <2>8. Electors(d, elected')
    <3>1. Electors(c, elected) /\ Electors(req, elected)
      BY ZenonT(60), <2>2 DEF LogInv
    <3> QED
      BY ZenonT(60), <1>2, <2>7, <3>1 DEF Electors
  <2>9. Fits(d, {d})
    BY ZenonT(60), <2>3, <2>5, <2>8, MatchSelf DEF Fits
  <2>10. ASSUME NEW n \in Server, role[n] = "leader"
         PROVE  Within(d, currentTerm[n], Len(log[n]))
    <3>1. Within(c, currentTerm[n], Len(log[n])) /\ Within(req, currentTerm[n], Len(log[n]))
      BY ZenonT(60), <2>2, <2>10 DEF LogInv
    <3> QED
      BY ZenonT(60), <2>7, <3>1 DEF Within
  <2>11. \A n \in Server : LogPiece(log'[n]) \in Pieces \cup {d}
    BY ZenonT(60), <1>2, <1>5, PiecesHave DEF d
  <2>12. Pieces' \subseteq Pieces \cup {d}
    BY ZenonT(60), <2>11, PiecesNext
  <2> QED
    BY <1>3, <2>9, <2>10, <2>12, QuietInv
<1> QED
  BY ZenonT(60), <1>2, <1>4, <1>5

LEMMA NodeInvIsSafe == TypeOK /\ NodeInv => ElectionSafety
BY ZenonT(60), ElectedIsUnique DEF NodeInv

\* A leader makes an entry at the end of its log: its NOOP or a proposal.
LEMMA LeaderAppendsLog ==
  ASSUME TypeOK, TypeOK', NodeInv', LogInv, NEW n \in Server, NEW e \in Entry,
         role'[n] = "leader", e.term = currentTerm[n], currentTerm' = currentTerm,
         log' = [log EXCEPT ![n] = Append(@, e)],
         \A m \in Server \ {n} : role'[m] = role[m],
         elected' = elected \cup {<<currentTerm[n], n>>},
         \A a \in Pieces : Within(a, currentTerm[n], Len(log[n])),
         round' = round, \A q \in late' : q \in AppendRequest => q \in late
  PROVE  LogInv'
<1> DEFINE l == log[n]
           d == LogPiece(Append(l, e))
<1>1. /\ l \in Seq(Entry) /\ log'[n] = Append(l, e) /\ Len(log'[n]) = Len(l) + 1
      /\ \A m \in Server \ {n} : log'[m] = log[m]
  BY DEF TypeOK
<1>2. LogPiece(l) \in Pieces /\ \A b \in Pieces : IsPiece(b) /\ Match(LogPiece(l), b)
  BY ZenonT(60), PiecesHave, PiecesType DEF LogInv
<1>3. \A b \in Pieces : Match(d, b)
  BY ZenonT(60), <1>1, <1>2, ExtendMatches
<1>4. /\ d.prev = 0 /\ d.prevTerm = 0
      /\ \A k \in Nat : Covers(d, k) <=> k \in 1..(Len(l) + 1)
      /\ \A k \in Nat : EntryAt(d, k) = log'[n][k]
  <2>1. Append(l, e) \in Seq(Entry)
    BY <1>1
  <2> QED
    BY ZenonT(60), <1>1, <2>1, LogPieceFacts
<1>5. \A k \in Nat : Covers(d, k) =>
        \/ Covers(LogPiece(l), k) /\ EntryAt(d, k) = EntryAt(LogPiece(l), k)
        \/ k = Len(l) + 1 /\ EntryAt(d, k) = e
  <2>1. /\ \A k \in Nat : Covers(LogPiece(l), k) <=> k \in 1..Len(l)
        /\ \A k \in Nat : EntryAt(LogPiece(l), k) = l[k]
    BY ZenonT(60), <1>1, LogPieceFacts
  <2>2. log'[n][Len(l) + 1] = e /\ \A k \in 1..Len(l) : log'[n][k] = l[k]
    BY <1>1
  <2> HIDE DEF d
  <2> QED
    BY <1>1, <1>4, <2>1, <2>2
<1> HIDE DEF d
<1>6. Electors(d, elected')
  <2>1. Electors(LogPiece(l), elected)
    BY ZenonT(60), <1>2 DEF LogInv
  <2> QED
    BY ZenonT(60), <1>5, <2>1 DEF Electors
<1>7. Fits(d, {d})
  BY ZenonT(60), <1>3, <1>4, <1>6, MatchSelf DEF Fits
<1>8. Pieces' \subseteq Pieces \cup {d}
  <2>1. \A m \in Server : LogPiece(log'[m]) \in Pieces \cup {d}
    BY ZenonT(60), <1>1, PiecesHave DEF d
  <2>2. \A m \in Server, s \in Sender : \A q \in round'[m][s].jobs : q \in Pieces \cup {d}
    BY ZenonT(60), PiecesHave
  <2>3. \A q \in late' : q \in AppendRequest => q \in Pieces \cup {d}
    BY ZenonT(60) DEF Pieces
  <2> QED
    BY ZenonT(60), <2>1, <2>2, <2>3, PiecesNext
<1>9. ElectionSafety'
  BY NodeInvIsSafe, PTL
<1>10. ASSUME NEW m \in Server, role'[m] = "leader", NEW a \in Pieces \cup {d}
       PROVE  Within(a, currentTerm'[m], Len(log'[m]))
  <2>0. Len(l) \in Nat
    BY <1>1
  <2>1. CASE m = n
    <3>1. \A b \in Pieces : Within(b, currentTerm[m], Len(l) + 1)
      BY <2>0, <2>1 DEF Within
    <3>2. Within(d, currentTerm[m], Len(l) + 1)
      BY <1>4, <2>0 DEF Within
    <3> QED
      BY ZenonT(60), <1>1, <2>1, <3>1, <3>2
  <2>2. CASE m # n
    <3>1. role[m] = "leader" /\ log'[m] = log[m]
      BY ZenonT(60), <1>1, <1>10, <2>2
    <3>2. \A b \in Pieces : Within(b, currentTerm[m], Len(log[m]))
      BY ZenonT(60), <3>1 DEF LogInv
    <3>3. currentTerm[m] # currentTerm[n]
      <4>1. <<currentTerm[m], m>> \in elected' /\ <<currentTerm[n], n>> \in elected'
        BY ZenonT(60), <1>10 DEF NodeInv, LeaderIsElected
      <4>2. \A x, y \in elected' : x[1] = y[1] => x = y
        BY ZenonT(60), <1>9 DEF ElectionSafety
      <4> QED
        BY ZenonT(60), <2>2, <4>1, <4>2
    <3>4. Within(d, currentTerm[m], Len(log[m]))
      <4>1. Within(LogPiece(l), currentTerm[m], Len(log[m]))
        BY ZenonT(60), <1>2, <3>2
      <4> QED
        BY ZenonT(60), <1>5, <3>3, <4>1 DEF Within
    <3> QED
      BY ZenonT(60), <3>1, <3>2, <3>4
  <2> QED
    BY ZenonT(60), <2>1, <2>2
<1>11. ASSUME NEW m \in Server, role'[m] = "candidate"
       PROVE  <<currentTerm'[m], m>> \notin elected'
  <2>1. m # n /\ role[m] = "candidate"
    BY ZenonT(60), <1>11
  <2> QED
    BY ZenonT(60), <2>1 DEF LogInv
<1> QED
  BY ZenonT(60), <1>7, <1>8, <1>10, <1>11, LogInvGrows
\* A step that makes no entry and no request.
LEMMA SamePiecesLog ==
  ASSUME TypeOK, TypeOK', NodeInv, LogInv, Quiet, log' = log,
         \A n \in Server, s \in Sender : \A q \in round'[n][s].jobs : q \in Pieces,
         \A q \in late' : q \in AppendRequest => q \in Pieces
  PROVE  LogInv'
<1>1. \A n \in Server : LogPiece(log'[n]) \in Pieces \cup {}
  BY ZenonT(60), PiecesHave
<1>2. Pieces' \subseteq Pieces \cup {}
  BY ZenonT(60), <1>1, PiecesNext
<1> QED
  BY <1>2, QuietInv

\* A leader makes a round of requests.
LEMMA StartRoundLog ==
  ASSUME TypeOK, TypeOK', NodeInv, LogInv, NEW n \in Server, NEW s \in Sender, StartRound(n, s)
  PROVE  LogInv'
<1> DEFINE New == {AppendRequestFor(n, p) : p \in Peers(n)}
           l == log[n]
<1>1. /\ log' = log /\ role' = role /\ currentTerm' = currentTerm /\ elected' = elected
      /\ late' = late
  BY ZenonT(60) DEF StartRound, persistVars, historyVars
<1>2. Quiet
  BY ZenonT(60), <1>1 DEF Quiet
<1>3. l \in Seq(Entry) /\ LogPiece(l) \in Pieces /\ \A b \in Pieces : IsPiece(b) /\ Match(LogPiece(l), b)
  BY ZenonT(60), PiecesHave, PiecesType DEF LogInv, TypeOK
<1>4. ASSUME NEW c \in New
      PROVE  /\ IsPiece(c)
             /\ \A k \in Nat : Covers(c, k) => k \in 1..Len(l) /\ EntryAt(c, k) = l[k]
             /\ c.prev > 0 /\ c.entries # <<>> => c.prevTerm = l[c.prev].term
             /\ c.prev = 0 => c.prevTerm = 0
  <2>1. PICK p \in Server : c = AppendRequestFor(n, p)
    BY ZenonT(60) DEF Peers
  <2> QED
    BY ZenonT(60), <2>1, RequestIsSlice
<1>5. ASSUME NEW x \in Server, NEW y \in Sender, NEW q \in round'[x][y].jobs
      PROVE  q \in Pieces \cup New
  <2>1. CASE x = n /\ y = s
    <3>1. round'[n][s].jobs = New
      BY DEF StartRound, TypeOK
    <3> QED
      BY ZenonT(60), <2>1, <3>1
  <2>2. CASE ~(x = n /\ y = s)
    <3>1. round'[x][y] = round[x][y]
      BY <2>2 DEF StartRound, TypeOK
    <3> QED
      BY ZenonT(60), <3>1, PiecesHave
  <2> QED
    BY ZenonT(60), <2>1, <2>2
<1> HIDE DEF New, l
<1>6. Pieces' \subseteq Pieces \cup New
  <2>1. \A m \in Server : LogPiece(log'[m]) \in Pieces \cup New
    BY ZenonT(60), <1>1, PiecesHave
  <2>2. \A q \in late' : q \in AppendRequest => q \in Pieces \cup New
    BY ZenonT(60), <1>1 DEF Pieces
  <2> QED
    BY ZenonT(60), <1>5, <2>1, <2>2, PiecesNext
<1>7. ASSUME NEW c \in New, NEW b, IsPiece(b), Match(LogPiece(l), b) PROVE Match(c, b)
  BY ZenonT(60), <1>3, <1>4, <1>7, SliceMatches
<1>8. ASSUME NEW c \in New PROVE Fits(c, New)
  <2>1. \A b \in Pieces : Match(c, b)
    BY ZenonT(60), <1>3, <1>7
  <2>2. ASSUME NEW b \in New PROVE Match(c, b)
    <3>1. Match(b, LogPiece(l))
      BY ZenonT(60), <1>3, <1>7
    <3>2. Match(LogPiece(l), b)
      BY ZenonT(60), <3>1, MatchSymmetric
    <3> QED
      BY ZenonT(60), <1>4, <1>7, <3>2
  <2>3. Electors(c, elected)
    <3>1. Electors(LogPiece(l), elected)
      BY ZenonT(60), <1>3 DEF LogInv
    <3>2. \A k \in Nat : Covers(c, k) => Covers(LogPiece(l), k) /\ EntryAt(c, k) = EntryAt(LogPiece(l), k)
      BY ZenonT(60), <1>3, <1>4, LogPieceFacts
    <3> QED
      BY ZenonT(60), <3>1, <3>2 DEF Electors
  <2> QED
    BY ZenonT(60), <1>1, <1>4, <2>1, <2>2, <2>3 DEF Fits
<1>9. ASSUME NEW c \in New, NEW m \in Server, role[m] = "leader"
      PROVE  Within(c, currentTerm[m], Len(log[m]))
  <2>1. Within(LogPiece(l), currentTerm[m], Len(log[m]))
    BY ZenonT(60), <1>3, <1>9 DEF LogInv
  <2>2. \A k \in Nat : Covers(c, k) => Covers(LogPiece(l), k) /\ EntryAt(c, k) = EntryAt(LogPiece(l), k)
    BY <1>3, <1>4, LogPieceFacts
  <2> QED
    BY ZenonT(60), <2>1, <2>2 DEF Within
<1> QED
  BY ZenonT(60), <1>2, <1>6, <1>8, <1>9, QuietInv

\* The candidate's loop after a call: it may become leader.
LEMMA VoteReturnsLog ==
  ASSUME TypeOK, TypeOK', NodeInv, NodeInv', LogInv, NEW n \in Server, NEW r, VoteReturns(n, r),
         round' = round, \A q \in late' : q \in AppendRequest => q \in late
  PROVE  LogInv'
<1>0. /\ \A m \in Server, s \in Sender : \A q \in round'[m][s].jobs : q \in Pieces
      /\ \A q \in late' : q \in AppendRequest => q \in Pieces
  BY ZenonT(60), PiecesHave DEF Pieces
<1>1. CASE BecomeLeader(n) /\ role[n] = "candidate" /\ UNCHANGED <<currentTerm, votedFor>>
  <2> DEFINE e == [term |-> currentTerm[n], val |-> NOOP]
  <2>1. e \in Entry /\ e.term = currentTerm[n]
    BY ZenonT(60) DEF Entry, TypeOK
  <2>2. /\ role'[n] = "leader" /\ currentTerm' = currentTerm
        /\ log' = [log EXCEPT ![n] = Append(@, e)]
        /\ \A m \in Server \ {n} : role'[m] = role[m]
        /\ elected' = elected \cup {<<currentTerm[n], n>>}
    BY <1>1 DEF BecomeLeader, TypeOK
  <2>3. ElectionSafety'
    BY NodeInvIsSafe, PTL
  <2>4. \A m \in Server : <<currentTerm[n], m>> \notin elected
    <3>1. <<currentTerm[n], n>> \notin elected
      BY ZenonT(60), <1>1 DEF LogInv
    <3>2. \A x, y \in elected' : x[1] = y[1] => x = y
      BY ZenonT(60), <2>3 DEF ElectionSafety
    <3> QED
      BY ZenonT(60), <2>2, <3>1, <3>2
  <2>5. \A a \in Pieces : Within(a, currentTerm[n], Len(log[n]))
    <3>1. \A a \in Pieces : Electors(a, elected)
      BY ZenonT(60) DEF LogInv
    <3> QED
      BY ZenonT(60), <2>4, <3>1 DEF Electors, Within
  <2> HIDE DEF e
  <2> QED
    BY ZenonT(60), <2>1, <2>2, <2>5, LeaderAppendsLog
<1>2. CASE /\ log' = log /\ elected' = elected
           /\ \/ BecomeFollower(n, r.term)
              \/ UNCHANGED <<currentTerm, role>>
  <2>1. Quiet
    BY ZenonT(60), <1>2 DEF Quiet, BecomeFollower, TypeOK
  <2> QED
    BY ZenonT(60), <1>0, <1>2, <2>1, SamePiecesLog
<1> QED
  BY ZenonT(60), <1>1, <1>2 DEF VoteReturns
LEMMA HandleRequestVoteQuiet ==
  ASSUME TypeOK, NEW p \in Server, NEW req, HandleRequestVote(p, req)
  PROVE  Quiet /\ log' = log
BY ZenonT(60) DEF HandleRequestVote, Quiet, TypeOK

LEMMA ProcessAppendQuiet ==
  ASSUME TypeOK, NEW n \in Server, NEW r, NEW t, ProcessAppendEntriesResponse(n, r, t),
         log' = log, elected' = elected
  PROVE  Quiet
<1>1. CASE BecomeFollower(n, r.term)
  BY ZenonT(60), <1>1 DEF BecomeFollower, Quiet, TypeOK
<1>2. CASE currentTerm' = currentTerm /\ role' = role
  BY ZenonT(60), <1>2 DEF Quiet
<1> QED
  BY ZenonT(60), <1>1, <1>2 DEF ProcessAppendEntriesResponse

\* Every step keeps the facts about logs.
LEMMA LogInductive ==
  ASSUME TypeOK, TypeOK', NodeInv, NodeInv', LogInv, [Next]_vars
  PROVE  LogInv'
<1>a. /\ \A n \in Server, s \in Sender : \A q \in round[n][s].jobs : q \in Pieces /\ q \in AppendRequest
      /\ \A q \in late : q \in AppendRequest => q \in Pieces
  <2>1. \A n \in Server, s \in Sender : round[n][s] \in Round
    BY ZenonT(60) DEF TypeOK
  <2> QED
    BY ZenonT(60), <2>1, PiecesHave DEF Round, Pieces
<1>b. ASSUME round' = round, late' = late, log' = log, Quiet PROVE LogInv'
  BY ZenonT(60), <1>a, <1>b, SamePiecesLog
<1>c. ASSUME NEW n \in Server, NEW s \in Sender, NEW r, NextJob(n, s, r),
             NEW x \in Server, NEW y \in Sender, NEW q \in round'[x][y].jobs
      PROVE  q \in Pieces
  <2>1. round'[x][y].jobs \subseteq round[x][y].jobs
    <3>1. round \in [Server -> [Sender -> Round]] /\ round[n][s] \in Round
      BY ZenonT(60) DEF TypeOK
    <3>2. CASE x = n /\ y = s
      BY ZenonT(60), <1>c, <3>1, <3>2 DEF NextJob, Round
    <3>3. CASE ~(x = n /\ y = s)
      BY ZenonT(60), <1>c, <3>1, <3>3 DEF NextJob
    <3> QED
      BY ZenonT(60), <3>2, <3>3
  <2> QED
    BY ZenonT(60), <1>a, <2>1
<1>1. ASSUME NEW n \in Server, StartElection(n) PROVE LogInv'
  <2>1. Quiet
    BY <1>1 DEF StartElection, Quiet, TypeOK
  <2> QED
    BY ZenonT(60), <1>1, <1>b, <2>1 DEF StartElection
<1>2. ASSUME NEW n \in Server, VoteReplied(n) PROVE LogInv'
  <2>1. PICK r \in elec[n].reply : VoteReturns(n, r)
    BY ZenonT(60), <1>2 DEF VoteReplied
  <2>2. round' = round /\ late' = late
    BY ZenonT(60), <1>2 DEF VoteReplied
  <2> QED
    BY ZenonT(60), <2>1, <2>2, VoteReturnsLog
<1>3. ASSUME NEW n \in Server, NEW p \in Server, AskVote(n, p) PROVE LogInv'
  <2>1. HandleRequestVote(p, VoteRequestOf(n, p)) /\ round' = round /\ late' = late
    BY ZenonT(60), <1>3 DEF AskVote
  <2> QED
    BY ZenonT(60), <1>b, <2>1, HandleRequestVoteQuiet
<1>4. ASSUME NEW n \in Server, NEW p \in Server, VoteFailed(n, p) PROVE LogInv'
  <2>1. VoteReturns(n, [from |-> p, term |-> 0, granted |-> FALSE]) /\ round' = round
    BY ZenonT(60), <1>4 DEF VoteFailed
  <2>2. late' \subseteq late \cup {VoteRequestOf(n, p)}
    BY ZenonT(60), <1>4 DEF VoteFailed, GiveUp
  <2>3. VoteRequestOf(n, p) \notin AppendRequest
    BY ZenonT(60) DEF VoteRequestOf, AppendRequest
  <2>4. \A q \in late' : q \in AppendRequest => q \in late
    BY ZenonT(60), <2>2, <2>3
  <2> QED
    BY ZenonT(60), <2>1, <2>4, VoteReturnsLog
<1>5. ASSUME NEW n \in Server, TickAdvance(n) \/ ApplyCommitted(n) PROVE LogInv'
  <2>1. /\ log' = log /\ role' = role /\ currentTerm' = currentTerm /\ elected' = elected
        /\ round' = round /\ late' = late
    BY ZenonT(60), <1>5 DEF TickAdvance, ApplyCommitted, persistVars, callVars, historyVars
  <2>2. Quiet
    BY ZenonT(60), <2>1 DEF Quiet
  <2> QED
    BY ZenonT(60), <1>b, <2>1, <2>2
<1>6. ASSUME NEW n \in Server, NEW s \in Sender, AppendReplied(n, s) PROVE LogInv'
  <2>1. PICK r \in round[n][s].reply :
          ProcessAppendEntriesResponse(n, r, round[n][s].term) /\ NextJob(n, s, r)
    BY ZenonT(60), <1>6 DEF AppendReplied
  <2>2. log' = log /\ elected' = elected /\ late' = late
    BY ZenonT(60), <1>6 DEF AppendReplied, historyVars
  <2>3. Quiet
    BY ZenonT(60), <2>1, <2>2, ProcessAppendQuiet
  <2> QED
    BY ZenonT(60), <1>a, <1>c, <2>1, <2>2, <2>3, SamePiecesLog
<1>7. ASSUME NEW n \in Server, NEW s \in Sender, NEW req \in round[n][s].jobs,
             AppendFailed(n, s, req)
      PROVE  LogInv'
  <2> DEFINE r == [from |-> req.to, term |-> 0, success |-> FALSE, match |-> 0]
  <2>1. /\ ProcessAppendEntriesResponse(n, r, round[n][s].term) /\ NextJob(n, s, r)
        /\ late' \subseteq late \cup {req} /\ log' = log /\ elected' = elected
    BY ZenonT(60), <1>7 DEF AppendFailed, GiveUp, historyVars
  <2> HIDE DEF r
  <2>2. Quiet
    BY ZenonT(60), <2>1, ProcessAppendQuiet
  <2>3. \A q \in late' : q \in AppendRequest => q \in Pieces
    BY ZenonT(60), <1>a, <2>1
  <2> QED
    BY ZenonT(60), <1>c, <2>1, <2>2, <2>3, SamePiecesLog
<1>8. ASSUME NEW n \in Server, NEW s \in Sender, EndRound(n, s) PROVE LogInv'
  <2>1. /\ log' = log /\ elected' = elected /\ late' = late
        /\ round' = [round EXCEPT ![n][s] = NoRound]
        /\ \/ UNCHANGED <<currentTerm, votedFor, role>>
           \/ BecomeFollower(n, currentTerm[n])
    BY ZenonT(60), <1>8 DEF EndRound, historyVars
  <2>2. Quiet
    BY ZenonT(60), <2>1 DEF Quiet, BecomeFollower, TypeOK
  <2>3. ASSUME NEW x \in Server, NEW y \in Sender, NEW q \in round'[x][y].jobs PROVE q \in Pieces
    <3>1. round \in [Server -> [Sender -> Round]]
      BY ZenonT(60) DEF TypeOK
    <3>2. CASE x = n /\ y = s
      BY ZenonT(60), <2>1, <2>3, <3>1, <3>2 DEF NoRound
    <3>3. CASE ~(x = n /\ y = s)
      BY ZenonT(60), <1>a, <2>1, <2>3, <3>1, <3>3
    <3> QED
      BY ZenonT(60), <3>2, <3>3
  <2> QED
    BY ZenonT(60), <1>a, <2>1, <2>2, <2>3, SamePiecesLog
<1>9. ASSUME NEW n \in Server, NEW s \in Sender, NEW req \in round[n][s].jobs,
             AskAppend(n, s, req)
      PROVE  LogInv'
  <2>1. /\ HandleAppendEntries(req.to, req) /\ late' = late
        /\ round' = [round EXCEPT ![n][s].reply = {AppendReply(req.to, req)}]
    BY ZenonT(60), <1>9 DEF AskAppend
  <2>2. ASSUME NEW x \in Server, NEW y \in Sender PROVE round'[x][y].jobs = round[x][y].jobs
    <3>1. round \in [Server -> [Sender -> Round]] /\ round[n][s] \in Round
      BY ZenonT(60) DEF TypeOK
    <3>2. CASE x = n /\ y = s
      BY ZenonT(60), <2>1, <3>1, <3>2 DEF Round
    <3>3. CASE ~(x = n /\ y = s)
      BY ZenonT(60), <2>1, <3>1, <3>3
    <3> QED
      BY ZenonT(60), <3>2, <3>3
  <2>3. req \in Pieces /\ req \in AppendRequest
    BY ZenonT(60), <1>a
  <2> QED
    BY ZenonT(60), <1>a, <2>1, <2>2, <2>3, HandleAppendLog
<1>10. ASSUME NEW n \in Server, NEW s \in Sender, NEW req \in round[n][s].jobs,
              DuplicateAppend(n, s, req)
       PROVE  LogInv'
  <2>1. /\ log' = log /\ role' = role /\ currentTerm' = currentTerm /\ elected' = elected
        /\ round' = round /\ late' = late \cup {req}
    BY ZenonT(60), <1>10 DEF DuplicateAppend, persistVars, callVars, historyVars
  <2>2. Quiet
    BY ZenonT(60), <2>1 DEF Quiet
  <2>3. \A q \in late' : q \in AppendRequest => q \in Pieces
    BY ZenonT(60), <1>a, <2>1
  <2> QED
    BY ZenonT(60), <1>a, <2>1, <2>2, <2>3, SamePiecesLog
<1>11. ASSUME NEW req \in late, LateArrives(req) PROVE LogInv'
  <2>1. round' = round /\ \A q \in late' : q \in late
    BY ZenonT(60), <1>11 DEF LateArrives
  <2>2. CASE req.type = "vote" /\ HandleRequestVote(req.to, req)
    <3>1. req.to \in Server
      BY ZenonT(60) DEF TypeOK, VoteRequest, AppendRequest
    <3>2. Quiet /\ log' = log
      BY ZenonT(60), <2>2, <3>1, HandleRequestVoteQuiet
    <3>3. \A q \in late' : q \in AppendRequest => q \in Pieces
      BY ZenonT(60), <1>a, <2>1
    <3> QED
      BY ZenonT(60), <1>a, <2>1, <3>2, <3>3, SamePiecesLog
  <2>3. CASE req.type = "append" /\ HandleAppendEntries(req.to, req)
    <3>1. req \in AppendRequest
      BY ZenonT(60), <2>3 DEF TypeOK, VoteRequest
    <3> QED
      BY ZenonT(60), <1>a, <2>1, <2>3, <3>1, HandleAppendLog
  <2> QED
    BY ZenonT(60), <1>11, <2>2, <2>3 DEF LateArrives
<1>12. ASSUME NEW n \in Server, Restart(n) PROVE LogInv'
  <2>1. /\ log' = log /\ elected' = elected /\ late' = late /\ currentTerm' = currentTerm
        /\ role' = [role EXCEPT ![n] = "follower"]
        /\ round' = [round EXCEPT ![n] = [s \in Sender |-> NoRound]]
    BY ZenonT(60), <1>12 DEF Restart, persistVars, historyVars
  <2>2. Quiet
    BY ZenonT(60), <2>1 DEF Quiet, TypeOK
  <2>3. ASSUME NEW x \in Server, NEW y \in Sender, NEW q \in round'[x][y].jobs PROVE q \in Pieces
    <3>1. round \in [Server -> [Sender -> Round]]
      BY ZenonT(60) DEF TypeOK
    <3>2. x # n
      BY ZenonT(60), <2>1, <2>3, <3>1 DEF NoRound
    <3> QED
      BY ZenonT(60), <1>a, <2>1, <2>3, <3>1, <3>2
  <2> QED
    BY ZenonT(60), <1>a, <2>1, <2>2, <2>3, SamePiecesLog
<1>13. ASSUME NEW n \in Server, NEW v \in Value, Propose(n, v) PROVE LogInv'
  <2> DEFINE e == [term |-> currentTerm[n], val |-> v]
  <2>1. e \in Entry /\ e.term = currentTerm[n]
    BY ZenonT(60) DEF Entry, TypeOK
  <2>2. /\ role[n] = "leader" /\ role' = role /\ currentTerm' = currentTerm
        /\ log' = [log EXCEPT ![n] = Append(@, e)]
        /\ elected' = elected /\ round' = round /\ late' = late
    BY ZenonT(60), <1>13 DEF Propose, persistVars, callVars, historyVars
  <2>3. elected' = elected \cup {<<currentTerm[n], n>>}
    BY ZenonT(60), <2>2 DEF NodeInv, LeaderIsElected
  <2>4. \A a \in Pieces : Within(a, currentTerm[n], Len(log[n]))
    BY ZenonT(60), <2>2 DEF LogInv
  <2> HIDE DEF e
  <2> QED
    BY ZenonT(60), <2>1, <2>2, <2>3, <2>4, LeaderAppendsLog
<1>14. CASE UNCHANGED vars
  <2>1. Quiet
    BY ZenonT(60), <1>14 DEF vars, Quiet
  <2> QED
    BY ZenonT(60), <1>14, <1>b, <2>1 DEF vars
<1>15. ASSUME NEW n \in Server, NEW s \in Sender, StartRound(n, s) PROVE LogInv'
  BY ZenonT(60), <1>15, StartRoundLog
<1>16. ASSUME GroupStep PROVE LogInv'
  BY ZenonT(60), <1>16, <1>1, <1>2, <1>3, <1>4, <1>5, <1>6, <1>7, <1>8, <1>9, <1>10, <1>11, <1>15
     DEF GroupStep, Peers
<1> QED
  BY ZenonT(60), <1>12, <1>13, <1>14, <1>16 DEF Next
-----------------------------------------------------------------------------
(* The theorem *)

LEMMA LogInit ==
  ASSUME Init
  PROVE  LogInv
<1> DEFINE none == LogPiece(<<>>)
<1>1. \A a \in Pieces : a = none
  <2>1. \A n \in Server, s \in Sender : round[n][s].jobs = {}
    BY ZenonT(60) DEF Init, NoRound
  <2>2. \A n \in Server : log[n] = <<>>
    BY ZenonT(60) DEF Init
  <2>3. late = {}
    BY ZenonT(60) DEF Init
  <2> QED
    BY ZenonT(60), <2>1, <2>2, <2>3 DEF Pieces
<1>2. none.prevTerm = 0 /\ \A k \in Nat : ~Covers(none, k)
  <2>a. <<>> \in Seq(Entry) /\ Len(<<>>) = 0
    OBVIOUS
  <2>1. PICK l \in Seq(Entry) : l = <<>> /\ Len(l) = 0
    BY ZenonT(60), <2>a
  <2>2. none = LogPiece(l)
    BY ZenonT(60), <2>1
  <2> HIDE DEF none
  <2>3. none.prevTerm = 0 /\ \A k \in Nat : Covers(none, k) <=> k \in 1..Len(l)
    BY ZenonT(60), <2>2, LogPieceFacts
  <2> QED
    BY <2>1, <2>3
<1>3. Electors(none, elected)
  BY ZenonT(60), <1>2 DEF Electors
<1>4. \A n \in Server : role[n] = "follower"
  BY ZenonT(60) DEF Init
<1> HIDE DEF none
<1> QED
  BY ZenonT(60), <1>1, <1>2, <1>3, <1>4, MatchSelf DEF LogInv

LEMMA LogInvMatching ==
  ASSUME TypeOK, LogInv
  PROVE  LogMatching
<1> SUFFICES ASSUME NEW m \in Server, NEW n \in Server,
                    NEW i \in 1..Smaller(Len(log[m]), Len(log[n])),
                    log[m][i].term = log[n][i].term
             PROVE  SubSeq(log[m], 1, i) = SubSeq(log[n], 1, i)
  BY ZenonT(60) DEF LogMatching
<1> DEFINE a == LogPiece(log[m])
           b == LogPiece(log[n])
<1>1. log[m] \in Seq(Entry) /\ log[n] \in Seq(Entry)
  BY ZenonT(60) DEF TypeOK
<1>2. i \in Nat /\ i \in 1..Len(log[m]) /\ i \in 1..Len(log[n])
  BY <1>1 DEF Smaller
<1>3. Match(a, b)
  BY ZenonT(60), PiecesHave DEF LogInv
<1>4. \A k \in 1..i : log[m][k] = log[n][k]
  <2>1. /\ a.prev = 0 /\ b.prev = 0
        /\ \A k \in Nat : (Covers(a, k) <=> k \in 1..Len(log[m])) /\ EntryAt(a, k) = log[m][k]
        /\ \A k \in Nat : (Covers(b, k) <=> k \in 1..Len(log[n])) /\ EntryAt(b, k) = log[n][k]
    BY ZenonT(60), <1>1, LogPieceFacts
  <2> HIDE DEF a, b
  <2>2. SUFFICES ASSUME NEW k \in 1..i PROVE log[m][k] = log[n][k]
    BY ZenonT(60)
  <2>3. k \in Nat /\ k \in 0..i /\ k \in 1..Len(log[m]) /\ k \in 1..Len(log[n]) /\ k >= 0
    BY <1>1, <1>2
  <2> QED
    BY ZenonT(60), <1>2, <1>3, <2>1, <2>3 DEF Match
<1> QED
  BY <1>1, <1>2, <1>4

\* The Log Matching property of HandleAppendEntries's consistency check: two
\* logs that have an entry of the same term at the same index agree up to it.
THEOREM LogsMatch == Spec => []LogMatching
<1>1. Init => TypeOK /\ NodeInv /\ CallsInv
  BY ZenonT(60), ElectionInit
<1>2. Init => LogInv
  BY ZenonT(60), LogInit
<1>3. TypeOK /\ NodeInv /\ CallsInv /\ [Next]_vars => (TypeOK /\ NodeInv /\ CallsInv)'
  BY ZenonT(60), TypeInductive, ElectionInductive
<1>4. TypeOK /\ TypeOK' /\ NodeInv /\ NodeInv' /\ LogInv /\ [Next]_vars => LogInv'
  BY ZenonT(60), LogInductive
<1>5. TypeOK /\ LogInv => LogMatching
  BY ZenonT(60), LogInvMatching
<1> QED
  BY <1>1, <1>2, <1>3, <1>4, <1>5, PTL DEF Spec
=============================================================================
