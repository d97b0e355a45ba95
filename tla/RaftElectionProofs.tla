------------------------- MODULE RaftElectionProofs -------------------------
(***************************************************************************)
(* Election safety of RaftNode, for every number of servers.               *)
(*                                                                         *)
(* First what a log is that has taken over a request, and what the         *)
(* handlers keep of the facts about nodes (NodeInv).  Then NodeInv and     *)
(* CallsInv are inductive. The votes of a term are unique although a       *)
(* leader that loses its quorum clears voted_for_ in its own term: it can  *)
(* only have done so after its NOOP went into its log, and the log of a    *)
(* candidate of that term is older than that.                              *)
(***************************************************************************)
EXTENDS RaftNodeProofs

\* A leaf is tried with SMT and then with Zenon, unless it names its prover.
USE SMTT(30), ZenonT(30)

-----------------------------------------------------------------------------
(* Requests and logs as pieces *)

\* A log that has taken over a request matches what both matched.
LEMMA JoinMatches ==
  ASSUME NEW l \in Seq(Entry), NEW r, NEW b, IsPiece(r), IsPiece(b),
         r.prev <= Len(l), r.prev = 0 => r.prevTerm = 0,
         r.prev > 0 => l[r.prev].term = r.prevTerm,
         Match(LogPiece(l), r), Match(LogPiece(l), b), Match(r, b)
  PROVE  Match(LogPiece(AppendToLog(l, r.prev, r.entries)), b)
<1> DEFINE m == AppendToLog(l, r.prev, r.entries)
           c == LogPiece(l)
           d == LogPiece(m)
<1>1. CASE m = l
  BY ZenonT(60), <1>1
<1>2. CASE /\ m \in Seq(Entry) /\ Len(m) = r.prev + Len(r.entries)
           /\ \A k \in 1..r.prev : m[k] = l[k]
           /\ \A k \in Nat : Covers(r, k) => m[k] = EntryAt(r, k)
  <2> HIDE DEF m
  <2>1. /\ c.prev = 0 /\ c.prevTerm = 0 /\ \A k \in Nat : Covers(c, k) <=> k \in 1..Len(l)
        /\ \A k \in Nat : EntryAt(c, k) = l[k]
    BY ZenonT(60), LogPieceFacts
  <2>2. /\ d.prev = 0 /\ d.prevTerm = 0 /\ \A k \in Nat : Covers(d, k) <=> k \in 1..Len(m)
        /\ \A k \in Nat : EntryAt(d, k) = m[k]
    BY ZenonT(60), <1>2, LogPieceFacts
  <2>3. Match(c, b) /\ Match(r, b)
    BY ZenonT(60)
  <2> HIDE DEF c, d
  <2>4. r.prev \in Nat /\ b.prev \in Nat /\ Len(r.entries) \in Nat
    BY DEF IsPiece
  <2>5. \A i \in 1..r.prev : Covers(c, i) /\ Covers(d, i) /\ EntryAt(d, i) = EntryAt(c, i)
    BY <1>2, <2>1, <2>2, <2>4
  <2>6. \A i \in 0..r.prev : At(d, i) = At(c, i)
    BY <2>1, <2>2, <2>4, <2>5 DEF At
  <2>7. \A i \in Nat : Covers(r, i) => i > 0 /\ Covers(d, i) /\ EntryAt(d, i) = EntryAt(r, i)
    BY <1>2, <2>2, <2>4 DEF Covers
  <2>8. \A i \in Nat : Covers(d, i) /\ i > r.prev => Covers(r, i)
    BY <1>2, <2>2, <2>4 DEF Covers
  <2>9. At(d, r.prev) = r.prevTerm
    BY <2>1, <2>2, <2>4, <2>5 DEF At
  <2>10. ASSUME NEW k \in Nat, k <= r.prev, Covers(d, k), Covers(b, k),
                EntryAt(d, k).term = EntryAt(b, k).term,
                NEW j \in 0..k, j >= b.prev
         PROVE  /\ At(d, j) = At(b, j)
                /\ Covers(d, j) /\ Covers(b, j) => EntryAt(d, j) = EntryAt(b, j)
    <3>1. k \in 1..r.prev /\ Covers(c, k) /\ EntryAt(c, k) = EntryAt(d, k)
      BY <1>2, <2>2, <2>4, <2>5, <2>10
    <3>2. j >= c.prev /\ j \in 0..r.prev
      BY <2>1, <2>4, <3>1
    <3>3. At(c, j) = At(b, j) /\ (Covers(c, j) /\ Covers(b, j) => EntryAt(c, j) = EntryAt(b, j))
      BY ZenonT(60), <2>3, <2>10, <3>1, <3>2 DEF Match
    <3>4. Covers(d, j) => j \in 1..r.prev
      BY <2>2, <3>2
    <3> QED
      BY ZenonT(60), <2>5, <2>6, <3>2, <3>3, <3>4
  <2>11. ASSUME NEW k \in Nat, k > r.prev, Covers(d, k), Covers(b, k),
                EntryAt(d, k).term = EntryAt(b, k).term,
                NEW j \in 0..k, j >= b.prev
         PROVE  /\ At(d, j) = At(b, j)
                /\ Covers(d, j) /\ Covers(b, j) => EntryAt(d, j) = EntryAt(b, j)
    <3>1. Covers(r, k) /\ EntryAt(r, k).term = EntryAt(b, k).term
      BY ZenonT(60), <2>7, <2>8, <2>11
    <3>2. \A i \in 0..k : i >= r.prev /\ i >= b.prev =>
            /\ At(r, i) = At(b, i)
            /\ Covers(r, i) /\ Covers(b, i) => EntryAt(r, i) = EntryAt(b, i)
      BY ZenonT(60), <2>3, <2>11, <3>1 DEF Match
    <3>3. CASE j > r.prev
      <4>1. Covers(r, j)
        BY <2>4, <3>1, <3>3 DEF Covers
      <4>2. At(d, j) = At(r, j) /\ EntryAt(d, j) = EntryAt(r, j)
        BY <2>2, <2>4, <2>7, <3>3, <4>1 DEF At
      <4> QED
        BY <2>4, <2>11, <3>2, <3>3, <4>1, <4>2
    <3>4. CASE j <= r.prev
      <4>1. r.prev \in 0..k /\ r.prev >= b.prev
        BY <2>4, <2>11, <3>4
      <4>2. At(d, r.prev) = At(b, r.prev)
        BY <2>4, <2>9, <3>2, <4>1 DEF At
      <4>3. CASE r.prev = b.prev
        <5>1. j = r.prev /\ ~Covers(b, j)
          BY <2>4, <2>11, <3>4, <4>3 DEF Covers
        <5> QED
          BY ZenonT(60), <4>2, <5>1
      <4>4. CASE r.prev > b.prev
        <5>1. Covers(b, r.prev) /\ r.prev \in 1..r.prev /\ r.prev # b.prev
          BY <2>4, <2>11, <4>4 DEF Covers, IsPiece
        <5>2. Covers(d, r.prev) /\ EntryAt(d, r.prev).term = EntryAt(b, r.prev).term
          BY <2>2, <2>5, <4>2, <5>1 DEF At
        <5>3. r.prev \in Nat /\ r.prev <= r.prev /\ j \in 0..r.prev
          BY <2>4, <3>4
        <5> QED
          BY ZenonT(60), <2>10, <2>11, <5>1, <5>2, <5>3
      <4> QED
        BY <2>4, <4>1, <4>3, <4>4
    <3> QED
      BY <2>4, <3>3, <3>4
  <2>12. Match(d, b)
    <3> SUFFICES ASSUME NEW k \in Nat, Covers(d, k), Covers(b, k),
                        EntryAt(d, k).term = EntryAt(b, k).term,
                        NEW j \in 0..k, j >= d.prev, j >= b.prev
                 PROVE  /\ At(d, j) = At(b, j)
                        /\ Covers(d, j) /\ Covers(b, j) => EntryAt(d, j) = EntryAt(b, j)
      BY ZenonT(60) DEF Match
    <3>1. k <= r.prev \/ k > r.prev
      BY <2>4
    <3> QED
      BY ZenonT(60), <2>10, <2>11, <3>1
  <2> QED
    BY ZenonT(60), <2>12 DEF d, m
<1>3. \/ m = l
      \/ /\ m \in Seq(Entry) /\ Len(m) = r.prev + Len(r.entries)
         /\ \A k \in 1..r.prev : m[k] = l[k]
         /\ \A k \in Nat : Covers(r, k) => m[k] = EntryAt(r, k)
  BY ZenonT(60), AppendToLogJoins
<1> QED
  BY ZenonT(60), <1>1, <1>2, <1>3

\* The request for a peer is a slice of the leader's log.
LEMMA RequestIsSlice ==
  ASSUME TypeOK, NEW n \in Server, NEW p \in Server
  PROVE  LET c == AppendRequestFor(n, p)
         IN  /\ IsPiece(c)
             /\ \A k \in Nat : Covers(c, k) => k \in 1..Len(log[n]) /\ EntryAt(c, k) = log[n][k]
             /\ c.prev > 0 /\ c.entries # <<>> => c.prevTerm = log[n][c.prev].term
             /\ c.prev = 0 => c.prevTerm = 0
<1> DEFINE l == log[n]
           prev == nextIndex[n][p] - 1
           c == AppendRequestFor(n, p)
<1>1. l \in Seq(Entry) /\ prev \in Nat /\ Len(l) \in Nat
  BY DEF TypeOK
<1>2. /\ c.prev = prev /\ c.prevTerm = TermAt(l, prev)
      /\ c.entries = SubSeq(l, prev + 1, Len(l))
  BY ZenonT(60) DEF AppendRequestFor, LastIndex
<1> HIDE DEF c, prev, l
<1>3. /\ c.entries \in Seq(Entry)
      /\ \A i \in 1..Len(c.entries) : prev + 1 + i - 1 \in 1..Len(l) /\ c.entries[i] = l[prev + 1 + i - 1]
  <2>1. prev + 1 \in Nat \ {0} /\ Len(l) <= Len(l)
    BY <1>1
  <2> QED
    BY <1>1, <1>2, <2>1, SubSeqType
<1>4. IsPiece(c)
  BY <1>1, <1>2, <1>3, TermAtType DEF IsPiece
<1>5. ASSUME NEW k \in Nat, Covers(c, k) PROVE k \in 1..Len(l) /\ EntryAt(c, k) = l[k]
  <2>1. k - prev \in 1..Len(c.entries) /\ prev + 1 + (k - prev) - 1 = k
    BY <1>1, <1>2, <1>3, <1>5 DEF Covers
  <2> QED
    BY ZenonT(60), <1>2, <1>3, <2>1 DEF EntryAt
<1>6. c.entries # <<>> => prev <= Len(l)
  <2> SUFFICES ASSUME c.entries # <<>> PROVE prev <= Len(l)
    BY ZenonT(60)
  <2>1. 1 \in 1..Len(c.entries)
    BY <1>3
  <2>2. prev + 1 + 1 - 1 \in 1..Len(l)
    BY ZenonT(60), <1>3, <2>1
  <2> QED
    BY <1>1, <2>2
<1>7. /\ prev > 0 /\ prev <= Len(l) => TermAt(l, prev) = l[prev].term
      /\ prev = 0 => TermAt(l, prev) = 0
  BY <1>1 DEF TermAt
<1> QED
  BY ZenonT(60), <1>2, <1>4, <1>5, <1>6, <1>7 DEF c, l

-----------------------------------------------------------------------------
(* Votes *)

\* Within a term only one node is elected, because two majorities share a voter.
LEMMA ElectedIsUnique ==
  ASSUME TypeOK, OneVotePerTerm, ElectedByMajority
  PROVE  ElectionSafety
<1> SUFFICES ASSUME NEW a \in elected, NEW b \in elected, a[1] = b[1]
             PROVE  a = b
  BY ZenonT(60) DEF ElectionSafety
<1>1. PICK P \in SUBSET Server : /\ Cardinality(P) >= Majority
                                 /\ \A v \in P : <<v, a[1], a[2]>> \in granted
  BY ZenonT(60) DEF ElectedByMajority
<1>2. PICK Q \in SUBSET Server : /\ Cardinality(Q) >= Majority
                                 /\ \A v \in Q : <<v, b[1], b[2]>> \in granted
  BY ZenonT(60) DEF ElectedByMajority
<1>3. PICK v \in P \cap Q : TRUE
  BY ZenonT(60), <1>1, <1>2, MajoritiesIntersect
<1>4. <<v, a[1], a[2]>> \in granted /\ <<v, a[1], b[2]>> \in granted
  BY ZenonT(60), <1>1, <1>2, <1>3
<1>5. a[2] = b[2]
  BY ZenonT(60), <1>4 DEF OneVotePerTerm
<1>6. a \in Nat \X Server /\ b \in Nat \X Server
  BY ZenonT(60) DEF TypeOK
<1> QED
  BY <1>5, <1>6

\* What a step may do at one node p without a new vote or a new leader: move to
\* a later term, forget the vote of a term it led, change its log.
NodeMoves(p, t) ==
  /\ t >= currentTerm[p]
  /\ currentTerm' = [currentTerm EXCEPT ![p] = t]
  /\ \A m \in Server \ {p} : /\ votedFor'[m] = votedFor[m]
                             /\ role'[m] = role[m]
                             /\ log'[m] = log[m]
  /\ role'[p] = "leader" => role[p] = "leader" /\ t = currentTerm[p]
  /\ t = currentTerm[p] => \/ votedFor'[p] = votedFor[p]
                           \/ votedFor'[p] = Nil /\ <<t, p>> \in elected
  /\ \A i \in 1..Len(log'[p]) : log'[p][i].term <= t
  /\ t = currentTerm[p] /\ <<t, p>> \in elected => LastTerm(log'[p]) = t
  /\ UNCHANGED <<granted, elected>>

\* Such a step keeps the facts about nodes.
LEMMA NodeMovesInv ==
  ASSUME TypeOK, NodeInv, NEW p \in Server, NEW t \in Nat, NodeMoves(p, t)
  PROVE  NodeInv'
<1> USE DEF NodeInv
<1>1. /\ currentTerm'[p] = t
      /\ \A m \in Server \ {p} : currentTerm'[m] = currentTerm[m]
  BY ZenonT(60) DEF NodeMoves, TypeOK
<1>2. \A m \in Server : currentTerm[m] \in Nat
  BY ZenonT(60) DEF TypeOK
<1>3. VotesAreRemembered'
  <2> SUFFICES ASSUME NEW g \in granted
               PROVE  /\ g[2] <= currentTerm'[g[1]]
                      /\ g[2] = currentTerm'[g[1]] =>
                           \/ votedFor'[g[1]] = g[3]
                           \/ votedFor'[g[1]] = Nil /\ <<g[2], g[1]>> \in elected
    BY ZenonT(60) DEF VotesAreRemembered, NodeMoves
  <2>1. g[1] \in Server /\ g[2] \in Nat
    BY ZenonT(60) DEF TypeOK
  <2>2. /\ g[2] <= currentTerm[g[1]]
        /\ g[2] = currentTerm[g[1]] =>
             \/ votedFor[g[1]] = g[3]
             \/ votedFor[g[1]] = Nil /\ <<g[2], g[1]>> \in elected
    BY ZenonT(60) DEF VotesAreRemembered
  <2>3. CASE g[1] = p
    BY <1>1, <1>2, <2>1, <2>2, <2>3 DEF NodeMoves
  <2>4. CASE g[1] # p
    BY ZenonT(60), <1>1, <2>1, <2>2, <2>4 DEF NodeMoves
  <2> QED
    BY ZenonT(60), <2>3, <2>4
<1>4. OneVotePerTerm' /\ ElectedByMajority'
  BY ZenonT(60) DEF OneVotePerTerm, ElectedByMajority, NodeMoves
<1>5. LeaderIsElected'
  BY <1>1 DEF LeaderIsElected, NodeMoves
<1>6. ElectedHasEntry'
  <2> SUFFICES ASSUME NEW e \in elected
               PROVE  /\ e[1] <= currentTerm'[e[2]]
                      /\ e[1] = currentTerm'[e[2]] => LastTerm(log'[e[2]]) = e[1]
    BY ZenonT(60) DEF ElectedHasEntry, NodeMoves
  <2>0. e \in Nat \X Server
    BY ZenonT(60) DEF TypeOK
  <2>1. e[1] \in Nat /\ e[2] \in Server /\ e = <<e[1], e[2]>>
    BY <2>0
  <2>2. /\ e[1] <= currentTerm[e[2]]
        /\ e[1] = currentTerm[e[2]] => LastTerm(log[e[2]]) = e[1]
    BY ZenonT(60) DEF ElectedHasEntry
  <2>3. CASE e[2] = p
    <3>1. e[1] = t => t = currentTerm[p]
      BY <1>2, <2>1, <2>2, <2>3 DEF NodeMoves
    <3>2. <<e[1], p>> \in elected
      BY ZenonT(60), <2>1, <2>3
    <3>3. e[1] <= t
      BY <1>2, <2>1, <2>2, <2>3 DEF NodeMoves
    <3> QED
      BY ZenonT(60), <1>1, <2>3, <3>1, <3>2, <3>3 DEF NodeMoves
  <2>4. CASE e[2] # p
    <3>1. log'[e[2]] = log[e[2]] /\ currentTerm'[e[2]] = currentTerm[e[2]]
      BY ZenonT(60), <1>1, <2>1, <2>4 DEF NodeMoves
    <3> QED
      BY ZenonT(60), <2>2, <3>1
  <2> QED
    BY ZenonT(60), <2>3, <2>4
<1>7. EntriesAreNotAhead'
  <2> SUFFICES ASSUME NEW m \in Server, NEW i \in 1..Len(log'[m])
               PROVE  log'[m][i].term <= currentTerm'[m]
    BY ZenonT(60) DEF EntriesAreNotAhead
  <2>1. CASE m = p
    BY ZenonT(60), <1>1, <2>1 DEF NodeMoves
  <2>2. CASE m # p
    <3>1. log'[m] = log[m] /\ currentTerm'[m] = currentTerm[m]
      BY ZenonT(60), <1>1, <2>2 DEF NodeMoves
    <3> QED
      BY ZenonT(60), <3>1 DEF EntriesAreNotAhead
  <2> QED
    BY ZenonT(60), <2>1, <2>2
<1> QED
  BY ZenonT(60), <1>3, <1>4, <1>5, <1>6, <1>7

\* Forgetting the vote: on a later term, or as a leader without a quorum.
LEMMA BecomeFollowerInv ==
  ASSUME TypeOK, NodeInv, NEW n \in Server, NEW t \in Nat,
         t >= currentTerm[n], t = currentTerm[n] => role[n] = "leader",
         BecomeFollower(n, t), log' = log, granted' = granted, elected' = elected
  PROVE  NodeInv'
<1>1. \A i \in 1..Len(log[n]) : log[n][i].term <= t
  <2> SUFFICES ASSUME NEW i \in 1..Len(log[n]) PROVE log[n][i].term <= t
    BY ZenonT(60)
  <2>1. log[n][i] \in Entry /\ currentTerm[n] \in Nat
    BY DEF TypeOK
  <2>2. log[n][i].term <= currentTerm[n]
    BY ZenonT(60) DEF NodeInv, EntriesAreNotAhead
  <2> QED
    BY <2>1, <2>2 DEF Entry
<1>2. <<t, n>> \in elected /\ t = currentTerm[n] => LastTerm(log[n]) = t
  BY ZenonT(60) DEF NodeInv, ElectedHasEntry
<1>3. t = currentTerm[n] => <<t, n>> \in elected
  BY ZenonT(60) DEF NodeInv, LeaderIsElected, TypeOK
<1>4. t >= currentTerm[n]
  BY ZenonT(60) DEF TypeOK
<1>5. /\ \A m \in Server \ {n} : votedFor'[m] = votedFor[m] /\ role'[m] = role[m]
      /\ role'[n] # "leader" /\ votedFor'[n] = Nil
  BY ZenonT(60) DEF BecomeFollower, TypeOK
<1>6. LastTerm(log'[n]) = LastTerm(log[n])
  BY ZenonT(60) DEF LastTerm, TermAt
<1>7. NodeMoves(n, t)
  BY ZenonT(60), <1>1, <1>2, <1>3, <1>4, <1>5, <1>6 DEF NodeMoves, BecomeFollower
<1> QED
  BY ZenonT(60), <1>7, NodeMovesInv

\* A vote is granted to at most one candidate of a term.
LEMMA HandleRequestVoteInv ==
  ASSUME TypeOK, NodeInv, NEW p \in Server, NEW req \in VoteRequest,
         req.llt < req.term, HandleRequestVote(p, req)
  PROVE  /\ NodeInv'
         /\ granted \subseteq granted'
         /\ Grants(p, req) => <<p, req.term, req.from>> \in granted'
<1>0. /\ req.term \in Nat /\ req.from \in Server /\ req.llt \in Nat
      /\ currentTerm[p] \in Nat
  BY ZenonT(60) DEF VoteRequest, TypeOK
<1> DEFINE t == IF req.term > currentTerm[p] THEN req.term ELSE currentTerm[p]
<1>1. t \in Nat /\ t >= currentTerm[p]
  BY <1>0
<1>2. /\ currentTerm' = [currentTerm EXCEPT ![p] = t]
      /\ \A m \in Server \ {p} : /\ votedFor'[m] = votedFor[m]
                                 /\ role'[m] = role[m]
                                 /\ log'[m] = log[m]
      /\ role'[p] = IF req.term > currentTerm[p] THEN "follower" ELSE role[p]
      /\ log' = log
      /\ elected' = elected
  BY ZenonT(60) DEF HandleRequestVote, TypeOK
<1>3. granted' = IF Grants(p, req) THEN granted \cup {<<p, req.term, req.from>>}
                                   ELSE granted
  BY ZenonT(60) DEF HandleRequestVote
<1>4. \A i \in 1..Len(log[p]) : log[p][i].term <= t
  <2> SUFFICES ASSUME NEW i \in 1..Len(log[p]) PROVE log[p][i].term <= t
    BY ZenonT(60)
  <2>1. log[p][i] \in Entry
    BY DEF TypeOK
  <2>2. log[p][i].term <= currentTerm[p]
    BY ZenonT(60) DEF NodeInv, EntriesAreNotAhead
  <2> QED
    BY <1>0, <1>1, <2>1, <2>2 DEF Entry
<1>5. <<t, p>> \in elected /\ t = currentTerm[p] => LastTerm(log[p]) = t
  BY ZenonT(60) DEF NodeInv, ElectedHasEntry
<1>6. CASE ~Grants(p, req)
  <2>1. t = currentTerm[p] => votedFor'[p] = votedFor[p]
    BY <1>0, <1>6 DEF HandleRequestVote, TypeOK
  <2>2. NodeMoves(p, t)
    BY ZenonT(60), <1>0, <1>1, <1>2, <1>3, <1>4, <1>5, <1>6, <2>1 DEF NodeMoves
  <2> QED
    BY ZenonT(60), <1>1, <1>3, <1>6, <2>2, NodeMovesInv
<1>7. CASE Grants(p, req)
  <2>1. t = req.term
    BY ZenonT(60), <1>0, <1>7 DEF Grants
  <2>2. votedFor'[p] = req.from
    BY ZenonT(60), <1>7 DEF HandleRequestVote, TypeOK
  <2>3. granted' = granted \cup {<<p, t, req.from>>}
    BY ZenonT(60), <1>3, <1>7, <2>1
  <2>4. ASSUME NEW g \in granted, g[1] = p, g[2] = t PROVE g[3] = req.from
    <3>1. /\ g[2] <= currentTerm[p]
          /\ \/ votedFor[p] = g[3]
             \/ votedFor[p] = Nil /\ <<t, p>> \in elected
      BY <1>0, <1>1, <2>4 DEF NodeInv, VotesAreRemembered
    <3>2. t = currentTerm[p]
      BY <1>0, <1>1, <2>4, <3>1
    <3>3. votedFor[p] \in {Nil, req.from} /\ UpToDate(req, log[p])
      BY <1>0, <1>7, <2>1, <3>2 DEF Grants
    <3>4. CASE <<t, p>> \in elected
      <4>1. LastTerm(log[p]) = t
        BY ZenonT(60), <1>5, <3>2, <3>4
      <4> QED
        BY <1>0, <2>1, <3>3, <4>1 DEF UpToDate
    <3>5. CASE votedFor[p] = g[3]
      <4>1. g[3] \in Server
        BY ZenonT(60) DEF TypeOK
      <4>2. Nil \notin Server
        BY ZenonT(60), ServerAssumption
      <4> QED
        BY ZenonT(60), <3>3, <3>5, <4>1, <4>2
    <3> QED
      BY ZenonT(60), <3>1, <3>4, <3>5
  <2>5. /\ currentTerm'[p] = t
        /\ \A m \in Server \ {p} : currentTerm'[m] = currentTerm[m]
    BY ZenonT(60), <1>2 DEF TypeOK
  <2>6. VotesAreRemembered'
    <3> SUFFICES ASSUME NEW g \in granted'
                 PROVE  /\ g[2] <= currentTerm'[g[1]]
                        /\ g[2] = currentTerm'[g[1]] =>
                             \/ votedFor'[g[1]] = g[3]
                             \/ votedFor'[g[1]] = Nil /\ <<g[2], g[1]>> \in elected
      BY ZenonT(60), <1>2 DEF VotesAreRemembered
    <3>1. CASE g = <<p, t, req.from>>
      BY <1>1, <2>2, <2>5, <3>1
    <3>2. CASE g \in granted
      <4>1. g[1] \in Server /\ g[2] \in Nat
        BY ZenonT(60), <3>2 DEF TypeOK
      <4>2. /\ g[2] <= currentTerm[g[1]]
            /\ g[2] = currentTerm[g[1]] =>
                 \/ votedFor[g[1]] = g[3]
                 \/ votedFor[g[1]] = Nil /\ <<g[2], g[1]>> \in elected
        BY ZenonT(60), <3>2 DEF NodeInv, VotesAreRemembered
      <4>3. CASE g[1] = p
        BY <1>0, <1>1, <2>2, <2>4, <2>5, <3>2, <4>1, <4>2, <4>3
      <4>4. CASE g[1] # p
        BY ZenonT(60), <1>2, <2>5, <4>1, <4>2, <4>4
      <4> QED
        BY ZenonT(60), <4>3, <4>4
    <3> QED
      BY ZenonT(60), <2>3, <3>1, <3>2
  <2>7. OneVotePerTerm'
    BY <2>3, <2>4 DEF NodeInv, OneVotePerTerm
  <2>8. ElectedByMajority'
    BY ZenonT(60), <1>2, <2>3 DEF NodeInv, ElectedByMajority
  <2>9. LeaderIsElected'
    BY <1>0, <1>2, <2>5 DEF NodeInv, LeaderIsElected
  <2>10. ElectedHasEntry'
    <3> SUFFICES ASSUME NEW e \in elected
                 PROVE  /\ e[1] <= currentTerm'[e[2]]
                        /\ e[1] = currentTerm'[e[2]] => LastTerm(log[e[2]]) = e[1]
      BY ZenonT(60), <1>2 DEF ElectedHasEntry
    <3>0. e \in Nat \X Server
      BY ZenonT(60) DEF TypeOK
    <3>1. e[1] \in Nat /\ e[2] \in Server
      BY ZenonT(60), <3>0
    <3>2. /\ e[1] <= currentTerm[e[2]]
          /\ e[1] = currentTerm[e[2]] => LastTerm(log[e[2]]) = e[1]
      BY ZenonT(60) DEF NodeInv, ElectedHasEntry
    <3> QED
      BY <1>0, <1>1, <2>5, <3>1, <3>2
  <2>11. EntriesAreNotAhead'
    BY ZenonT(60), <1>2, <1>4, <2>5 DEF NodeInv, EntriesAreNotAhead
  <2>12. NodeInv'
    BY ZenonT(60), <2>6, <2>7, <2>8, <2>9, <2>10, <2>11 DEF NodeInv
  <2> QED
    BY ZenonT(60), <1>3, <1>7, <2>12
<1> QED
  BY ZenonT(60), <1>6, <1>7
\* A request of the current term cannot come from p itself having led the term:
\* only the sender was elected in it.
LEMMA HandleAppendEntriesInv ==
  ASSUME TypeOK, NodeInv, NEW p \in Server, NEW req \in AppendRequest,
         req.to = p, SentByElected(req), HandleAppendEntries(p, req)
  PROVE  NodeInv' /\ granted' = granted /\ elected' = elected
<1>0. /\ req.term \in Nat /\ req.from \in Server /\ req.prev \in Nat
      /\ req.entries \in Seq(Entry)
      /\ currentTerm[p] \in Nat /\ log[p] \in Seq(Entry)
  BY ZenonT(60) DEF AppendRequest, TypeOK
<1> DEFINE t == IF req.term > currentTerm[p] THEN req.term ELSE currentTerm[p]
           l == IF Accepts(p, req) THEN AppendToLog(log[p], req.prev, req.entries)
                                   ELSE log[p]
<1>1. t \in Nat /\ t >= currentTerm[p] /\ t >= req.term
  BY <1>0
<1>2. /\ currentTerm' = [currentTerm EXCEPT ![p] = t]
      /\ granted' = granted /\ elected' = elected
      /\ log'[p] = l
      /\ t = currentTerm[p] => votedFor'[p] = votedFor[p]
      /\ role'[p] = "leader" => role[p] = "leader" /\ req.term < currentTerm[p]
  <2>1. currentTerm' = [currentTerm EXCEPT ![p] = t] /\ granted' = granted
        /\ elected' = elected
    BY ZenonT(60) DEF HandleAppendEntries, historyVars
  <2>2. log'[p] = l
    <3>1. log' = [log EXCEPT ![p] = l]
      BY ZenonT(60) DEF HandleAppendEntries
    <3> HIDE DEF l
    <3> QED
      BY ZenonT(60), <3>1 DEF TypeOK
  <2>3. t = currentTerm[p] => votedFor'[p] = votedFor[p]
    <3>1. votedFor' = [votedFor EXCEPT
                         ![p] = IF req.term > currentTerm[p] THEN Nil ELSE @]
      BY ZenonT(60) DEF HandleAppendEntries
    <3>2. votedFor \in [Server -> Server \cup {Nil}]
      BY ZenonT(60) DEF TypeOK
    <3> HIDE DEF l
    <3> QED
      BY <1>0, <3>1, <3>2
  <2>4. role'[p] = "leader" => role[p] = "leader" /\ req.term < currentTerm[p]
    <3>1. role' = [role EXCEPT
                     ![p] = IF req.term >= currentTerm[p] THEN "follower" ELSE @]
      BY ZenonT(60) DEF HandleAppendEntries
    <3>2. role \in [Server -> {"follower", "candidate", "leader"}]
      BY ZenonT(60) DEF TypeOK
    <3> HIDE DEF l, t
    <3> QED
      BY <1>0, <3>1, <3>2
  <2> QED
    BY ZenonT(60), <2>1, <2>2, <2>3, <2>4
<1>3. \A m \in Server \ {p} : /\ votedFor'[m] = votedFor[m]
                              /\ role'[m] = role[m]
                              /\ log'[m] = log[m]
  BY ZenonT(60) DEF HandleAppendEntries, TypeOK
<1>4. \A i \in 1..Len(log[p]) : log[p][i].term <= t
  <2> SUFFICES ASSUME NEW i \in 1..Len(log[p]) PROVE log[p][i].term <= t
    BY ZenonT(60)
  <2>1. log[p][i] \in Entry
    BY <1>0
  <2>2. log[p][i].term <= currentTerm[p]
    BY ZenonT(60) DEF NodeInv, EntriesAreNotAhead
  <2> QED
    BY <1>0, <1>1, <2>1, <2>2 DEF Entry
<1>5. \A i \in 1..Len(req.entries) : req.entries[i].term <= t
  <2> SUFFICES ASSUME NEW i \in 1..Len(req.entries) PROVE req.entries[i].term <= t
    BY ZenonT(60)
  <2>1. req.entries[i] \in Entry
    BY <1>0
  <2>2. req.entries[i].term <= req.term
    BY ZenonT(60) DEF SentByElected
  <2> QED
    BY <1>0, <1>1, <2>1, <2>2 DEF Entry
<1>6. \A i \in 1..Len(l) : l[i].term <= t
  <2>1. CASE ~Accepts(p, req)
    BY ZenonT(60), <1>4, <2>1
  <2>2. CASE Accepts(p, req)
    <3>1. req.prev <= Len(log[p])
      BY <1>0, <2>2 DEF Accepts, LastIndex
    <3> DEFINE al == AppendToLog(log[p], req.prev, req.entries)
    <3>2. \A i \in 1..Len(al) : \/ i \in 1..Len(log[p]) /\ al[i] = log[p][i]
                                \/ \E k \in 1..Len(req.entries) : al[i] = req.entries[k]
      BY ZenonT(60), <1>0, <3>1, AppendToLogType
    <3>3. l = al
      BY ZenonT(60), <2>2
    <3> HIDE DEF al, l, t
    <3> QED
      BY ZenonT(60), <1>4, <1>5, <3>2, <3>3
  <2> QED
    BY ZenonT(60), <2>1, <2>2
<1>7. req.term = currentTerm[p] => <<currentTerm[p], p>> \notin elected
  <2> SUFFICES ASSUME req.term = currentTerm[p], <<currentTerm[p], p>> \in elected
               PROVE  FALSE
    BY ZenonT(60)
  <2>1. <<req.term, req.from>> \in elected /\ req.from # p
    BY ZenonT(60) DEF SentByElected
  <2>2. ElectionSafety
    BY ZenonT(60), ElectedIsUnique DEF NodeInv
  <2>3. <<req.term, req.from>> = <<currentTerm[p], p>>
    BY ZenonT(60), <2>1, <2>2 DEF ElectionSafety
  <2> QED
    BY ZenonT(60), <2>1, <2>3
<1>8. t = currentTerm[p] /\ <<t, p>> \in elected => LastTerm(l) = t
  <2> SUFFICES ASSUME t = currentTerm[p], <<t, p>> \in elected PROVE LastTerm(l) = t
    BY ZenonT(60)
  <2>1. ~Accepts(p, req)
    BY <1>0, <1>7 DEF Accepts
  <2>2. LastTerm(log[p]) = t
    BY ZenonT(60) DEF NodeInv, ElectedHasEntry
  <2> QED
    BY ZenonT(60), <2>1, <2>2
<1>9. role'[p] = "leader" => role[p] = "leader" /\ t = currentTerm[p]
  BY <1>0, <1>2
<1>10. NodeMoves(p, t)
  <2> HIDE DEF l
  <2> QED
    BY ZenonT(60), <1>0, <1>1, <1>2, <1>3, <1>6, <1>8, <1>9 DEF NodeMoves
<1> QED
  BY ZenonT(60), <1>1, <1>2, <1>10, NodeMovesInv

\* Winning the election: the votes that were counted are a majority.
LEMMA BecomeLeaderInv ==
  ASSUME TypeOK, NodeInv, NEW n \in Server, NEW voters \in SUBSET Server,
         \A v \in voters : <<v, currentTerm[n], n>> \in granted,
         Cardinality(voters) >= Majority,
         BecomeLeader(n), UNCHANGED <<currentTerm, votedFor, granted>>
  PROVE  NodeInv' /\ elected \subseteq elected'
<1> DEFINE e0 == <<currentTerm[n], n>>
           entry == [term |-> currentTerm[n], val |-> NOOP]
<1>1. elected' = elected \cup {e0}
  BY ZenonT(60) DEF BecomeLeader
<1>2. /\ log'[n] = Append(log[n], entry)
      /\ \A m \in Server \ {n} : log'[m] = log[m] /\ role'[m] = role[m]
  <2> HIDE DEF entry
  <2>1. log' = [log EXCEPT ![n] = Append(@, entry)]
    BY ZenonT(60) DEF BecomeLeader, entry
  <2> QED
    BY ZenonT(60), <2>1 DEF BecomeLeader, TypeOK
<1>3. log[n] \in Seq(Entry) /\ currentTerm[n] \in Nat /\ entry \in Entry
  BY ZenonT(60) DEF TypeOK, Entry
<1>4. Len(log'[n]) = Len(log[n]) + 1 /\ log'[n][Len(log[n]) + 1] = entry
  <2> HIDE DEF entry
  <2> QED
    BY <1>2, <1>3
<1>5. \A i \in 1..Len(log[n]) : log'[n][i] = log[n][i]
  <2> HIDE DEF entry
  <2> QED
    BY <1>2, <1>3
<1>6. LastTerm(log'[n]) = currentTerm[n]
  BY <1>3, <1>4 DEF LastTerm, TermAt
<1>7. VotesAreRemembered'
  BY ZenonT(60), <1>1 DEF NodeInv, VotesAreRemembered
<1>8. OneVotePerTerm'
  BY ZenonT(60) DEF NodeInv, OneVotePerTerm
<1>9. ElectedByMajority'
  <2> SUFFICES ASSUME NEW e \in elected'
               PROVE  \E vs \in SUBSET Server :
                        /\ Cardinality(vs) >= Majority
                        /\ \A v \in vs : <<v, e[1], e[2]>> \in granted
    BY ZenonT(60) DEF ElectedByMajority
  <2>1. CASE e = e0
    BY ZenonT(60), <2>1
  <2>2. CASE e \in elected
    BY ZenonT(60), <2>2 DEF NodeInv, ElectedByMajority
  <2> QED
    BY ZenonT(60), <1>1, <2>1, <2>2
<1>10. LeaderIsElected'
  BY ZenonT(60), <1>1, <1>2 DEF NodeInv, LeaderIsElected
<1>11. ElectedHasEntry'
  <2> SUFFICES ASSUME NEW e \in elected'
               PROVE  /\ e[1] <= currentTerm[e[2]]
                      /\ e[1] = currentTerm[e[2]] => LastTerm(log'[e[2]]) = e[1]
    BY ZenonT(60) DEF ElectedHasEntry
  <2>1. CASE e = e0
    BY <1>3, <1>6, <2>1
  <2>2. CASE e \in elected
    <3>0. e \in Nat \X Server
      BY ZenonT(60), <2>2 DEF TypeOK
    <3>1. e[2] \in Server
      BY ZenonT(60), <3>0
    <3>2. /\ e[1] <= currentTerm[e[2]]
          /\ e[1] = currentTerm[e[2]] => LastTerm(log[e[2]]) = e[1]
      BY ZenonT(60), <2>2 DEF NodeInv, ElectedHasEntry
    <3>3. CASE e[2] = n
      BY ZenonT(60), <1>6, <3>2, <3>3
    <3>4. CASE e[2] # n
      <4>1. log'[e[2]] = log[e[2]]
        BY ZenonT(60), <1>2, <3>1, <3>4
      <4> QED
        BY ZenonT(60), <3>2, <4>1
    <3> QED
      BY ZenonT(60), <3>3, <3>4
  <2> QED
    BY ZenonT(60), <1>1, <2>1, <2>2
<1>12. EntriesAreNotAhead'
  <2> SUFFICES ASSUME NEW m \in Server, NEW i \in 1..Len(log'[m])
               PROVE  log'[m][i].term <= currentTerm[m]
    BY ZenonT(60) DEF EntriesAreNotAhead
  <2>1. CASE m # n
    <3>1. log'[m] = log[m]
      BY ZenonT(60), <1>2, <2>1
    <3> QED
      BY ZenonT(60), <3>1 DEF NodeInv, EntriesAreNotAhead
  <2>2. CASE m = n /\ i \in 1..Len(log[n])
    <3>1. log'[n][i] = log[n][i]
      BY ZenonT(60), <1>5, <2>2
    <3> QED
      BY ZenonT(60), <2>2, <3>1 DEF NodeInv, EntriesAreNotAhead
  <2>3. CASE m = n /\ i = Len(log[n]) + 1
    BY <1>3, <1>4, <2>3
  <2>4. m = n => i \in 1..Len(log[n]) \/ i = Len(log[n]) + 1
    BY <1>3, <1>4
  <2> QED
    BY ZenonT(60), <2>1, <2>2, <2>3, <2>4
<1>13. NodeInv'
  BY ZenonT(60), <1>7, <1>8, <1>9, <1>10, <1>11, <1>12 DEF NodeInv
<1> QED
  BY ZenonT(60), <1>1, <1>13

\* What does not touch the nodes preserves the facts about them.
LEMMA NodeUnchangedInv ==
  ASSUME NodeInv, UNCHANGED <<currentTerm, votedFor, log, role, granted, elected>>
  PROVE  NodeInv'
<1>1. VotesAreRemembered' /\ OneVotePerTerm' /\ ElectedByMajority'
  BY ZenonT(60) DEF NodeInv, VotesAreRemembered, OneVotePerTerm, ElectedByMajority
<1>2. LeaderIsElected' /\ EntriesAreNotAhead'
  BY ZenonT(60) DEF NodeInv, LeaderIsElected, EntriesAreNotAhead
<1>3. ElectedHasEntry'
  BY ZenonT(60) DEF NodeInv, ElectedHasEntry, LastTerm, TermAt
<1> QED
  BY ZenonT(60), <1>1, <1>2, <1>3 DEF NodeInv

\* A reply to an AppendEntries call leaves a node as it is or makes it follow a
\* later term.
LEMMA ProcessAppendInv ==
  ASSUME TypeOK, NodeInv, NEW n \in Server, NEW r \in AppendResponse, NEW t,
         ProcessAppendEntriesResponse(n, r, t), UNCHANGED <<log, granted, elected>>
  PROVE  NodeInv'
<1>1. r.term \in Nat
  BY ZenonT(60) DEF AppendResponse
<1>2. CASE r.term > currentTerm[n] /\ BecomeFollower(n, r.term)
  <2>0. PICK q \in Nat : q = r.term
    BY ZenonT(60), <1>1
  <2>1. q >= currentTerm[n] /\ q # currentTerm[n] /\ BecomeFollower(n, q)
    BY <1>2, <2>0 DEF TypeOK
  <2>2. log' = log /\ granted' = granted /\ elected' = elected
    BY ZenonT(60)
  <2> QED
    BY ZenonT(60), <2>1, <2>2, BecomeFollowerInv
<1>3. CASE UNCHANGED <<currentTerm, votedFor, role>>
  BY ZenonT(60), <1>3, NodeUnchangedInv
<1> QED
  BY ZenonT(60), <1>2, <1>3 DEF ProcessAppendEntriesResponse

\* A candidate votes for itself in a term that is new to it.
LEMMA StartElectionInv ==
  ASSUME TypeOK, NodeInv, NEW n \in Server, StartElection(n)
  PROVE  NodeInv' /\ granted \subseteq granted' /\ elected' = elected
<1> DEFINE t == currentTerm[n] + 1
<1>1. /\ granted' = granted \cup {<<n, t, n>>}
      /\ UNCHANGED <<elected, log>>
      /\ currentTerm'[n] = t /\ votedFor'[n] = n /\ role'[n] = "candidate"
      /\ t \in Nat /\ currentTerm[n] \in Nat
  BY DEF StartElection, TypeOK
<1>2. \A m \in Server \ {n} : /\ currentTerm'[m] = currentTerm[m]
                              /\ votedFor'[m] = votedFor[m]
                              /\ role'[m] = role[m]
  BY ZenonT(60) DEF StartElection, TypeOK
<1>3. ASSUME NEW g \in granted PROVE g[1] = n => g[2] < t
  <2>1. g[2] \in Nat /\ g[2] <= currentTerm[g[1]]
    BY ZenonT(60) DEF TypeOK, NodeInv, VotesAreRemembered
  <2> QED
    BY <1>1, <2>1
<1> HIDE DEF t
<1>4. VotesAreRemembered'
  <2> SUFFICES ASSUME NEW g \in granted'
               PROVE  /\ g[2] <= currentTerm'[g[1]]
                      /\ g[2] = currentTerm'[g[1]] =>
                           \/ votedFor'[g[1]] = g[3]
                           \/ votedFor'[g[1]] = Nil /\ <<g[2], g[1]>> \in elected
    BY ZenonT(60), <1>1 DEF VotesAreRemembered
  <2>1. CASE g = <<n, t, n>>
    BY <1>1, <2>1
  <2>2. CASE g \in granted
    <3>1. g[1] \in Server /\ g[2] \in Nat
      BY ZenonT(60), <2>2 DEF TypeOK
    <3>2. /\ g[2] <= currentTerm[g[1]]
          /\ g[2] = currentTerm[g[1]] =>
               \/ votedFor[g[1]] = g[3]
               \/ votedFor[g[1]] = Nil /\ <<g[2], g[1]>> \in elected
      BY ZenonT(60), <2>2 DEF NodeInv, VotesAreRemembered
    <3>3. CASE g[1] = n
      BY <1>1, <1>3, <2>2, <3>1, <3>3
    <3>4. CASE g[1] # n
      BY ZenonT(60), <1>2, <3>1, <3>2, <3>4
    <3> QED
      BY ZenonT(60), <3>3, <3>4
  <2> QED
    BY ZenonT(60), <1>1, <2>1, <2>2
<1>5. OneVotePerTerm'
  <2>1. ASSUME NEW g \in granted', NEW h \in granted', g[1] = h[1], g[2] = h[2]
        PROVE  g[3] = h[3]
    <3>0. \A x \in granted : x[2] \in Nat
      BY ZenonT(60) DEF TypeOK
    <3>1. CASE g \in granted /\ h \in granted
      BY ZenonT(60), <2>1, <3>1 DEF NodeInv, OneVotePerTerm
    <3>2. CASE g = <<n, t, n>> /\ h \in granted
      BY <1>1, <1>3, <2>1, <3>0, <3>2
    <3>3. CASE g \in granted /\ h = <<n, t, n>>
      BY <1>1, <1>3, <2>1, <3>0, <3>3
    <3> QED
      BY ZenonT(60), <1>1, <3>1, <3>2, <3>3
  <2> QED
    BY ZenonT(60), <2>1 DEF OneVotePerTerm
<1>6. ElectedByMajority'
  BY ZenonT(60), <1>1 DEF NodeInv, ElectedByMajority
<1>7. LeaderIsElected'
  BY ZenonT(60), <1>1, <1>2 DEF NodeInv, LeaderIsElected
<1>8. ElectedHasEntry'
  <2> SUFFICES ASSUME NEW e \in elected
               PROVE  /\ e[1] <= currentTerm'[e[2]]
                      /\ e[1] = currentTerm'[e[2]] => LastTerm(log[e[2]]) = e[1]
    BY ZenonT(60), <1>1 DEF ElectedHasEntry
  <2>0. e \in Nat \X Server
    BY ZenonT(60) DEF TypeOK
  <2>1. e[1] \in Nat /\ e[2] \in Server
    BY ZenonT(60), <2>0
  <2>2. /\ e[1] <= currentTerm[e[2]]
        /\ e[1] = currentTerm[e[2]] => LastTerm(log[e[2]]) = e[1]
    BY ZenonT(60) DEF NodeInv, ElectedHasEntry
  <2> QED
    BY <1>1, <1>2, <2>1, <2>2 DEF t
<1>9. EntriesAreNotAhead'
  <2> SUFFICES ASSUME NEW m \in Server, NEW i \in 1..Len(log[m])
               PROVE  log[m][i].term <= currentTerm'[m]
    BY ZenonT(60), <1>1 DEF EntriesAreNotAhead
  <2>1. log[m][i] \in Entry /\ currentTerm[m] \in Nat
    BY DEF TypeOK
  <2>2. log[m][i].term <= currentTerm[m]
    BY ZenonT(60) DEF NodeInv, EntriesAreNotAhead
  <2>3. log[m][i].term \in Nat
    BY ZenonT(60), <2>1 DEF Entry
  <2> QED
    BY <1>1, <1>2, <2>1, <2>2, <2>3 DEF t
<1>10. NodeInv'
  BY ZenonT(60), <1>4, <1>5, <1>6, <1>7, <1>8, <1>9 DEF NodeInv
<1> QED
  BY ZenonT(60), <1>1, <1>10
-----------------------------------------------------------------------------
(* The calls under way *)

-----------------------------------------------------------------------------
(* Elections *)

\* The locals of an election of node n, when the votes in `votes' were granted.
ElectionOK(n, e, votes) ==
  /\ \A v \in e.voters : <<v, e.term, n>> \in votes
  /\ \A r \in e.reply : r.granted => <<r.from, r.term, n>> \in votes
  /\ e.todo # {} => e.llt < e.term

CallsInv ==
  /\ CountedVotesAreGranted
  /\ CandidateLogIsOlder
  /\ AppendsAreSentByElected

\* The facts about calls, one call at a time.
LEMMA CallsInvParts ==
  ASSUME CallsInv
  PROVE  /\ \A n \in Server : ElectionOK(n, elec[n], granted)
         /\ \A n \in Server, s \in Sender : \A req \in round[n][s].jobs : SentByElected(req)
         /\ \A req \in late : /\ req.type = "vote" => req.llt < req.term
                              /\ req.type = "append" => SentByElected(req)
BY ZenonT(60) DEF CallsInv, CountedVotesAreGranted, CandidateLogIsOlder,
       AppendsAreSentByElected, ElectionOK

\* They survive a step that forgets no vote and no leader when they hold of the
\* calls that the step changes.
LEMMA CallsInvNext ==
  ASSUME CallsInv, granted \subseteq granted', elected \subseteq elected',
         \A n \in Server : elec'[n] = elec[n] \/ ElectionOK(n, elec'[n], granted'),
         \A n \in Server, s \in Sender : \A req \in round'[n][s].jobs :
            req \in round[n][s].jobs \/ SentByElected(req),
         \A req \in late' :
            \/ req \in late
            \/ /\ req.type = "vote" => req.llt < req.term
               /\ req.type = "append" => SentByElected(req)
  PROVE  CallsInv'
<1>1. ASSUME NEW n \in Server PROVE ElectionOK(n, elec'[n], granted')
  <2>1. ElectionOK(n, elec[n], granted)
    BY ZenonT(60), CallsInvParts
  <2>2. ElectionOK(n, elec[n], granted')
    BY ZenonT(60), <2>1 DEF ElectionOK
  <2> QED
    BY ZenonT(60), <2>2
<1>2. CountedVotesAreGranted'
  BY ZenonT(60), <1>1 DEF ElectionOK, CountedVotesAreGranted
<1>3. \A req : SentByElected(req) => SentByElected(req)'
  BY ZenonT(60) DEF SentByElected
<1>4. CandidateLogIsOlder'
  <2>1. \A n \in Server : elec'[n].todo # {} => elec'[n].llt < elec'[n].term
    BY ZenonT(60), <1>1 DEF ElectionOK
  <2>2. \A req \in late' : req.type = "vote" => req.llt < req.term
    BY ZenonT(60), CallsInvParts
  <2> QED
    BY ZenonT(60), <2>1, <2>2 DEF CandidateLogIsOlder
<1>5. AppendsAreSentByElected'
  <2>1. \A n \in Server, s \in Sender : \A req \in round'[n][s].jobs : SentByElected(req)
    BY ZenonT(60), CallsInvParts
  <2>2. \A req \in late' : req.type = "append" => SentByElected(req)
    BY ZenonT(60), CallsInvParts
  <2> QED
    BY ZenonT(60), <1>3, <2>1, <2>2 DEF AppendsAreSentByElected
<1> QED
  BY ZenonT(60), <1>2, <1>4, <1>5 DEF CallsInv

\* The candidate's loop after a call.
LEMMA VoteReturnsInv ==
  ASSUME TypeOK, NodeInv, CallsInv, NEW n \in Server, NEW r \in VoteResponse,
         r.granted => <<r.from, r.term, n>> \in granted,
         VoteReturns(n, r), granted' = granted
  PROVE  /\ NodeInv' /\ elected \subseteq elected'
         /\ \A m \in Server : elec'[m] = elec[m] \/ ElectionOK(m, elec'[m], granted)
<1> DEFINE e == elec[n]
           voters == IF r.granted THEN e.voters \cup {r.from} ELSE e.voters
<1>0. /\ e \in Election /\ r.term \in Nat /\ r.from \in Server
      /\ currentTerm[n] \in Nat
  BY ZenonT(60) DEF TypeOK, VoteResponse
<1>1. ElectionOK(n, e, granted)
  BY ZenonT(60), CallsInvParts
<1>2. ElectionOK(n, NoElection, granted)
  BY ZenonT(60) DEF ElectionOK, NoElection
<1>3. r.term = e.term => \A v \in voters : <<v, e.term, n>> \in granted
  BY ZenonT(60), <1>1 DEF ElectionOK
<1>4. ASSUME NEW vs \in SUBSET Server, \A v \in vs : <<v, e.term, n>> \in granted
      PROVE  ElectionOK(n, Without(e, r.from, vs), granted)
  <2>1. CASE e.todo = {r.from}
    BY ZenonT(60), <1>2, <2>1 DEF Without
  <2>2. CASE e.todo # {r.from}
    <3> DEFINE w == [e EXCEPT !.todo = @ \ {r.from}, !.voters = vs, !.reply = {}]
    <3>1. Without(e, r.from, vs) = w
      BY ZenonT(60), <2>2 DEF Without
    <3> HIDE DEF e
    <3>2. /\ w.voters = vs /\ w.reply = {} /\ w.todo = e.todo \ {r.from}
          /\ w.term = e.term /\ w.llt = e.llt
      BY ZenonT(60), <1>0 DEF Election
    <3> HIDE DEF w
    <3>3. ElectionOK(n, w, granted)
      BY ZenonT(60), <1>1, <1>4, <3>2 DEF ElectionOK
    <3> QED
      BY ZenonT(60), <3>1, <3>3
  <2> QED
    BY ZenonT(60), <2>1, <2>2
<1>5. voters \in SUBSET Server /\ e.voters \in SUBSET Server
  BY ZenonT(60), <1>0 DEF Election
<1>6. ASSUME NEW x, ElectionOK(n, x, granted), elec' = [elec EXCEPT ![n] = x]
      PROVE  \A m \in Server : elec'[m] = elec[m] \/ ElectionOK(m, elec'[m], granted)
  BY ZenonT(60), <1>6 DEF TypeOK
<1>7. CASE /\ r.term > currentTerm[n]
           /\ BecomeFollower(n, r.term)
           /\ elec' = [elec EXCEPT ![n] = NoElection]
           /\ UNCHANGED <<log, leaderVars, elected>>
  <2>0. PICK q \in Nat : q = r.term
    BY ZenonT(60), <1>0
  <2>1. q >= currentTerm[n] /\ q # currentTerm[n] /\ BecomeFollower(n, q)
    BY <1>7, <2>0 DEF TypeOK
  <2>2. NodeInv'
    BY ZenonT(60), <1>7, <2>1, BecomeFollowerInv
  <2> QED
    BY ZenonT(60), <1>2, <1>6, <1>7, <2>2
<1>8. CASE /\ elec' = [elec EXCEPT ![n] = NoElection]
           /\ UNCHANGED <<currentTerm, votedFor, role, log, leaderVars, elected>>
  BY ZenonT(60), <1>2, <1>6, <1>8, NodeUnchangedInv
<1>9. CASE /\ elec' = [elec EXCEPT ![n] = Without(e, r.from, e.voters)]
           /\ UNCHANGED <<currentTerm, votedFor, role, log, leaderVars, elected>>
  <2>1. ElectionOK(n, Without(e, r.from, e.voters), granted)
    BY ZenonT(60), <1>1, <1>4, <1>5 DEF ElectionOK
  <2> QED
    BY ZenonT(60), <1>6, <1>9, <2>1, NodeUnchangedInv
<1>10. CASE /\ r.term = e.term
            /\ elec' = [elec EXCEPT ![n] = Without(e, r.from, voters)]
            /\ UNCHANGED <<currentTerm, votedFor, role, log, leaderVars, elected>>
  <2>1. ElectionOK(n, Without(e, r.from, voters), granted)
    BY ZenonT(60), <1>3, <1>4, <1>5, <1>10
  <2> QED
    BY ZenonT(60), <1>6, <1>10, <2>1, NodeUnchangedInv
<1>11. CASE /\ currentTerm[n] = e.term /\ r.term = e.term
            /\ Cardinality(voters) >= Majority
            /\ BecomeLeader(n)
            /\ elec' = [elec EXCEPT ![n] = NoElection]
            /\ UNCHANGED <<currentTerm, votedFor>>
  <2>1. \A v \in voters : <<v, currentTerm[n], n>> \in granted
    BY ZenonT(60), <1>3, <1>11
  <2>2. NodeInv' /\ elected \subseteq elected'
    <3> HIDE DEF voters
    <3> QED
      BY ZenonT(60), <1>5, <1>11, <2>1, BecomeLeaderInv
  <2> QED
    BY ZenonT(60), <1>2, <1>6, <1>11, <2>2
<1> QED
  BY ZenonT(60), <1>7, <1>8, <1>9, <1>10, <1>11 DEF VoteReturns

\* Every step preserves the facts about nodes and about calls.
LEMMA ElectionInductive ==
  ASSUME TypeOK, NodeInv, CallsInv, [Next]_vars
  PROVE  NodeInv' /\ CallsInv'
<1>a. \A n \in Server : ElectionOK(n, elec[n], granted) /\ elec[n] \in Election
  BY ZenonT(60), CallsInvParts DEF TypeOK
<1>b. \A n \in Server, s \in Sender : \A req \in round[n][s].jobs :
        SentByElected(req) /\ req \in AppendRequest /\ req.to \in Server
  BY CallsInvParts DEF TypeOK, Round, AppendRequest
<1>c. ASSUME UNCHANGED <<currentTerm, votedFor, log, role, elec, round, late,
                         granted, elected>>
      PROVE  NodeInv' /\ CallsInv'
  BY ZenonT(60), <1>c, NodeUnchangedInv, CallsInvNext
<1>1. ASSUME NEW n \in Server, StartElection(n) PROVE NodeInv' /\ CallsInv'
  <2>1. NodeInv' /\ granted \subseteq granted' /\ elected' = elected
    BY ZenonT(60), <1>1, StartElectionInv
  <2>2. LastTerm(log[n]) < currentTerm[n] + 1
    <3>1. log[n] \in Seq(Entry) /\ currentTerm[n] \in Nat /\ Len(log[n]) \in Nat
      BY DEF TypeOK
    <3>2. \A i \in 1..Len(log[n]) : log[n][i].term \in Nat /\ log[n][i].term <= currentTerm[n]
      <4>1. \A i \in 1..Len(log[n]) : log[n][i] \in Entry
        BY <3>1
      <4> QED
        BY ZenonT(60), <4>1 DEF NodeInv, EntriesAreNotAhead, Entry
    <3> QED
      BY <3>1, <3>2 DEF LastTerm, TermAt
  <2> DEFINE e == [term |-> currentTerm[n] + 1, lli |-> LastIndex(log[n]),
                   llt |-> LastTerm(log[n]), todo |-> Peers(n), voters |-> {n},
                   reply |-> {}]
  <2>3. elec' = [elec EXCEPT ![n] = IF Peers(n) = {} THEN NoElection ELSE e]
    BY ZenonT(60), <1>1 DEF StartElection
  <2>4. <<n, currentTerm[n] + 1, n>> \in granted'
    BY ZenonT(60), <1>1 DEF StartElection
  <2>5. ElectionOK(n, e, granted')
    BY ZenonT(60), <2>2, <2>4 DEF ElectionOK
  <2>6. ElectionOK(n, NoElection, granted')
    BY ZenonT(60) DEF ElectionOK, NoElection
  <2> HIDE DEF e
  <2>7. \A m \in Server : elec'[m] = elec[m] \/ ElectionOK(m, elec'[m], granted')
    BY ZenonT(60), <2>3, <2>5, <2>6 DEF TypeOK
  <2>8. UNCHANGED <<round, late>>
    BY ZenonT(60), <1>1 DEF StartElection
  <2> QED
    BY ZenonT(60), <2>1, <2>7, <2>8, CallsInvNext
<1>2. ASSUME NEW n \in Server, VoteReplied(n) PROVE NodeInv' /\ CallsInv'
  <2>1. PICK r \in elec[n].reply : VoteReturns(n, r)
    BY ZenonT(60), <1>2 DEF VoteReplied
  <2>2. r \in VoteResponse /\ (r.granted => <<r.from, r.term, n>> \in granted)
    BY ZenonT(60), <1>a, <2>1 DEF ElectionOK, Election
  <2>3. UNCHANGED <<round, late, granted>>
    BY ZenonT(60), <1>2 DEF VoteReplied
  <2>4. /\ NodeInv' /\ elected \subseteq elected'
        /\ \A m \in Server : elec'[m] = elec[m] \/ ElectionOK(m, elec'[m], granted)
    BY ZenonT(60), <2>1, <2>2, <2>3, VoteReturnsInv
  <2> QED
    BY ZenonT(60), <2>3, <2>4, CallsInvNext
<1>3. ASSUME NEW n \in Server, NEW p \in Peers(n), AskVote(n, p)
      PROVE  NodeInv' /\ CallsInv'
  <2> DEFINE req == VoteRequestOf(n, p)
             reply == VoteReply(p, req)
             e == [elec[n] EXCEPT !.reply = {reply}]
  <2>1. /\ req \in VoteRequest /\ p \in Server /\ req.llt < req.term
        /\ req.from = n /\ req.term \in Nat
    BY ZenonT(60), <1>3, <1>a DEF AskVote, VoteRequestOf, VoteRequest, Election, ElectionOK, Peers
  <2>2. HandleRequestVote(p, req) /\ elec' = [elec EXCEPT ![n] = e]
    BY ZenonT(60), <1>3, <1>a DEF AskVote, TypeOK
  <2>3. /\ reply.from = p
        /\ reply.term = IF req.term > currentTerm[p] THEN req.term ELSE currentTerm[p]
        /\ reply.granted <=> Grants(p, req)
    BY ZenonT(60) DEF VoteReply
  <2>4. Grants(p, req) => reply.term = req.term
    BY ZenonT(60), <2>1, <2>3 DEF Grants, TypeOK
  <2> HIDE DEF req, reply
  <2>5. /\ NodeInv' /\ granted \subseteq granted'
        /\ Grants(p, req) => <<p, req.term, req.from>> \in granted'
    BY ZenonT(60), <2>1, <2>2, HandleRequestVoteInv
  <2>6. /\ e.voters = elec[n].voters /\ e.term = elec[n].term
        /\ e.llt = elec[n].llt /\ e.todo = elec[n].todo /\ e.reply = {reply}
    BY <1>a DEF Election
  <2> HIDE DEF e
  <2>7. ElectionOK(n, e, granted')
    BY ZenonT(60), <1>a, <2>1, <2>3, <2>4, <2>5, <2>6 DEF ElectionOK
  <2>8. \A m \in Server : elec'[m] = elec[m] \/ ElectionOK(m, elec'[m], granted')
    BY ZenonT(60), <2>2, <2>7 DEF TypeOK
  <2>9. UNCHANGED <<round, late, elected>>
    BY ZenonT(60), <1>3 DEF AskVote, HandleRequestVote
  <2> QED
    BY ZenonT(60), <2>5, <2>8, <2>9, CallsInvNext
<1>4. ASSUME NEW n \in Server, NEW p \in Peers(n), VoteFailed(n, p)
      PROVE  NodeInv' /\ CallsInv'
  <2> DEFINE r == [from |-> p, term |-> 0, granted |-> FALSE]
             req == VoteRequestOf(n, p)
  <2>1. r \in VoteResponse /\ ~r.granted
    BY ZenonT(60) DEF VoteResponse, Peers
  <2>2. VoteReturns(n, r) /\ UNCHANGED <<round, granted>>
    BY ZenonT(60), <1>4 DEF VoteFailed
  <2> HIDE DEF r
  <2>3. /\ NodeInv' /\ elected \subseteq elected'
        /\ \A m \in Server : elec'[m] = elec[m] \/ ElectionOK(m, elec'[m], granted)
    BY ZenonT(60), <2>1, <2>2, VoteReturnsInv
  <2>4. req.type = "vote" /\ req.llt < req.term
    BY ZenonT(60), <1>4, <1>a DEF VoteFailed, VoteRequestOf, ElectionOK
  <2>5. late' \subseteq late \cup {req}
    BY ZenonT(60), <1>4 DEF VoteFailed, GiveUp
  <2> HIDE DEF req
  <2>6. \A q \in late' : q \in late \/ q = req
    BY ZenonT(60), <2>5
  <2> QED
    BY ZenonT(60), <2>2, <2>3, <2>4, <2>6, CallsInvNext
<1>5. ASSUME NEW n \in Server, TickAdvance(n) PROVE NodeInv' /\ CallsInv'
  BY ZenonT(60), <1>5, <1>c DEF TickAdvance, persistVars, callVars, historyVars
<1>6. ASSUME NEW n \in Server, ApplyCommitted(n) PROVE NodeInv' /\ CallsInv'
  BY ZenonT(60), <1>6, <1>c DEF ApplyCommitted, persistVars, callVars
<1>7. ASSUME NEW n \in Server, NEW s \in Sender, StartRound(n, s)
      PROVE  NodeInv' /\ CallsInv'
  <2>1. UNCHANGED <<currentTerm, votedFor, log, role, elec, late, granted, elected>>
    BY ZenonT(60), <1>7 DEF StartRound, persistVars, historyVars
  <2>2. ASSUME NEW p \in Peers(n) PROVE SentByElected(AppendRequestFor(n, p))
    <3> DEFINE req == AppendRequestFor(n, p)
               prev == nextIndex[n][p] - 1
    <3>1. prev \in Nat /\ p \in Server /\ log[n] \in Seq(Entry) /\ Len(log[n]) \in Nat
      BY DEF TypeOK, Peers
    <3>2. /\ req.term = currentTerm[n] /\ req.from = n /\ req.to = p
          /\ req.entries = SubSeq(log[n], prev + 1, Len(log[n]))
      BY ZenonT(60) DEF AppendRequestFor, LastIndex
    <3> HIDE DEF req, prev
    <3>3. \A i \in 1..Len(req.entries) :
            prev + 1 + i - 1 \in 1..Len(log[n]) /\ req.entries[i] = log[n][prev + 1 + i - 1]
      BY <3>1, <3>2, SubSeqType
    <3>4. \A i \in 1..Len(req.entries) : req.entries[i].term <= req.term
      BY ZenonT(60), <3>2, <3>3 DEF NodeInv, EntriesAreNotAhead
    <3>5. <<req.term, req.from>> \in elected /\ req.from # req.to
      BY ZenonT(60), <1>7, <3>2 DEF StartRound, NodeInv, LeaderIsElected, Peers
    <3>6. SentByElected(req)
      BY ZenonT(60), <3>4, <3>5 DEF SentByElected
    <3> QED
      BY ZenonT(60), <3>6 DEF req
  <2> DEFINE rd == [term |-> currentTerm[n],
                    jobs |-> {AppendRequestFor(n, p) : p \in Peers(n)},
                    ok |-> 0, reply |-> {}]
  <2>3. round' = [round EXCEPT ![n][s] = rd]
    BY ZenonT(60), <1>7 DEF StartRound
  <2>4. \A req \in rd.jobs : SentByElected(req)
    BY ZenonT(60), <2>2
  <2> HIDE DEF rd
  <2>5. \A m \in Server, u \in Sender : \A req \in round'[m][u].jobs :
          req \in round[m][u].jobs \/ SentByElected(req)
    BY ZenonT(60), <2>3, <2>4 DEF TypeOK
  <2> QED
    BY ZenonT(60), <2>1, <2>5, NodeUnchangedInv, CallsInvNext
<1>8. ASSUME NEW n \in Server, NEW s \in Sender, NEW r, NextJob(n, s, r)
      PROVE  \A m \in Server, u \in Sender : round'[m][u].jobs \subseteq round[m][u].jobs
  <2> DEFINE old == round[n][s]
             new == [old EXCEPT !.jobs = {q \in @ : q.to # r.from},
                                !.ok = IF r.success THEN @ + 1 ELSE @, !.reply = {}]
  <2>1. old \in Round
    BY ZenonT(60) DEF TypeOK
  <2>2. round' = [round EXCEPT ![n][s] = new]
    BY ZenonT(60), <1>8 DEF NextJob, TypeOK
  <2>3. new.jobs \subseteq old.jobs
    <3> HIDE DEF old
    <3> QED
      BY ZenonT(60), <2>1 DEF Round
  <2> HIDE DEF new
  <2> QED
    BY ZenonT(60), <2>2, <2>3 DEF TypeOK
<1>9. ASSUME NEW n \in Server, NEW s \in Sender, AppendReplied(n, s)
      PROVE  NodeInv' /\ CallsInv'
  <2>1. PICK r \in round[n][s].reply :
          ProcessAppendEntriesResponse(n, r, round[n][s].term) /\ NextJob(n, s, r)
    BY ZenonT(60), <1>9 DEF AppendReplied
  <2>2. r \in AppendResponse
    BY DEF TypeOK, Round
  <2>3. UNCHANGED <<log, elec, late, granted, elected>>
    BY ZenonT(60), <1>9 DEF AppendReplied, historyVars
  <2>4. NodeInv'
    BY ZenonT(60), <2>1, <2>2, <2>3, ProcessAppendInv
  <2>5. \A m \in Server, u \in Sender : round'[m][u].jobs \subseteq round[m][u].jobs
    BY ZenonT(60), <1>8, <2>1
  <2> QED
    BY ZenonT(60), <2>3, <2>4, <2>5, CallsInvNext
<1>10. ASSUME NEW n \in Server, NEW s \in Sender, EndRound(n, s)
       PROVE  NodeInv' /\ CallsInv'
  <2>1. UNCHANGED <<log, elec, late, granted, elected>>
    BY ZenonT(60), <1>10 DEF EndRound, historyVars
  <2>2. NodeInv'
    <3>1. CASE UNCHANGED <<currentTerm, votedFor, role>>
      BY ZenonT(60), <2>1, <3>1, NodeUnchangedInv
    <3>2. CASE role[n] = "leader" /\ BecomeFollower(n, currentTerm[n])
      <4>1. PICK t \in Nat : t = currentTerm[n]
        BY ZenonT(60) DEF TypeOK
      <4>2. t >= currentTerm[n] /\ BecomeFollower(n, t)
        BY <3>2, <4>1
      <4> QED
        BY ZenonT(60), <2>1, <3>2, <4>2, BecomeFollowerInv
    <3> QED
      BY ZenonT(60), <1>10, <3>1, <3>2 DEF EndRound
  <2>3. \A m \in Server, u \in Sender : round'[m][u].jobs \subseteq round[m][u].jobs
    BY ZenonT(60), <1>10 DEF EndRound, TypeOK, NoRound
  <2> QED
    BY ZenonT(60), <2>1, <2>2, <2>3, CallsInvNext
<1>11. ASSUME NEW n \in Server, NEW s \in Sender, NEW req \in round[n][s].jobs,
              AskAppend(n, s, req)
       PROVE  NodeInv' /\ CallsInv'
  <2>1. NodeInv' /\ granted' = granted /\ elected' = elected
    BY ZenonT(60), <1>11, <1>b, HandleAppendEntriesInv DEF AskAppend
  <2> DEFINE old == round[n][s]
             new == [old EXCEPT !.reply = {AppendReply(req.to, req)}]
  <2>2. round' = [round EXCEPT ![n][s] = new]
    BY ZenonT(60), <1>11 DEF AskAppend, TypeOK
  <2>3. new.jobs \subseteq old.jobs
    <3>1. old \in Round
      BY ZenonT(60) DEF TypeOK
    <3> HIDE DEF old
    <3> QED
      BY ZenonT(60), <3>1 DEF Round
  <2> HIDE DEF new
  <2>4. \A m \in Server, u \in Sender : round'[m][u].jobs \subseteq round[m][u].jobs
    BY ZenonT(60), <2>2, <2>3 DEF TypeOK
  <2>5. UNCHANGED <<elec, late>>
    BY ZenonT(60), <1>11 DEF AskAppend, HandleAppendEntries
  <2> QED
    BY ZenonT(60), <2>1, <2>4, <2>5, CallsInvNext
<1>12. ASSUME NEW n \in Server, NEW s \in Sender, NEW req \in round[n][s].jobs,
              AppendFailed(n, s, req)
       PROVE  NodeInv' /\ CallsInv'
  <2> DEFINE r == [from |-> req.to, term |-> 0, success |-> FALSE, match |-> 0]
  <2>1. r \in AppendResponse
    BY ZenonT(60), <1>b DEF AppendResponse
  <2>2. ProcessAppendEntriesResponse(n, r, round[n][s].term) /\ NextJob(n, s, r)
    BY ZenonT(60), <1>12 DEF AppendFailed
  <2>3. UNCHANGED <<log, elec, granted, elected>>
    BY ZenonT(60), <1>12 DEF AppendFailed, historyVars
  <2>4. late' \subseteq late \cup {req}
    <3>1. GiveUp(req) \/ late' = late
      BY ZenonT(60), <1>12 DEF AppendFailed
    <3> QED
      BY ZenonT(60), <3>1 DEF GiveUp
  <2> HIDE DEF r
  <2>5. NodeInv'
    BY ZenonT(60), <2>1, <2>2, <2>3, ProcessAppendInv
  <2>6. \A m \in Server, u \in Sender : round'[m][u].jobs \subseteq round[m][u].jobs
    BY ZenonT(60), <1>8, <2>2
  <2>7. SentByElected(req) /\ req.type = "append"
    BY ZenonT(60), <1>b DEF AppendRequest
  <2> QED
    BY ZenonT(60), <2>3, <2>4, <2>5, <2>6, <2>7, CallsInvNext
<1>13. ASSUME NEW n \in Server, NEW s \in Sender, NEW req \in round[n][s].jobs,
              DuplicateAppend(n, s, req)
       PROVE  NodeInv' /\ CallsInv'
  <2>1. /\ UNCHANGED <<currentTerm, votedFor, log, role, elec, round, granted, elected>>
        /\ late' = late \cup {req}
    BY ZenonT(60), <1>13 DEF DuplicateAppend, persistVars, callVars, historyVars
  <2>2. SentByElected(req) /\ req.type = "append"
    BY ZenonT(60), <1>b DEF AppendRequest
  <2> QED
    BY ZenonT(60), <2>1, <2>2, NodeUnchangedInv, CallsInvNext
<1>14. ASSUME NEW req \in late, LateArrives(req) PROVE NodeInv' /\ CallsInv'
  <2>1. late' \subseteq late /\ round' = round
    BY ZenonT(60), <1>14 DEF LateArrives
  <2>2. CASE req.type = "vote" /\ HandleRequestVote(req.to, req) /\ UNCHANGED elec
    <3>1. req \in VoteRequest /\ req.to \in Server /\ req.llt < req.term
      BY ZenonT(60), <2>2, CallsInvParts DEF TypeOK, VoteRequest, AppendRequest
    <3>2. NodeInv' /\ granted \subseteq granted' /\ elected' = elected
      BY ZenonT(60), <2>2, <3>1, HandleRequestVoteInv DEF HandleRequestVote
    <3> QED
      BY ZenonT(60), <2>1, <2>2, <3>2, CallsInvNext
  <2>3. CASE req.type = "append" /\ HandleAppendEntries(req.to, req)
    <3>1. req \in AppendRequest /\ req.to \in Server /\ SentByElected(req)
      BY ZenonT(60), <2>3, CallsInvParts DEF TypeOK, VoteRequest, AppendRequest
    <3>2. NodeInv' /\ granted' = granted /\ elected' = elected /\ elec' = elec
      BY ZenonT(60), <2>3, <3>1, HandleAppendEntriesInv DEF HandleAppendEntries
    <3> QED
      BY ZenonT(60), <2>1, <3>2, CallsInvNext
  <2> QED
    BY ZenonT(60), <1>14, <2>2, <2>3 DEF LateArrives
<1>15. ASSUME NEW n \in Server, Restart(n) PROVE NodeInv' /\ CallsInv'
  <2>1. UNCHANGED <<currentTerm, votedFor, log, late, granted, elected>>
    BY ZenonT(60), <1>15 DEF Restart, persistVars, historyVars
  <2>2. \A m \in Server : role'[m] = "leader" => role[m] = "leader"
    BY ZenonT(60), <1>15 DEF Restart, TypeOK
  <2>3. VotesAreRemembered' /\ OneVotePerTerm' /\ ElectedByMajority'
    BY ZenonT(60), <2>1 DEF NodeInv, VotesAreRemembered, OneVotePerTerm, ElectedByMajority
  <2>4. LeaderIsElected' /\ EntriesAreNotAhead'
    BY ZenonT(60), <2>1, <2>2 DEF NodeInv, LeaderIsElected, EntriesAreNotAhead
  <2>5. ElectedHasEntry'
    BY ZenonT(60), <2>1 DEF NodeInv, ElectedHasEntry, LastTerm, TermAt
  <2>6. \A m \in Server : elec'[m] = elec[m] \/ ElectionOK(m, elec'[m], granted')
    BY ZenonT(60), <1>15 DEF Restart, TypeOK, ElectionOK, NoElection
  <2>7. \A m \in Server, u \in Sender : round'[m][u].jobs \subseteq round[m][u].jobs
    BY ZenonT(60), <1>15 DEF Restart, TypeOK, NoRound
  <2>8. CallsInv'
    BY ZenonT(60), <2>1, <2>6, <2>7, CallsInvNext
  <2> QED
    BY ZenonT(60), <2>3, <2>4, <2>5, <2>8 DEF NodeInv
<1>16. ASSUME NEW n \in Server, NEW v \in Value, Propose(n, v)
       PROVE  NodeInv' /\ CallsInv'
  <2>1. UNCHANGED <<currentTerm, votedFor, role, elec, round, late, granted, elected>>
    BY ZenonT(60), <1>16 DEF Propose, persistVars, callVars, historyVars
  <2> DEFINE entry == [term |-> currentTerm[n], val |-> v]
  <2>2. log' = [log EXCEPT ![n] = Append(@, entry)]
    BY ZenonT(60), <1>16 DEF Propose
  <2>3. log[n] \in Seq(Entry) /\ entry \in Entry /\ entry.term = currentTerm[n]
    BY ZenonT(60) DEF TypeOK, Entry
  <2> HIDE DEF entry
  <2>4. /\ log'[n] = Append(log[n], entry)
        /\ \A m \in Server \ {n} : log'[m] = log[m]
    BY ZenonT(60), <2>2 DEF TypeOK
  <2>5. /\ Len(log'[n]) = Len(log[n]) + 1 /\ log'[n][Len(log[n]) + 1] = entry
        /\ \A i \in 1..Len(log[n]) : log'[n][i] = log[n][i]
    BY <2>3, <2>4
  <2>6. LastTerm(log'[n]) = currentTerm[n]
    BY <2>3, <2>5 DEF LastTerm, TermAt
  <2>7. \A i \in 1..Len(log'[n]) : log'[n][i].term <= currentTerm[n]
    <3> SUFFICES ASSUME NEW i \in 1..Len(log'[n]) PROVE log'[n][i].term <= currentTerm[n]
      BY ZenonT(60)
    <3>1. i \in 1..Len(log[n]) \/ i = Len(log[n]) + 1
      BY <2>3, <2>5
    <3>2. \A j \in 1..Len(log[n]) : log[n][j].term <= currentTerm[n]
      BY ZenonT(60) DEF NodeInv, EntriesAreNotAhead
    <3>3. currentTerm[n] <= currentTerm[n]
      BY DEF TypeOK
    <3> QED
      BY ZenonT(60), <2>3, <2>5, <3>1, <3>2, <3>3
  <2>8. PICK t \in Nat : t = currentTerm[n]
    BY ZenonT(60) DEF TypeOK
  <2>9. /\ currentTerm' = [currentTerm EXCEPT ![n] = t]
        /\ t >= currentTerm[n]
        /\ LastTerm(log'[n]) = t
        /\ \A i \in 1..Len(log'[n]) : log'[n][i].term <= t
        /\ role'[n] = role[n] /\ votedFor'[n] = votedFor[n]
    BY <2>1, <2>6, <2>7, <2>8 DEF TypeOK
  <2>10. NodeMoves(n, t)
    BY ZenonT(60), <2>1, <2>4, <2>8, <2>9 DEF NodeMoves
  <2>11. NodeInv'
    BY ZenonT(60), <2>10, NodeMovesInv
  <2> QED
    BY ZenonT(60), <2>1, <2>11, CallsInvNext
<1>17. CASE UNCHANGED vars
  BY ZenonT(60), <1>17, <1>c DEF vars
<1> QED
  BY ZenonT(60), <1>1, <1>2, <1>3, <1>4, <1>5, <1>6, <1>7, <1>9, <1>10, <1>11, <1>12, <1>13,
     <1>14, <1>15, <1>16, <1>17 DEF Next, GroupStep

LEMMA ElectionInit ==
  ASSUME Init
  PROVE  TypeOK /\ NodeInv /\ CallsInv
<1>1. TypeOK
  BY NoCallType DEF Init, TypeOK, Bounded
<1>2. VotesAreRemembered /\ OneVotePerTerm /\ ElectedByMajority /\ ElectedHasEntry
  BY ZenonT(60) DEF Init, VotesAreRemembered, OneVotePerTerm, ElectedByMajority, ElectedHasEntry
<1>3. LeaderIsElected /\ EntriesAreNotAhead
  BY DEF Init, LeaderIsElected, EntriesAreNotAhead
<1>4. CountedVotesAreGranted /\ CandidateLogIsOlder /\ AppendsAreSentByElected
  BY ZenonT(60) DEF Init, CountedVotesAreGranted, CandidateLogIsOlder, AppendsAreSentByElected,
         NoElection, NoRound
<1> QED
  BY ZenonT(60), <1>1, <1>2, <1>3, <1>4 DEF NodeInv, CallsInv

\* At most one node is ever elected leader in a term, for any number of servers,
\* of lost, repeated and late calls and of restarts.
THEOREM ElectionIsSafe == Spec => []ElectionSafety
<1>1. Init => TypeOK /\ NodeInv /\ CallsInv
  BY ZenonT(60), ElectionInit
<1>2. TypeOK /\ NodeInv /\ CallsInv /\ [Next]_vars => (TypeOK /\ NodeInv /\ CallsInv)'
  BY ZenonT(60), TypeInductive, ElectionInductive
<1>3. TypeOK /\ NodeInv => ElectionSafety
  BY ZenonT(60), ElectedIsUnique DEF NodeInv
<1> QED
  BY <1>1, <1>2, <1>3, PTL DEF Spec

-----------------------------------------------------------------------------
(* The facts about logs that RaftLogProofs shows to be inductive *)

\* The logs and the requests that are still to be handled.
Pieces ==
  {LogPiece(log[n]) : n \in Server}
    \cup {req \in AppendRequest :
            req \in late \/ \E n \in Server, s \in Sender : req \in round[n][s].jobs}

\* Every entry was made by a leader of its term.
Electors(a, who) == \A k \in Nat : Covers(a, k) => \E m \in Server : <<EntryAt(a, k).term, m>> \in who

LogInv ==
  /\ \A a, b \in Pieces : Match(a, b)
  /\ \A a \in Pieces : Electors(a, elected) /\ (a.prev = 0 => a.prevTerm = 0)
  /\ \A n \in Server : role[n] = "leader" =>
       \A a \in Pieces : Within(a, currentTerm[n], Len(log[n]))
  /\ \A n \in Server : role[n] = "candidate" => <<currentTerm[n], n>> \notin elected

LEMMA PiecesHave ==
  ASSUME TypeOK
  PROVE  /\ \A n \in Server : LogPiece(log[n]) \in Pieces
         /\ \A n \in Server, s \in Sender : round[n][s].jobs \subseteq Pieces
         /\ \A req \in late : req.type = "append" => req \in Pieces
<1>1. ASSUME NEW n \in Server, NEW s \in Sender, NEW req \in round[n][s].jobs
      PROVE  req \in Pieces
  <2>1. round[n][s] \in Round
    BY ZenonT(60) DEF TypeOK
  <2>2. req \in AppendRequest
    BY ZenonT(60), <2>1 DEF Round
  <2> QED
    BY ZenonT(60), <2>2 DEF Pieces
<1>2. ASSUME NEW req \in late, req.type = "append" PROVE req \in Pieces
  <2>1. req \in AppendRequest
    BY ZenonT(60), <1>2 DEF TypeOK, VoteRequest
  <2> QED
    BY ZenonT(60), <2>1 DEF Pieces
<1>3. \A n \in Server : LogPiece(log[n]) \in Pieces
  BY ZenonT(60) DEF Pieces
<1> QED
  BY ZenonT(60), <1>1, <1>2, <1>3

LEMMA PiecesNext ==
  ASSUME NEW New,
         \A n \in Server : LogPiece(log'[n]) \in Pieces \cup New,
         \A n \in Server, s \in Sender : \A req \in round'[n][s].jobs : req \in Pieces \cup New,
         \A req \in late' : req \in AppendRequest => req \in Pieces \cup New
  PROVE  Pieces' \subseteq Pieces \cup New
<1> SUFFICES ASSUME NEW a \in Pieces' PROVE a \in Pieces \cup New
  BY ZenonT(60)
<1>1. \/ \E n \in Server : a = LogPiece(log'[n])
      \/ a \in AppendRequest /\ a \in late'
      \/ \E n \in Server, s \in Sender : a \in round'[n][s].jobs
  BY ZenonT(60) DEF Pieces
<1> QED
  BY ZenonT(60), <1>1

LEMMA PiecesType ==
  ASSUME TypeOK, NEW a \in Pieces
  PROVE  IsPiece(a)
<1>1. CASE \E n \in Server : a = LogPiece(log[n])
  BY ZenonT(60), <1>1, LogPieceFacts DEF TypeOK
<1>2. CASE a \in AppendRequest
  BY ZenonT(60), <1>2 DEF AppendRequest, IsPiece
<1> QED
  BY ZenonT(60), <1>1, <1>2 DEF Pieces

\* What may be new: pieces that fit in with all the others.
Fits(c, New) ==
  /\ Electors(c, elected')
  /\ c.prev = 0 => c.prevTerm = 0
  /\ \A b \in Pieces \cup New : Match(c, b)

LEMMA LogInvGrows ==
  ASSUME LogInv, NEW New, Pieces' \subseteq Pieces \cup New, elected \subseteq elected',
         \A c \in New : Fits(c, New),
         \A n \in Server : role'[n] = "leader" =>
           \A a \in Pieces \cup New : Within(a, currentTerm'[n], Len(log'[n])),
         \A n \in Server : role'[n] = "candidate" => <<currentTerm'[n], n>> \notin elected'
  PROVE  LogInv'
<1>1. ASSUME NEW a \in Pieces', NEW b \in Pieces' PROVE Match(a, b)
  <2>1. a \in Pieces \cup New /\ b \in Pieces \cup New
    BY ZenonT(60)
  <2>2. CASE a \in Pieces /\ b \in Pieces
    BY ZenonT(60), <2>2 DEF LogInv
  <2>3. CASE a \in New
    BY ZenonT(60), <2>1, <2>3 DEF Fits
  <2>4. CASE b \in New
    BY ZenonT(60), <2>1, <2>4, MatchSymmetric DEF Fits
  <2> QED
    BY ZenonT(60), <2>1, <2>2, <2>3, <2>4
<1>2. ASSUME NEW a \in Pieces' PROVE Electors(a, elected') /\ (a.prev = 0 => a.prevTerm = 0)
  <2>1. CASE a \in Pieces
    <3>1. Electors(a, elected) /\ (a.prev = 0 => a.prevTerm = 0)
      BY ZenonT(60), <2>1 DEF LogInv
    <3> QED
      BY ZenonT(60), <3>1 DEF Electors
  <2>2. CASE a \in New
    BY ZenonT(60), <2>2 DEF Fits
  <2> QED
    BY ZenonT(60), <2>1, <2>2
<1>3. \A n \in Server : role'[n] = "leader" =>
        \A a \in Pieces' : Within(a, currentTerm'[n], Len(log'[n]))
  BY ZenonT(60)
<1> QED
  BY ZenonT(60), <1>1, <1>2, <1>3 DEF LogInv

\* Nobody becomes a leader, and a leader's log stays as it is.
Quiet ==
  /\ elected' = elected
  /\ \A n \in Server :
       /\ role'[n] = "leader" =>
            role[n] = "leader" /\ currentTerm'[n] = currentTerm[n] /\ log'[n] = log[n]
       /\ role'[n] = "candidate" =>
            \/ role[n] = "candidate" /\ currentTerm'[n] = currentTerm[n]
            \/ currentTerm'[n] > currentTerm[n]

LEMMA QuietInv ==
  ASSUME TypeOK, TypeOK', NodeInv, LogInv, Quiet, NEW New, Pieces' \subseteq Pieces \cup New,
         \A c \in New : /\ Fits(c, New)
                        /\ \A n \in Server : role[n] = "leader" /\ role'[n] = "leader" =>
                             Within(c, currentTerm[n], Len(log[n]))
  PROVE  LogInv'
<1>1. \A n \in Server : role'[n] = "leader" =>
        \A a \in Pieces \cup New : Within(a, currentTerm'[n], Len(log'[n]))
  <2> SUFFICES ASSUME NEW n \in Server, role'[n] = "leader", NEW a \in Pieces \cup New
               PROVE  Within(a, currentTerm'[n], Len(log'[n]))
    BY ZenonT(60)
  <2>1. role[n] = "leader" /\ currentTerm'[n] = currentTerm[n] /\ log'[n] = log[n]
    BY ZenonT(60) DEF Quiet
  <2>2. Within(a, currentTerm[n], Len(log[n]))
    BY ZenonT(60), <2>1 DEF LogInv
  <2> QED
    BY ZenonT(60), <2>1, <2>2
<1>2. ASSUME NEW n \in Server, role'[n] = "candidate"
      PROVE  <<currentTerm'[n], n>> \notin elected'
  <2>1. CASE role[n] = "candidate" /\ currentTerm'[n] = currentTerm[n]
    BY ZenonT(60), <2>1 DEF LogInv, Quiet
  <2>2. CASE currentTerm'[n] > currentTerm[n]
    <3>1. currentTerm'[n] \in Nat /\ currentTerm[n] \in Nat
      BY ZenonT(60) DEF TypeOK
    <3>2. \A e \in elected : e[1] <= currentTerm[e[2]]
      BY ZenonT(60) DEF NodeInv, ElectedHasEntry
    <3>3. <<currentTerm'[n], n>> \in elected => currentTerm'[n] <= currentTerm[n]
      BY ZenonT(60), <3>2
    <3> QED
      BY <2>2, <3>1, <3>3 DEF Quiet
  <2> QED
    BY ZenonT(60), <1>2, <2>1, <2>2 DEF Quiet
<1>3. elected \subseteq elected'
  BY ZenonT(60) DEF Quiet
<1>4. \A c \in New : Fits(c, New)
  BY ZenonT(60)
<1> QED
  BY ZenonT(60), <1>1, <1>2, <1>3, <1>4, LogInvGrows
=============================================================================
