----------------------------- MODULE RaftStore -------------------------------
(***************************************************************************)
(* What a Raft node keeps on disk: the log file of raft/raft_log.cpp and   *)
(* the file with term and vote that PersistMeta and LoadMeta of            *)
(* raft/raft_node.cpp write and read.  RaftNode takes both for granted.    *)
(*                                                                         *)
(* The calls exclude each other (mu_), so only a crash comes between the   *)
(* steps of one: of the process, which loses what is in the stream's       *)
(* buffer, or of the machine, which loses what no fsync has covered.  Any  *)
(* write, flush, fsync, rename or opening of a file to write may fail; a   *)
(* file that exists can be read at the start.                              *)
(*                                                                         *)
(* The log file is a sequence of pieces, each the bytes of one entry or,   *)
(* `cut', the first of them.  There is no checksum.  An entry is told from *)
(* others by its index and term; `good' says that its payload is right.    *)
(* Of the node there are role, term and vote: a leader that steps down     *)
(* clears its vote, and whether it can vote again depends on its log.  The *)
(* rest of the group is what RaftNode has shown of it: a candidate's last  *)
(* entry is of an earlier term than its own, and a term has one leader.    *)
(* Abstraction: an fsync that succeeds covers what an earlier one that     *)
(* failed did not.  TruncateFrom, which only a test calls, is left out.    *)
(***************************************************************************)
EXTENDS Naturals, Sequences, FiniteSets, SequencesExt

CONSTANTS
  MaxTerm,    \* bound on terms
  MaxIndex,   \* bound on the length of the log
  MaxPieces,  \* bound on the pieces of the log file
  MaxFaults,  \* bound on crashes and operations that fail, together
  Node,       \* candidates
  Self,       \* this node
  NoVote,     \* voted_for_ without a value
  NoMeta      \* no meta file, or one that is too short

VARIABLES
  entries,       \* RaftLog::entries_
  disk,          \* the pieces written to path_
  flushed,       \* how many of them the operating system has
  durable,       \* how many of them an fsync has covered
  ofs,           \* RaftLog::ofs_: open, bad, closed
  older,         \* the file that path_ named before the last rename, in a set
  doing,         \* the rest of the call in progress
  promised,      \* entries the node has told others it has stored
  current_term,  \* RaftNode::current_term_
  voted_for,     \* RaftNode::voted_for_
  role,          \* RaftNode::role_
  meta,          \* the meta file
  cast,          \* votes the node has given, by term
  led,           \* terms the node was elected in
  unmarked,      \* those of them in which Append gave 0 for the NOOP
  harm,          \* what has gone wrong beyond repair
  faults         \* crashes and failed operations so far

fileVars == <<disk, flushed, durable, ofs, older>>
logFileVars == <<entries, fileVars, doing, promised, unmarked>>
metaVars == <<current_term, voted_for, meta, cast>>
leaderVars == <<role, led>>
storeVars == <<logFileVars, metaVars, leaderVars, harm, faults>>

StoreInit ==
  /\ entries = <<>> /\ disk = <<>> /\ flushed = 0 /\ durable = 0
  /\ ofs = "open" /\ older = {} /\ doing = <<>> /\ promised = {}
  /\ current_term = 0 /\ voted_for = NoVote
  /\ meta = NoMeta /\ cast = {}
  /\ role = "follower" /\ led = {} /\ unmarked = {}
  /\ harm = {} /\ faults = 0

Idle == doing = <<>>

\* The process or the machine dies, or an operation fails.
Fault == faults < MaxFaults /\ faults' = faults + 1

-----------------------------------------------------------------------------
(* Files *)

\* SerializeRaftEntry
Bytes(e) == [index |-> e.index, term |-> e.term, good |-> e.good, cut |-> FALSE]

EntryOf(p) == [index |-> p.index, term |-> p.term, good |-> p.good]

\* What is left of a file of which n pieces are safe: some of the others, and
\* perhaps a part of the next one.
Left(pieces, n) ==
  {SubSeq(pieces, 1, m) : m \in n .. Len(pieces)}
    \cup {Append(SubSeq(pieces, 1, m), [pieces[m + 1] EXCEPT !.cut = TRUE]) :
            m \in n .. Len(pieces) - 1}

\* The entries that stand in the file up to the first piece that is cut.
Whole(pieces) ==
  LET good == {n \in 0 .. Len(pieces) : \A i \in 1 .. n : ~pieces[i].cut}
      n == CHOOSE m \in good : \A k \in good : k <= m
  IN  [i \in 1 .. n |-> EntryOf(pieces[i])]

\* Something stands behind a piece that a crash or a failed write has cut, or was
\* read there and written again.
BehindTornEnd(pieces) ==
  \E i \in DOMAIN pieces : ~pieces[i].good \/ (pieces[i].cut /\ i < Len(pieces))

\* Load: a cut piece at the end is a short read and ends the loop.  Behind a cut
\* piece that others follow nothing is where it is looked for: the loop ends
\* there too, or it takes the next bytes for the missing ones.
Load(pieces) ==
  LET whole == Whole(pieces)
      n == Len(whole) + 1
  IN  {whole} \cup
        IF n >= Len(pieces) THEN {}
        ELSE {Append(whole, [index |-> pieces[n].index, term |-> pieces[n].term,
                             good |-> FALSE])}

-----------------------------------------------------------------------------
(* RaftLog *)

LastIndex == IF entries = <<>> THEN 0 ELSE Last(entries).index
LastTerm == IF entries = <<>> THEN 0 ELSE Last(entries).term

\* A write or a flush failed: part of the buffer has reached the file, and the
\* stream takes nothing more.
StreamFails(pieces) ==
  /\ disk' \in Left(pieces, flushed)
  /\ flushed' = Len(disk')
  /\ ofs' = "bad"
  /\ UNCHANGED <<durable, older>>

\* AppendEntryToFile, for some entries: the stream is opened if it is closed,
\* which may fail, and takes the first n of them.
AppendToFile(es, n) ==
  LET pieces == disk \o [i \in 1 .. n |-> Bytes(es[i])] IN
  \/ /\ es # <<>> /\ n = Len(es) /\ ofs # "bad"
     /\ disk' = pieces
     /\ ofs' = "open"
     /\ UNCHANGED <<flushed, durable, older, faults>>
  \/ /\ n < Len(es) /\ ofs # "bad"
     /\ Fault
     /\ StreamFails(Append(pieces, Bytes(es[n + 1])))
  \/ /\ es # <<>> /\ n = 0 /\ ofs = "closed"
     /\ Fault
     /\ UNCHANGED fileVars
  \/ /\ es = <<>> \/ (n = 0 /\ ofs = "bad")
     /\ UNCHANGED <<fileVars, faults>>

\* Append by a leader: nothing is kept if the write fails, and the sync follows
\* if it succeeds.  `what' tells its NOOP from a proposal.
AppendEntry(what) ==
  LET e == [index |-> LastIndex + 1, term |-> current_term, good |-> TRUE] IN
  /\ Idle /\ LastIndex < MaxIndex /\ Len(disk) < MaxPieces
  /\ \/ /\ AppendToFile(<<e>>, 1)
        /\ entries' = Append(entries, e)
        /\ doing' = <<what, {e}>>
        /\ UNCHANGED unmarked
     \/ /\ AppendToFile(<<e>>, 0)
        /\ unmarked' = IF what = "noop" THEN unmarked \cup {current_term} ELSE unmarked
        /\ UNCHANGED <<entries, doing>>
  /\ UNCHANGED <<promised, metaVars, harm>>

\* The entries of the request that do not agree with the log, and what is
\* behind them.
Conflict(es) ==
  {i \in DOMAIN es : \E j \in DOMAIN entries :
     entries[j].index = es[i].index /\ entries[j].term # es[i].term}

\* Fault: a conflict is resolved in memory, and new entries go to the old file.
AppendEntries_KeepsTail(es) ==
  /\ Idle /\ Len(disk) + Len(es) <= MaxPieces
  /\ LET from == IF Conflict(es) = {} THEN LastIndex + 1
                 ELSE es[CHOOSE i \in Conflict(es) : \A j \in Conflict(es) : i <= j].index
         kept == SelectSeq(entries, LAMBDA e : e.index < from)
         fresh == SelectSeq(es, LAMBDA e : e.index >= from)
     IN  /\ AppendToFile(fresh, Len(fresh))
         /\ entries' = kept \o fresh
         /\ promised' = {e \in promised : e.index < from}
  /\ doing' = <<"sync", ToSet(es)>>
  /\ UNCHANGED <<unmarked, metaVars, harm>>

\* AppendEntries on a follower: entries it has are passed over; the first that
\* contradicts the log replaces the rest of it, and the file is rewritten; new
\* ones go to the file and into memory until a write fails.
AppendEntries(es) ==
  /\ Idle /\ Len(disk) + Len(es) <= MaxPieces
  /\ IF Conflict(es) # {}
       THEN LET i == CHOOSE k \in Conflict(es) : \A j \in Conflict(es) : k <= j
                kept == SelectSeq(entries, LAMBDA e : e.index < es[i].index)
            IN  /\ entries' = kept \o SubSeq(es, i, Len(es))
                /\ promised' = {e \in promised : e.index < es[i].index}
                /\ doing' = <<"rewrite", ToSet(es)>>
                /\ UNCHANGED <<fileVars, faults>>
       ELSE LET fresh == SelectSeq(es, LAMBDA e : e.index > LastIndex) IN
            \E n \in 0 .. Len(fresh) :
              /\ AppendToFile(fresh, n)
              /\ entries' = entries \o SubSeq(fresh, 1, n)
              /\ doing' = <<"sync", ToSet(es)>>
              /\ UNCHANGED promised
  /\ UNCHANGED <<unmarked, metaVars, harm>>

\* The call is over.  Append answers 0 after a failure, which BecomeLeaderLocked
\* passes over for its NOOP; HandleAppendEntries reports the entries as matched all
\* the same, which `promised' leaves out.
Done(ok) ==
  /\ promised' = IF ok THEN promised \cup doing[2] ELSE promised
  /\ unmarked' = IF ~ok /\ doing[1] = "noop" THEN unmarked \cup {current_term} ELSE unmarked
  /\ doing' = <<>>
  /\ UNCHANGED <<entries, metaVars, leaderVars>>

\* SyncFileLocked: flush and fsync; on a closed or bad stream it fails at once.
SyncFileLocked ==
  /\ ~Idle /\ doing[1] # "rewrite"
  /\ \/ /\ ofs = "open"
        /\ flushed' = Len(disk) /\ durable' = Len(disk)
        /\ Done(TRUE)
        /\ UNCHANGED <<disk, ofs, older, faults>>
     \/ /\ ofs = "open" /\ Fault
        /\ flushed' = Len(disk)
        /\ Done(FALSE)
        /\ UNCHANGED <<disk, durable, ofs, older>>
     \/ /\ ofs = "open" /\ Fault
        /\ StreamFails(disk)
        /\ Done(FALSE)
     \/ /\ ofs # "open"
        /\ Done(FALSE)
        /\ UNCHANGED <<fileVars, faults>>
  /\ UNCHANGED harm

\* Fault: the new file is renamed without an fsync.
RewriteFileFromMemory_NoSync ==
  /\ ~Idle /\ doing[1] = "rewrite"
  /\ older' = {SubSeq(disk, 1, durable)}
  /\ disk' = [i \in DOMAIN entries |-> Bytes(entries[i])]
  /\ flushed' = Len(entries) /\ durable' = 0
  /\ ofs' = "open"
  /\ Done(TRUE)
  /\ UNCHANGED <<harm, faults>>

\* RewriteFileFromMemory: the entries go to another file, which is synced and
\* renamed.  The results of its flush, close and fsync are not looked at: the file
\* may be short or not synced, and takes the place of the old one all the same.
\* When it cannot be opened or a write fails the old file stays; when it cannot be
\* renamed the old one is gone too.  The new file may fail to open for appending.
RewriteFileFromMemory ==
  LET pieces == [i \in DOMAIN entries |-> Bytes(entries[i])] IN
  /\ ~Idle /\ doing[1] = "rewrite"
  /\ \/ /\ older' = {SubSeq(disk, 1, durable)}
        /\ \/ /\ disk' = pieces /\ durable' = Len(pieces)
              /\ \/ ofs' = "open" /\ UNCHANGED faults
                 \/ ofs' = "closed" /\ Fault
              /\ Done(TRUE)
              /\ UNCHANGED harm
           \/ /\ Fault
              /\ \/ disk' = pieces /\ durable' = 0
                 \/ disk' \in Left(pieces, 0) \ {pieces} /\ durable' = Len(disk')
              /\ ofs' = "open"
              /\ Done(FALSE)
              /\ harm' = harm \cup {IF disk' = pieces THEN "rewrite not synced"
                                                     ELSE "rewrite short"}
        /\ flushed' = Len(disk')
     \/ /\ Fault
        /\ \/ UNCHANGED <<disk, flushed, durable>>
           \/ disk' = <<>> /\ flushed' = 0 /\ durable' = 0
        /\ ofs' = "closed"
        /\ harm' = harm \cup {"rewrite failed"}
        /\ Done(FALSE)
        /\ UNCHANGED older

-----------------------------------------------------------------------------
(* Term and vote *)

\* PersistMeta: another file is written and renamed, and nothing is synced.  If
\* it fails, which nobody notices, the old file stays or is gone.
PersistMeta(term, vote) ==
  /\ current_term' = term /\ voted_for' = vote
  /\ \/ /\ meta' = [term |-> term, vote |-> vote]
        /\ UNCHANGED <<harm, faults>>
     \/ /\ Fault
        /\ meta' \in {meta, NoMeta}
        /\ harm' = harm \cup {"meta lost"}

\* BecomeFollower, when a higher term is seen, and with the current one by a
\* leader that has lost its quorum: the vote is cleared on disk either way.
BecomeFollower(term) ==
  /\ Idle
  /\ term > current_term \/ (term = current_term /\ role = "leader")
  /\ PersistMeta(term, NoVote)
  /\ role' = "follower"
  /\ UNCHANGED <<logFileVars, cast, led>>

BecomeCandidate ==
  /\ Idle /\ role # "leader" /\ current_term < MaxTerm
  /\ PersistMeta(current_term + 1, Self)
  /\ role' = "candidate"
  /\ cast' = cast \cup {<<current_term + 1, Self>>}
  /\ UNCHANGED <<logFileVars, led>>

\* Fault: a new leader appends nothing.
BecomeLeader_NoNoop ==
  /\ Idle /\ role = "candidate"
  /\ role' = "leader" /\ led' = led \cup {current_term}
  /\ UNCHANGED <<logFileVars, metaVars, harm, faults>>

\* BecomeLeaderLocked, with the votes of a majority.
BecomeLeader ==
  /\ role = "candidate"
  /\ role' = "leader" /\ led' = led \cup {current_term}
  /\ AppendEntry("noop")

Propose == role = "leader" /\ AppendEntry("proposal") /\ UNCHANGED leaderVars

\* HandleRequestVote, when it grants the vote.  The candidate's log, which ends in
\* an entry of an earlier term, is up to date only if this one does too.
GrantVote(c) ==
  /\ Idle /\ voted_for \in {NoVote, c}
  /\ LastTerm < current_term
  /\ PersistMeta(current_term, c)
  /\ cast' = cast \cup {<<current_term, c>>}
  /\ UNCHANGED <<logFileVars, leaderVars>>

\* The terms of a log do not decrease.  What a leader sends are some entries of
\* its log, from an index on up to which the logs agree.
Follows(term, index) ==
  \A i \in DOMAIN entries : entries[i].index < index => entries[i].term <= term

Request ==
  UNION {{es \in [1 .. n -> [index : 1 .. MaxIndex, term : 1 .. MaxTerm, good : {TRUE}]] :
            \A i \in 2 .. n : es[i].index = es[i - 1].index + 1 /\ es[i].term >= es[i - 1].term} :
         n \in 1 .. 2}

\* HandleAppendEntries, with entries that follow an entry of the log.  A request
\* of a higher term is a BecomeFollower first.  The term has no other leader if
\* this node was elected in it and is marked by its NOOP.
HandleAppendEntries(es) ==
  /\ Last(es).term <= current_term
  /\ current_term \notin led \ unmarked
  /\ es[1].index <= LastIndex + 1 /\ Follows(es[1].term, es[1].index)
  /\ role' = "follower"
  /\ AppendEntries(es)
  /\ UNCHANGED led

-----------------------------------------------------------------------------
(* Crash and restart *)

\* LoadMeta: a file that is missing or too short leaves term 0 and no vote.
LoadMeta(m) ==
  /\ current_term' = IF m = NoMeta THEN 0 ELSE m.term
  /\ voted_for' = IF m = NoMeta THEN NoVote ELSE m.vote

\* The constructors read both files.  The log is opened for appending behind
\* whatever it ends with.
Reload(pieces, m) ==
  /\ disk' = pieces
  /\ flushed' = Len(pieces)
  /\ entries' \in Load(pieces)
  /\ Fault
  /\ ofs' \in {"open", "closed"}
  /\ doing' = <<>>
  /\ meta' = m
  /\ LoadMeta(m)
  /\ role' = "follower"
  /\ UNCHANGED <<promised, unmarked, cast, led>>

\* What a crash may add to harm.
Harm(is, h) == IF is THEN {h} ELSE {}

ProcessDies ==
  /\ \E pieces \in Left(disk, flushed) :
       /\ Reload(pieces, meta)
       /\ durable' = IF durable < Len(pieces) THEN durable ELSE Len(pieces)
       /\ harm' = harm \cup Harm(BehindTornEnd(pieces), "torn end")
  /\ UNCHANGED older

\* The rename of either file may be undone, and a file that was renamed but not
\* synced may be empty: the directory and the meta file are never synced.  A still
\* older log file is not told from the last one, nor an older meta file from an
\* empty one, as no behaviour goes on from there.
MachineDies ==
  /\ \E pieces \in Left(disk, durable) \cup older, m \in {meta, NoMeta} :
       /\ Reload(pieces, m)
       /\ durable' = Len(pieces)
       /\ harm' = harm \cup Harm(BehindTornEnd(pieces), "torn end")
                       \cup Harm(pieces \notin Left(disk, durable), "rename undone")
                       \cup Harm(m # meta, "meta lost")
  /\ older' = {}

-----------------------------------------------------------------------------
\* A node is not followed any further once something has gone wrong beyond repair.
StoreStep ==
  /\ harm = {}
  /\ \/ SyncFileLocked \/ RewriteFileFromMemory
     \/ BecomeCandidate \/ BecomeLeader \/ Propose
     \/ \E term \in 1 .. MaxTerm : BecomeFollower(term)
     \/ \E c \in Node \ {Self} : GrantVote(c)
     \/ \E es \in Request : HandleAppendEntries(es)
     \/ ProcessDies \/ MachineDies

-----------------------------------------------------------------------------
(* Properties *)

\* What the node has told others survives every crash: an entry that Append gave
\* an index for, or that AppendEntries took over without a failure, is covered
\* by an fsync until a leader replaces it; and no two candidates get its vote of
\* one term, although a leader that steps down clears its vote of the term.
\* Cases in which the code does not ensure that: the log goes on behind a torn
\* end, a rewrite failed, was short or was not synced, a crash undid a rename (the
\* directory is not synced), the meta file was not written or not synced; and the
\* NOOP of a term the node led was not stored, which BecomeLeaderLocked ignores.
PromisesSurvive ==
  /\ ~BehindTornEnd(disk) /\ harm \subseteq {"meta lost"} =>
       \A e \in promised : \E i \in 1 .. durable : disk[i] = Bytes(e)
  /\ "meta lost" \notin harm =>
       \A v, w \in cast : v[1] = w[1] => v = w \/ v[1] \in unmarked

\* Between two calls the file says what the memory says: whatever failed before
\* and after every rewrite that did not fail, Load would read the entries in memory,
\* and the entry with index i stands at place i.  Once a write has failed the
\* stream takes nothing more and one of the two may be longer, but they do not
\* contradict each other.  A rewrite may fail unnoticed, and leave a short file.
FileIsLog ==
  Idle /\ ~BehindTornEnd(disk) /\ harm \cap {"rewrite failed", "rewrite short"} = {} =>
    /\ ofs # "bad" => Whole(disk) = entries
    /\ IsPrefix(Whole(disk), entries) \/ IsPrefix(entries, Whole(disk))
    /\ \A i \in DOMAIN entries : entries[i].index = i
=============================================================================
