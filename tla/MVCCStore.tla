------------------------------ MODULE MVCCStore ------------------------------
(***************************************************************************)
(* The multi-version store: storage/key_encoding.cpp, mvcc_store.cpp and   *)
(* mvcc_iterator.cpp over the ordered map that RocksDB is.                 *)
(*                                                                         *)
(* A database `db' is a function from encoded keys to values.  An encoded  *)
(* key is the table, the bytes of the primary key and the inverted write   *)
(* timestamp, with nothing between them.  What matters of it is how it is  *)
(* ordered, so the eight timestamp bytes are one symbol: timestamps are    *)
(* small (the oracle counts from 1), so the first byte of ~ts is FF, above *)
(* every byte of a printable key, and the rest orders later versions       *)
(* first; the eight 00 bytes that ~UINT64_MAX gives are the symbol 0.      *)
(***************************************************************************)
EXTENDS Integers, Sequences, FiniteSets, SequencesExt

CONSTANTS
  Base,    \* number of digits; the bytes of a key are 1 ('-') and 2..Base + 1
  MaxTs,   \* write timestamps are 1..MaxTs
  Tombstone,  \* the one-byte value that marks a deletion
  NotFound    \* Status::NotFound

ASSUME BaseAssumption == Base \in Nat \ {0, 1}
ASSUME MaxTsAssumption == MaxTs \in Nat

\* The order of std::string::compare and of RocksDB's comparator: a string
\* comes before its extensions.
Before(a, b) ==
  \E n \in 0 .. Len(a) :
    /\ n <= Len(b)
    /\ \A i \in 1 .. n : a[i] = b[i]
    /\ \/ n = Len(a) /\ n < Len(b)
       \/ n < Len(a) /\ n < Len(b) /\ a[n + 1] < b[n + 1]

-----------------------------------------------------------------------------
(* Keys *)

\* Fault: the timestamp is not inverted.
InvertTimestamp_Identity(ts) == Base + 2 + ts

InvertTimestamp(ts) == Base + 2 + (MaxTs - ts)

EncodeKey(table, pk, ts) == <<table>> \o pk \o <<InvertTimestamp(ts)>>

EncodeKeyPrefixNewest(table, pk) == <<table>> \o pk \o <<0>>

\* The inversion is undone when a key is read.
TimestampOf ==
  [b \in {InvertTimestamp(ts) : ts \in 0 .. MaxTs} |->
     CHOOSE ts \in 0 .. MaxTs : InvertTimestamp(ts) = b]

\* DecodeKey
TableIn(e) == e[1]
KeyIn(e) == SubSeq(e, 2, Len(e) - 1)
TimestampIn(e) == TimestampOf[e[Len(e)]]

-----------------------------------------------------------------------------
(* Operations *)

Put(db, table, pk, ts, v) ==
  [e \in DOMAIN db \cup {EncodeKey(table, pk, ts)} |->
     IF e = EncodeKey(table, pk, ts) THEN v ELSE db[e]]

Delete(db, table, pk, ts) == Put(db, table, pk, ts, Tombstone)

\* What a RocksDB iterator passes over after Seek(start), in the order Before.
Seek(db, start) == {e \in DOMAIN db : ~Before(e, start)}

\* Get walks from the newest possible version of the key and gives up at the
\* first entry of another key; the first visible version on the way counts.
Get(db, table, pk, snapshot) ==
  LET it == Seek(db, EncodeKeyPrefixNewest(table, pk))
      Mine(e) == TableIn(e) = table /\ KeyIn(e) = pk
      hits == {e \in it : /\ Mine(e) /\ TimestampIn(e) <= snapshot
                          /\ \A d \in it : Before(d, e) => Mine(d)}
      hit == CHOOSE e \in hits : \A d \in hits : ~Before(d, e)
  IN  IF hits = {} \/ db[hit] = Tombstone THEN NotFound ELSE db[hit]

\* MVCCIterator: from the newest possible version of `start', stop at the first
\* entry of another table or at or behind `end'; of each key on the way that
\* is not before `start' the first visible version counts, unless it is a
\* tombstone.
Scan(db, table, start, end, open_end, snapshot) ==
  LET it == Seek(db, EncodeKeyPrefixNewest(table, start))
      Stops(e) == \/ TableIn(e) # table
                  \/ ~open_end /\ ~Before(KeyIn(e), end)
      Visible(e) == TimestampIn(e) <= snapshot
      Chosen(e) ==
        /\ ~Stops(e) /\ \A d \in it : Before(d, e) => ~Stops(d)
        /\ ~Before(KeyIn(e), start)
        /\ Visible(e)
        /\ \A d \in it :
             Before(d, e) /\ KeyIn(d) = KeyIn(e) => ~Visible(d)
        /\ db[e] # Tombstone
  IN  {[pk |-> KeyIn(e), value |-> db[e]] : e \in {d \in it : Chosen(d)}}

-----------------------------------------------------------------------------
(* What the store is for, said without any order of keys *)

\* The keys of a table that have a version.
KeysOf(db, table) ==
  {KeyIn(e) : e \in {d \in DOMAIN db : TableIn(d) = table}}

\* The value of the newest version of a key up to a snapshot.
Newest(db, table, pk, snapshot) ==
  LET old == {e \in DOMAIN db : /\ TableIn(e) = table
                                /\ KeyIn(e) = pk
                                /\ TimestampIn(e) <= snapshot}
      newest == CHOOSE e \in old : \A d \in old : TimestampIn(d) <= TimestampIn(e)
  IN  IF old = {} \/ db[newest] = Tombstone THEN NotFound ELSE db[newest]

\* Some key with a version continues pk ("12" continues "1"): its versions lie
\* between the place where Get starts to look for pk and the versions of pk.
Shadowed(db, table, pk) ==
  \E q \in KeysOf(db, table) : q # pk /\ IsPrefix(pk, q)
=============================================================================
