------------------------------ MODULE Executor -------------------------------
(***************************************************************************)
(* SQL statements over the shards' stores: coordinator/executor.cpp,       *)
(* distributed_join.cpp, row_codec.cpp and shard/distributed_join_handler. *)
(*                                                                         *)
(* Statements run one after the other and commit by themselves (txn_id 0); *)
(* transaction blocks are in PgSession, conflicts and 2PC in TxnManager    *)
(* and Coordinator.  So a statement reads the newest versions and its      *)
(* commit gives it the next timestamp.                                     *)
(*                                                                         *)
(* There are two tables with an INT primary key `id' and one more INT      *)
(* column each, "c" of the left and "d" of the right table.  A cell is the *)
(* number whose decimal text the code stores; the text itself is built     *)
(* where its order matters, in the key.  int64_t is MinInt .. MaxInt.      *)
(***************************************************************************)
EXTENDS MVCCStore

CONSTANTS
  Shard,        \* shards
  MinInt,       \* the ends of int64_t
  MaxInt,
  Id,           \* primary keys that INSERT uses
  Cell,         \* values of the second column that INSERT uses
  ShardFor,     \* Coordinator::ShardFor, by primary key
  HashJoinKey,  \* HashJoinKey, by join key
  BroadcastRowThreshold,
  Bound         \* values that the conditions of a SELECT use

ASSUME IntAssumption ==
  MinInt \in Int /\ MaxInt \in Nat /\ MinInt < 0 /\ Id \cup Cell \subseteq MinInt .. MaxInt

VARIABLES
  store,    \* the MVCC store of each shard
  now,      \* the timestamp of the last commit
  rows,     \* what the statements so far should have made of each table
  misled    \* has a statement missed its row, or changed a primary key?

sqlVars == <<store, now, rows, misled>>

Left == 1
Right == 2
Table == {Left, Right}
Column(t) == IF t = Left THEN {"id", "c"} ELSE {"id", "d"}
Other(t) == IF t = Left THEN "c" ELSE "d"

\* Two's complement: the compilers' outcome of a signed overflow.
Wrap(n) == MinInt + ((n - MinInt) % (MaxInt - MinInt + 1))

\* std::to_string
Digits[n \in Nat] ==
  IF n < Base THEN <<2 + n>> ELSE Append(Digits[n \div Base], 2 + (n % Base))

Text(n) == IF n < 0 THEN <<1>> \o Digits[-n] ELSE Digits[n]

Empty == [e \in {} |-> Tombstone]
NoRows == [i \in MinInt .. MaxInt |-> NotFound]

ExecutorInit ==
  /\ store = [s \in Shard |-> Empty]
  /\ now = 0
  /\ rows = [t \in Table |-> NoRows]
  /\ misled = FALSE

-----------------------------------------------------------------------------
(* Coordinator::Read and Coordinator::Scan at the newest snapshot *)

Read(t, id) == Get(store[ShardFor[id]], t, Text(id), now)

ScanShard(s, t) == Scan(store[s], t, <<>>, <<>>, TRUE, now)

ScanAll(t, start, end, open_end) ==
  UNION {Scan(store[s], t, start, end, open_end, now) : s \in Shard}

ScanTable(t) == ScanAll(t, <<>>, <<>>, TRUE)

-----------------------------------------------------------------------------
(* WHERE: a set of conditions [op, v] on the primary key, and a value that the *)
(* other column must have, if any                                              *)

NoFilter == MinInt - 1

Largest(S) == CHOOSE x \in S : \A y \in S : y <= x
Least(S) == CHOOSE x \in S : \A y \in S : x <= y

\* Fault: `<' is taken as `<='.
ExtractKeyRange_LtIsLe(conditions) ==
  LET Vs(ops) == {c.v : c \in {d \in conditions : d.op \in ops}}
      lo == Largest({MinInt} \cup Vs({"=", ">="}) \cup {Wrap(v + 1) : v \in Vs({">"})})
      hi == Least({MaxInt} \cup Vs({"=", "<=", "<"}))
  IN  CASE conditions = {} \/ Vs({"<>"}) # {} -> [kind |-> "none"]
        [] lo > hi  -> [kind |-> "empty"]
        [] lo = hi  -> [kind |-> "point", id |-> lo]
        [] OTHER    -> [kind |-> "range", lo |-> lo, hi |-> hi]

\* The closed interval that the conditions leave: nothing the executor
\* supports, no key, one key, or a range whose upper end is open at MaxInt.
ExtractKeyRange(conditions) ==
  LET Vs(ops) == {c.v : c \in {d \in conditions : d.op \in ops}}
      lo == Largest({MinInt} \cup Vs({"=", ">="}) \cup {Wrap(v + 1) : v \in Vs({">"})})
      hi == Least({MaxInt} \cup Vs({"=", "<="}) \cup {Wrap(v - 1) : v \in Vs({"<"})})
  IN  CASE conditions = {} \/ Vs({"<>"}) # {} -> [kind |-> "none"]
        [] lo > hi  -> [kind |-> "empty"]
        [] lo = hi  -> [kind |-> "point", id |-> lo]
        [] OTHER    -> [kind |-> "range", lo |-> lo, hi |-> hi]

CompareCell(v, op, w) ==
  CASE op = "="  -> v = w
    [] op = "<>" -> v # w
    [] op = "<"  -> v < w
    [] op = "<=" -> v <= w
    [] op = ">"  -> v > w
    [] op = ">=" -> v >= w

\* The conditions that are not on the primary key.
Passes(t, row, filter) == filter = NoFilter \/ CompareCell(row[Other(t)], "=", filter)

-----------------------------------------------------------------------------
(* SELECT of one table *)

\* The rows of a SELECT with a WHERE clause that no join, ORDER BY, LIMIT or
\* aggregate sends down the other path.  The conditions on the primary key
\* have become a key or a range and are not looked at again.
ExecSelect(t, conditions, filter) ==
  LET kr == ExtractKeyRange(conditions)
      found ==
        CASE kr.kind = "empty" -> {}
          [] kr.kind = "point" -> {Read(t, kr.id)} \ {NotFound}
          [] kr.kind = "range" ->
               {f.value : f \in ScanAll(t, Text(kr.lo),
                                        IF kr.hi = MaxInt THEN <<>> ELSE Text(kr.hi + 1),
                                        kr.hi = MaxInt)}
  IN  {row \in found : Passes(t, row, filter)}

\* The other path: every row of the table as a scan found it, then every
\* condition.
ExecSelectAll(scanned, conditions) ==
  {f.value : f \in {g \in scanned :
                      \A c \in conditions : CompareCell(g.value.id, c.op, c.v)}}

-----------------------------------------------------------------------------
(* INSERT, UPDATE, DELETE *)

\* Coordinator::Write or Delete followed by Commit.
Commit(t, id, v) ==
  /\ now' = now + 1
  /\ store' = [store EXCEPT ![ShardFor[id]] =
                 IF v = Tombstone THEN Delete(@, t, Text(id), now + 1)
                                  ELSE Put(@, t, Text(id), now + 1, v)]

\* The row that the table should now have under this key; not followed any
\* further once a statement was misled.
Expect(t, id, row) ==
  rows' = IF misled' THEN [u \in Table |-> NoRows] ELSE [rows EXCEPT ![t][id] = row]

\* INSERT writes the row whether or not the key exists.
ExecInsert(t, id, cell) ==
  LET row == [c \in Column(t) |-> IF c = "id" THEN id ELSE cell] IN
  /\ Commit(t, id, row)
  /\ UNCHANGED misled
  /\ Expect(t, id, row)

\* What a statement on the row with this key should see, and does not if Get
\* stops at a longer key before it.
Unseen(t, id) == rows[t][id] # NotFound /\ Read(t, id) = NotFound

\* A statement on one row: the conditions leave one key.  Others are refused,
\* or find no row when they leave none.
PointLookup(conditions) == ExtractKeyRange(conditions).kind = "point"

\* The row with column `set.column' set to a literal, or changed by one.
Assign(row, set) ==
  [row EXCEPT ![set.column] =
     CASE set.by = "literal" -> set.v
       [] set.by = "add" -> Wrap(@ + set.v)
       [] set.by = "sub" -> Wrap(@ - set.v)]

\* Fault: the filters on other columns are not looked at.
ExecUpdate_NoFilter(t, conditions, filter, set) ==
  LET id == ExtractKeyRange(conditions).id
      row == Read(t, id)
      want == rows[t][id]
  IN
  /\ PointLookup(conditions)
  /\ IF row # NotFound THEN Commit(t, id, Assign(row, set)) ELSE UNCHANGED <<store, now>>
  /\ misled' = (misled \/ Unseen(t, id))
  /\ Expect(t, id, IF want = NotFound \/ ~Passes(t, want, filter) THEN want
                   ELSE Assign(want, set))

\* UPDATE of one row: read it, test the filter, set a column to a value or add
\* to it, and write it back under the key it was read by, also when the column
\* is the primary key.
ExecUpdate(t, conditions, filter, set) ==
  LET id == ExtractKeyRange(conditions).id
      row == Read(t, id)
      want == rows[t][id]
      applies == row # NotFound /\ Passes(t, row, filter)
  IN
  /\ PointLookup(conditions)
  /\ IF applies THEN Commit(t, id, Assign(row, set)) ELSE UNCHANGED <<store, now>>
  /\ misled' = (misled \/ Unseen(t, id) \/ (applies /\ Assign(row, set).id # row.id))
  /\ Expect(t, id, IF want = NotFound \/ ~Passes(t, want, filter) THEN want
                   ELSE Assign(want, set))

\* DELETE of one row: read it, test the filter, write a tombstone.
ExecDelete(t, conditions, filter) ==
  LET id == ExtractKeyRange(conditions).id
      row == Read(t, id)
      want == rows[t][id]
  IN
  /\ PointLookup(conditions)
  /\ IF row # NotFound /\ Passes(t, row, filter)
       THEN Commit(t, id, Tombstone) ELSE UNCHANGED <<store, now>>
  /\ misled' = (misled \/ Unseen(t, id))
  /\ Expect(t, id, IF want = NotFound \/ ~Passes(t, want, filter) THEN want ELSE NotFound)

Equals(id) == {[op |-> "=", v |-> id]}

ExecutorNext ==
  /\ now < MaxTs
  /\ \E t \in Table, id \in Id :
       \/ \E cell \in Cell : ExecInsert(t, id, cell)
       \/ \E filter \in Cell \cup {NoFilter}, column \in Column(t),
             set \in [by : {"literal"}, v : Cell] \cup [by : {"add", "sub"}, v : {1}] :
            ExecUpdate(t, Equals(id), filter, [column |-> column, by |-> set.by, v |-> set.v])
       \/ \E filter \in Cell \cup {NoFilter} : ExecDelete(t, Equals(id), filter)

-----------------------------------------------------------------------------
(* Inner equi-join.  A name is a pair of a table, or Plain, and a column.  A   *)
(* row of the result maps plain and qualified names to cells, and a join       *)
(* clause is a pair of names.                                                  *)

Plain == 0
Name == ({Plain, Left} \X Column(Left)) \cup ({Plain, Right} \X Column(Right))
NoCell == MinInt - 1

\* The joined row: the cells of `second' replace those of `first' under a plain
\* name that both tables have.
JoinedRow(t1, first, t2, second) ==
  [n \in Name |-> IF n[1] = t2 \/ (n[1] = Plain /\ n[2] \in Column(t2))
                    THEN second[n[2]] ELSE first[n[2]]]

\* With one shard: nested loops at the coordinator, names looked up in the
\* joined row.
NestedLoopJoin(on, left_rows, right_rows) ==
  {p \in {[l |-> f.pk, r |-> g.pk, row |-> JoinedRow(Left, f.value, Right, g.value)] :
            f \in left_rows, g \in right_rows} :
     p.row[on[1]] = p.row[on[2]]}

\* CellValueForJoinColumn: the qualifier is dropped, an unknown name is "".
CellValueForJoinColumn(t, row, name) ==
  IF name[2] \in Column(t) THEN row[name[2]] ELSE NoCell

\* LocalHashJoin and EmitJoinedRow on shard s: rows of the build and the probe
\* side with the same join key.
LocalHashJoin(s, bt, build, pt, probe) ==
  {[at |-> s,
    l |-> IF bt = Left THEN m[1].pk ELSE m[2].pk,
    r |-> IF bt = Left THEN m[2].pk ELSE m[1].pk,
    row |-> JoinedRow(bt, m[1].value, pt, m[2].value)] :
     m \in {n \in build \X probe : n[1].key = n[2].key}}

\* The rows a scan found, each with its join key.
Payload(t, found, name) ==
  {[pk |-> f.pk, value |-> f.value, key |-> CellValueForJoinColumn(t, f.value, name)] :
     f \in found}

\* Fault: every shard probes with all rows instead of its own.
RunBroadcastJoin_ProbesAll(bt, pt, bname, pname, build_rows) ==
  UNION {LocalHashJoin(s, bt, Payload(bt, build_rows, bname),
                       pt, Payload(pt, ScanTable(pt), pname)) : s \in Shard}

\* Every shard gets all build rows and probes with its own; a probe row without
\* the join column is left out.
RunBroadcastJoin(bt, pt, bname, pname, build_rows) ==
  UNION {LocalHashJoin(s, bt, Payload(bt, build_rows, bname),
                       pt, {p \in Payload(pt, ScanShard(s, pt), pname) : p.key # NoCell}) :
           s \in Shard}

\* Rows of both sides go to the shard that their join key hashes to.
RunShuffleJoin(lname, rname, left_rows, right_rows) ==
  LET At(s, payload) == {p \in payload : HashJoinKey[p.key] = s}
  IN  UNION {LocalHashJoin(s, Left, At(s, Payload(Left, left_rows, lname)),
                           Right, At(s, Payload(Right, right_rows, rname))) : s \in Shard}

\* ResolveOp
Broadcasts(op, left_rows, right_rows) ==
  \/ op = "broadcast"
  \/ /\ op = "auto"
     /\ \/ Cardinality(left_rows) <= BroadcastRowThreshold
        \/ Cardinality(right_rows) <= BroadcastRowThreshold

\* The smaller side is broadcast, the left one if they are equal.
ExecuteInnerJoin(on, op, left_rows, right_rows) ==
  IF ~Broadcasts(op, left_rows, right_rows)
    THEN RunShuffleJoin(on[1], on[2], left_rows, right_rows)
  ELSE IF Cardinality(left_rows) <= Cardinality(right_rows)
    THEN RunBroadcastJoin(Left, Right, on[1], on[2], left_rows)
    ELSE RunBroadcastJoin(Right, Left, on[2], on[1], right_rows)

-----------------------------------------------------------------------------
(* Properties, of stores in which something was written *)

Written == now > 0

\* A point read finds what was written last before its snapshot, or nothing
\* when the shard also stores a key that continues the one it looks for: Get
\* seeks the bare prefix and gives up at the first foreign key.
GetIsExact ==
  Written => \A t \in Table, id \in Id, snapshot \in 0 .. now :
    LET db == store[ShardFor[id]] IN
    Get(db, t, Text(id), snapshot) =
      IF Shadowed(db, t, Text(id)) THEN NotFound ELSE Newest(db, t, Text(id), snapshot)

\* What the documentation says of Get: "walks versions until it finds the newest
\* write timestamp <= snapshot_ts".
GetFindsNewest ==
  \A t \in Table, id \in Id, snapshot \in 0 .. now :
    LET db == store[ShardFor[id]] IN
    Get(db, t, Text(id), snapshot) = Newest(db, t, Text(id), snapshot)

\* The rows that are there, by primary key; each is at home on one shard.
Content(t) ==
  LET Row(id) == Newest(store[ShardFor[id]], t, Text(id), now)
  IN  [id \in {i \in Id : Row(i) # NotFound} |-> Row(id)]

\* What the statements did is what a scan of the whole table shows: an INSERT
\* replaces, an UPDATE or DELETE finds its row, filters it and changes that row
\* alone.  Two cases are left out: the row is shadowed by a longer key, or an
\* UPDATE set the primary key and the row stayed under the old one.
TableIsExact ==
  Written /\ ~misled =>
    \A t \in Table :
      ScanTable(t) =
        {[pk |-> Text(id), value |-> rows[t][id]] : id \in {i \in Id : rows[t][i] # NotFound}}

Compares(ops) == [op : ops, v : Bound]
Where == {{c} : c \in Compares({"=", "<", "<=", ">", ">="})}
           \cup {{p[1], p[2]} : p \in {q \in Compares({">", ">="}) \X Compares({"<", "<="}) :
                                          q[1].v < q[2].v}}

\* The texts that a range SELECT compares are ordered like their numbers: the
\* stored keys are not negative and have one length, which the bounds share
\* unless they are negative or open.
OneWidth(t, kr) ==
  \E w \in {Len(Text(v)) : v \in Id} :
    /\ \A s \in Shard : \A k \in KeysOf(store[s], t) : k[1] # 1 /\ Len(k) = w
    /\ kr.lo < 0 \/ Len(Text(kr.lo)) = w
    /\ kr.hi = MaxInt \/ kr.hi + 1 < 0 \/ Len(Text(kr.hi + 1)) = w

\* A SELECT with conditions on the primary key returns the rows that satisfy
\* them: a point when no longer key shadows it, a range when the texts of the
\* keys are ordered like the numbers, and no condition asks for more than the
\* largest or less than the smallest integer (ExtractKeyRange adds one to it).
\* The path that scans the whole table returns them in every case.
SelectIsExact ==
  Written => \A t \in Table :
    LET content == Content(t)
        scanned == ScanTable(t)
    IN
    \A w \in Where :
      LET kr == ExtractKeyRange(w)
          Satisfies(v) == \A c \in w : CompareCell(v, c.op, c.v)
      IN
      /\ /\ [op |-> ">", v |-> MaxInt] \notin w /\ [op |-> "<", v |-> MinInt] \notin w
         /\ \/ kr.kind = "empty"
            \/ kr.kind = "point" /\ ~Shadowed(store[ShardFor[kr.id]], t, Text(kr.id))
            \/ kr.kind = "range" /\ OneWidth(t, kr)
         => ExecSelect(t, w, NoFilter) = {content[i] : i \in {j \in DOMAIN content : Satisfies(j)}}
      /\ ExecSelectAll(scanned, w) =
           {content[i] : i \in {j \in DOMAIN content : Satisfies(content[j].id)}}

\* The join clause names a column of the left table and then one of the right
\* table, each in a way that only its table has.
NamesInOrder(on) ==
  /\ on[1][1] = Left \/ on[1][2] \notin Column(Right)
  /\ on[1][2] \in Column(Left)
  /\ on[2][1] = Right \/ on[2][2] \notin Column(Left)
  /\ on[2][2] \in Column(Right)

\* Broadcast and shuffle joins over shards return the rows that nested loops on
\* one shard return, each once, wherever the rows and the join keys are placed.
\* Under a plain name that both tables have the columns differ when the right
\* table is the smaller one: it is then the build side, and the probe side wins.
JoinsAgree ==
  Written =>
  LET left_rows == ScanTable(Left)
      right_rows == ScanTable(Right)
  IN
  \A on \in {n \in Name \X Name : NamesInOrder(n)} :
  LET local == NestedLoopJoin(on, left_rows, right_rows) IN
  \A op \in {"broadcast", "shuffle", "auto"} :
    LET swapped == /\ Broadcasts(op, left_rows, right_rows)
                   /\ Cardinality(left_rows) > Cardinality(right_rows)
        Seen(p) == [l |-> p.l, r |-> p.r,
                    row |-> [n \in Name \ (IF swapped THEN {<<Plain, "id">>} ELSE {}) |->
                               p.row[n]]]
        out == ExecuteInnerJoin(on, op, left_rows, right_rows)
    IN  /\ {Seen(p) : p \in out} = {Seen(p) : p \in local}
        /\ Cardinality(out) = Cardinality(local)
=============================================================================
