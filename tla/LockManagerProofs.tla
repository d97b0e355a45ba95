-------------------------- MODULE LockManagerProofs --------------------------
(***************************************************************************)
(* Safety of the lock manager, for any number of threads, transactions and *)
(* keys.                                                                   *)
(*                                                                         *)
(* The account of a transaction at a key: what callers may still give back *)
(* (Claims) against what the table will let them have: the holds of the    *)
(* owner (Held) and the places in the queue (Places).  It never runs       *)
(* short, and it is exact on a key that no two threads of one transaction  *)
(* have waited for.  The account is stated first, its parts are counted,   *)
(* ReleaseInternal keeps it; then every action does, and the properties of *)
(* LockManager follow from it.                                             *)
(***************************************************************************)
EXTENDS LockManager, TLAPS, FiniteSetTheorems

\* A leaf is tried with SMT and then with Zenon, unless it names its prover.
USE SMTT(30), ZenonT(30)

Places(q, t) == Cardinality({i \in 1..Len(q) : q[i] = t})

Held(t, k) == IF owner[k] = t THEN hold_count[k] ELSE 0

\* A thread has a list of keys only inside ReleaseAll, and waits for a key only
\* inside Acquire.
ThreadInv ==
  \A th \in Thread :
    /\ pc[th] = "waiting" <=> wants[th] # NoKey
    /\ pc[th] # "moved" => keys[th] = NoKeys
    /\ mu = th => pc[th] = "moved"

\* A free lock has no holds and nobody queues for it.
EntryInv(k) ==
  /\ owner[k] = NoTxn <=> hold_count[k] = 0
  /\ owner[k] = NoTxn => wait_queue[k] = <<>>

\* The account of t and k is exact, one thread of t at most waits, and t is the
\* owner or in the queue but not both.
Exact(t, k) ==
  /\ Claims(t, k) = Places(wait_queue[k], t) + Held(t, k)
  /\ \A x, y \in Waiters(t, k) : x = y
  /\ owner[k] = t => Places(wait_queue[k], t) = 0
  /\ owner[k] # t => txn_locks[t][k] = 0 /\ Moved(t, k) = {}

Account(t, k) ==
  /\ Claims(t, k) <= Places(wait_queue[k], t) + Held(t, k)
  /\ k \notin shared => Exact(t, k)

LockInv ==
  /\ ThreadInv
  /\ \A k \in Key : EntryInv(k)
  /\ \A t \in Txn, k \in Key : Account(t, k)

-----------------------------------------------------------------------------
\* A set of numbers that is not empty has a least element.
LEMMA LeastElement ==
  ASSUME NEW T, T \subseteq Nat, T # {}
  PROVE  \E x \in T : \A y \in T : x <= y
<1> DEFINE R == OpToRel(<, Nat)
<1>1. IsWellFoundedOn(R, Nat)
  BY ZenonT(60), NatLessThanWellFounded
<1>2. \A x, y \in Nat : y < x => <<y, x>> \in R
  BY ZenonT(60) DEF OpToRel
<1> HIDE DEF R
<1>3. PICK x \in T : \A y \in T : ~(<<y, x>> \in R)
  BY ZenonT(60), <1>1, WFMin
<1>4. ASSUME NEW y \in T PROVE x <= y
  <2>1. x \in Nat /\ y \in Nat
    BY ZenonT(60)
  <2>2. ~(y < x)
    BY ZenonT(60), <1>2, <1>3, <2>1
  <2> QED
    BY <2>1, <2>2
<1> QED
  BY ZenonT(60), <1>4

\* The places of a transaction in a queue are a finite set.
LEMMA PlacesType ==
  ASSUME NEW q \in Seq(Txn), NEW t
  PROVE  /\ IsFiniteSet({i \in 1..Len(q) : q[i] = t})
         /\ Places(q, t) \in Nat
         /\ Places(q, t) = 0 <=> \A i \in 1..Len(q) : q[i] # t
<1> DEFINE P == {i \in 1..Len(q) : q[i] = t}
<1>1. IsFiniteSet(1..Len(q))
  BY FS_Interval
<1>2. P \in SUBSET (1..Len(q))
  BY ZenonT(60)
<1>3. IsFiniteSet(P)
  BY ZenonT(60), <1>1, <1>2, FS_Subset
<1>4. Cardinality(P) \in Nat /\ (Cardinality(P) = 0 <=> P = {})
  BY ZenonT(60), <1>3, FS_CardinalityType, FS_EmptySet
<1> QED
  BY ZenonT(60), <1>3, <1>4 DEF Places

\* Joining a queue adds one place to the transaction that joins.
LEMMA PlacesAppend ==
  ASSUME NEW q \in Seq(Txn), NEW u \in Txn, NEW t
  PROVE  Places(Append(q, u), t) = Places(q, t) + IF u = t THEN 1 ELSE 0
<1> DEFINE P == {i \in 1..Len(q) : q[i] = t}
           r == Append(q, u)
           R == {i \in 1..Len(r) : r[i] = t}
<1>1. Len(r) = Len(q) + 1 /\ r[Len(q) + 1] = u /\ \A i \in 1..Len(q) : r[i] = q[i]
  OBVIOUS
<1>2. IsFiniteSet(P) /\ Cardinality(P) \in Nat
  BY ZenonT(60), PlacesType, FS_CardinalityType
<1>3. Places(q, t) = Cardinality(P) /\ Places(r, t) = Cardinality(R)
  BY ZenonT(60) DEF Places
<1> HIDE DEF r
<1>4. CASE u = t
  <2>1. R = P \cup {Len(q) + 1} /\ Len(q) + 1 \notin P
    BY <1>1, <1>4
  <2> HIDE DEF P, R
  <2> QED
    BY ZenonT(60), <1>2, <1>3, <1>4, <2>1, FS_AddElement DEF r
<1>5. CASE u # t
  <2>1. R = P
    BY <1>1, <1>5
  <2> HIDE DEF P, R
  <2> QED
    BY <1>2, <1>3, <1>5, <2>1 DEF r
<1> QED
  BY ZenonT(60), <1>4, <1>5

\* Taking entry i out of a queue takes one place from the transaction there.
LEMMA PlacesRemove ==
  ASSUME NEW q \in Seq(Txn), NEW i \in 1..Len(q), NEW r \in Seq(Txn),
         Len(r) = Len(q) - 1,
         \A j \in 1..Len(r) : r[j] = IF j < i THEN q[j] ELSE q[j + 1],
         NEW t
  PROVE  Places(r, t) = Places(q, t) - IF q[i] = t THEN 1 ELSE 0
<1> DEFINE P == {j \in 1..Len(q) : q[j] = t}
           R == {j \in 1..Len(r) : r[j] = t}
           f == [j \in R |-> IF j < i THEN j ELSE j + 1]
<1>1. IsFiniteSet(P) /\ IsFiniteSet(R) /\ Cardinality(P) \in Nat
  BY ZenonT(60), PlacesType, FS_CardinalityType
<1>2. f \in [R -> P \ {i}]
  <2> SUFFICES ASSUME NEW j \in R PROVE f[j] \in P \ {i}
    BY ZenonT(60)
  <2>1. /\ j \in 1..Len(r) /\ r[j] = t /\ Len(q) \in Nat /\ i \in Nat
        /\ r[j] = IF j < i THEN q[j] ELSE q[j + 1]
    OBVIOUS
  <2>2. f[j] = IF j < i THEN j ELSE j + 1
    BY ZenonT(60)
  <2> HIDE DEF f, R
  <2>3. CASE j < i
    BY <2>1, <2>2, <2>3
  <2>4. CASE ~(j < i)
    BY <2>1, <2>2, <2>4
  <2> QED
    BY ZenonT(60), <2>3, <2>4
<1>3. \A a, b \in R : f[a] = f[b] => a = b
  OBVIOUS
<1>4. \A p \in P \ {i} : \E j \in R : f[j] = p
  <2> SUFFICES ASSUME NEW p \in P \ {i} PROVE \E j \in R : f[j] = p
    BY ZenonT(60)
  <2>1. CASE p < i
    <3>1. p \in R /\ f[p] = p
      BY <2>1
    <3> QED
      BY ZenonT(60), <3>1
  <2>2. CASE p > i
    <3>1. p - 1 \in R /\ f[p - 1] = p
      BY <2>2
    <3> QED
      BY ZenonT(60), <3>1
  <2>3. p < i \/ p > i
    OBVIOUS
  <2> HIDE DEF f, P, R
  <2> QED
    BY ZenonT(60), <2>1, <2>2, <2>3
<1>5. i \in P <=> q[i] = t
  BY ZenonT(60)
<1>6. Places(q, t) = Cardinality(P) /\ Places(r, t) = Cardinality(R)
  BY ZenonT(60) DEF Places
<1> HIDE DEF f, P, R
<1>7. f \in Bijection(R, P \ {i})
  BY ZenonT(60), <1>2, <1>3, <1>4 DEF Bijection, Injection, Surjection, IsInjective
<1>8. Cardinality(P \ {i}) = Cardinality(R)
  BY ZenonT(60), <1>1, <1>7, FS_Bijection DEF ExistsBijection
<1>9. Cardinality(P \ {i}) = IF i \in P THEN Cardinality(P) - 1 ELSE Cardinality(P)
  BY ZenonT(60), <1>1, FS_RemoveElement
<1> QED
  BY <1>1, <1>5, <1>6, <1>8, <1>9

\* Handing the lock to the front of the queue.
LEMMA PlacesTail ==
  ASSUME NEW q \in Seq(Txn), q # <<>>, NEW t
  PROVE  /\ Head(q) \in Txn /\ Tail(q) \in Seq(Txn)
         /\ Places(Tail(q), t) = Places(q, t) - IF Head(q) = t THEN 1 ELSE 0
<1> DEFINE r == Tail(q)
<1>1. /\ r \in Seq(Txn) /\ Len(r) = Len(q) - 1 /\ 1 \in 1..Len(q) /\ Head(q) = q[1]
      /\ \A j \in 1..Len(r) : r[j] = IF j < 1 THEN q[j] ELSE q[j + 1]
  OBVIOUS
<1> HIDE DEF r
<1>2. Places(r, t) = Places(q, t) - IF q[1] = t THEN 1 ELSE 0
  BY <1>1, PlacesRemove
<1> QED
  BY <1>1, <1>2 DEF r

\* A thread that gives up takes one place of its transaction with it.
LEMMA PlacesWithoutFirst ==
  ASSUME NEW q \in Seq(Txn), NEW u \in Txn, NEW t
  PROVE  /\ WithoutFirst(q, u) \in Seq(Txn)
         /\ Places(WithoutFirst(q, u), t) =
              Places(q, t) - IF u = t /\ Places(q, u) > 0 THEN 1 ELSE 0
<1> DEFINE at == {i \in DOMAIN q : q[i] = u}
           i == CHOOSE i \in at : \A j \in at : i <= j
           r == SubSeq(q, 1, i - 1) \o SubSeq(q, i + 1, Len(q))
<1>0. Places(q, t) \in Nat /\ Places(q, u) \in Nat
  BY ZenonT(60), PlacesType
<1>1. CASE at = {}
  <2>1. WithoutFirst(q, u) = q
    BY ZenonT(60), <1>1 DEF WithoutFirst
  <2>2. Places(q, u) = 0
    BY <1>1, PlacesType
  <2> QED
    BY <1>0, <2>1, <2>2
<1>2. CASE at # {}
  <2>1. WithoutFirst(q, u) = r
    BY ZenonT(60), <1>2 DEF WithoutFirst
  <2>2. i \in at
    <3>1. \E x \in at : \A y \in at : x <= y
      <4>1. at \subseteq Nat
        OBVIOUS
      <4> HIDE DEF at
      <4> QED
        BY ZenonT(60), <1>2, <4>1, LeastElement
    <3> HIDE DEF at
    <3> QED
      BY ZenonT(60), <3>1
  <2>3. i \in 1..Len(q) /\ q[i] = u
    BY <2>2
  <2> HIDE DEF i
  <2> DEFINE a == SubSeq(q, 1, i - 1)
             b == SubSeq(q, i + 1, Len(q))
  <2>a. a \in Seq(Txn) /\ Len(a) = i - 1 /\ \A j \in 1..(i - 1) : a[j] = q[j]
    BY <2>3
  <2>b. b \in Seq(Txn) /\ Len(b) = Len(q) - i /\ \A j \in 1..Len(q) - i : b[j] = q[j + i]
    BY <2>3
  <2>c. r = a \o b
    BY ZenonT(60)
  <2> HIDE DEF a, b, r
  <2>4. r \in Seq(Txn) /\ Len(r) = Len(q) - 1
    BY <2>3, <2>a, <2>b, <2>c
  <2>5. \A j \in 1..Len(r) : r[j] = IF j < i THEN q[j] ELSE q[j + 1]
    <3> SUFFICES ASSUME NEW j \in 1..Len(r)
                 PROVE  r[j] = IF j < i THEN q[j] ELSE q[j + 1]
      BY ZenonT(60)
    <3>1. CASE j < i
      BY <2>3, <2>4, <2>a, <2>b, <2>c, <3>1
    <3>2. CASE j >= i
      <4>1. j - (i - 1) \in 1..Len(b) /\ r[j] = b[j - (i - 1)]
        BY <2>3, <2>4, <2>a, <2>b, <2>c, <3>2
      <4>2. b[j - (i - 1)] = q[j - (i - 1) + i] /\ j - (i - 1) + i = j + 1
        BY <2>3, <2>4, <2>b, <3>2, <4>1
      <4> QED
        BY <2>3, <3>2, <4>1, <4>2
    <3> QED
      BY <2>3, <2>4, <3>1, <3>2
  <2>6. Places(q, u) > 0
    <3>1. Places(q, u) # 0
      BY ZenonT(60), <2>3, PlacesType
    <3> QED
      BY <1>0, <3>1
  <2>7. Places(r, t) = Places(q, t) - IF q[i] = t THEN 1 ELSE 0
    BY <2>3, <2>4, <2>5, PlacesRemove
  <2> QED
    BY ZenonT(60), <2>1, <2>3, <2>4, <2>6, <2>7
<1> QED
  BY ZenonT(60), <1>1, <1>2
-----------------------------------------------------------------------------
\* The keys that threads of t have moved out, for a value ks of `keys'.
MovedIn(ks, t, k) ==
  UNION {{th} \X (1..ks[th][k]) : th \in {x \in Thread : TxnOf[x] = t}}

LEMMA MovedInMembers ==
  ASSUME NEW ks \in [Thread -> [Key -> Nat]], NEW t, NEW k \in Key
  PROVE  \A p : p \in MovedIn(ks, t, k) <=>
           \E th \in Thread : TxnOf[th] = t /\ p \in {th} \X (1..ks[th][k])
BY ZenonT(60) DEF MovedIn

\* The set is finite, and empty when nothing was moved.
LEMMA MovedInType ==
  ASSUME NEW ks \in [Thread -> [Key -> Nat]], NEW t, NEW k \in Key
  PROVE  /\ IsFiniteSet(MovedIn(ks, t, k))
         /\ Cardinality(MovedIn(ks, t, k)) \in Nat
         /\ Cardinality(MovedIn(ks, t, k)) = 0 <=> MovedIn(ks, t, k) = {}
         /\ MovedIn(ks, t, k) = {} <=>
              \A th \in Thread : TxnOf[th] = t => ks[th][k] = 0
<1> DEFINE S == MovedIn(ks, t, k)
           X == {x \in Thread : TxnOf[x] = t}
<1>1. IsFiniteSet(X)
  BY ZenonT(60), ThreadAssumption, FS_Subset, X \in SUBSET Thread
<1>2. \A th \in X : IsFiniteSet({th} \X (1..ks[th][k]))
  <2> SUFFICES ASSUME NEW th \in X PROVE IsFiniteSet({th} \X (1..ks[th][k]))
    BY ZenonT(60)
  <2>1. IsFiniteSet({th})
    BY ZenonT(60), FS_Singleton
  <2>2. ks[th][k] \in Nat
    BY ZenonT(60)
  <2>3. IsFiniteSet(1..ks[th][k])
    BY <2>2, FS_Interval
  <2> QED
    BY ZenonT(60), <2>1, <2>3, FS_Product
<1>3. IsFiniteSet(S)
  <2> DEFINE U == {{th} \X (1..ks[th][k]) : th \in X}
             g == [th \in X |-> {th} \X (1..ks[th][k])]
  <2>1. g \in Surjection(X, U)
    BY ZenonT(60) DEF Surjection
  <2>2. \A T \in U : IsFiniteSet(T)
    BY ZenonT(60), <1>2
  <2>3. S = UNION U
    BY ZenonT(60) DEF MovedIn
  <2> HIDE DEF U, g, X, S
  <2>4. IsFiniteSet(U)
    BY ZenonT(60), <1>1, <2>1, FS_Surjection
  <2> QED
    BY ZenonT(60), <2>2, <2>3, <2>4, FS_UNION
<1>4. Cardinality(S) \in Nat /\ (Cardinality(S) = 0 <=> S = {})
  BY ZenonT(60), <1>3, FS_CardinalityType, FS_EmptySet
<1>5. S = {} <=> \A th \in Thread : TxnOf[th] = t => ks[th][k] = 0
  <2>1. ASSUME NEW th \in Thread, TxnOf[th] = t, ks[th][k] # 0 PROVE S # {}
    <3>1. ks[th][k] \in Nat /\ 1 \in 1..ks[th][k]
      BY <2>1
    <3>2. <<th, 1>> \in S
      BY ZenonT(60), <2>1, <3>1, MovedInMembers
    <3> QED
      BY ZenonT(60), <3>2
  <2>2. ASSUME \A th \in Thread : TxnOf[th] = t => ks[th][k] = 0 PROVE S = {}
    <3>1. \A p : p \notin S
      BY <2>2, MovedInMembers
    <3> QED
      BY ZenonT(60), <3>1
  <2> QED
    BY ZenonT(60), <2>1, <2>2
<1> QED
  BY ZenonT(60), <1>3, <1>4, <1>5

\* Only what the threads of t moved of k counts.
LEMMA MovedInSame ==
  ASSUME NEW ks \in [Thread -> [Key -> Nat]], NEW ls \in [Thread -> [Key -> Nat]],
         NEW t, NEW k \in Key,
         \A th \in Thread : TxnOf[th] = t => ls[th][k] = ks[th][k]
  PROVE  MovedIn(ls, t, k) = MovedIn(ks, t, k)
<1>1. \A p : p \in MovedIn(ls, t, k) <=> p \in MovedIn(ks, t, k)
  BY MovedInMembers
<1> QED
  BY ZenonT(60), <1>1

\* Releasing one of the keys of the list.
LEMMA MovedInDrop ==
  ASSUME NEW ks \in [Thread -> [Key -> Nat]], NEW ls \in [Thread -> [Key -> Nat]],
         NEW th \in Thread, NEW k \in Key, ks[th][k] > 0, ls[th][k] = ks[th][k] - 1,
         \A x \in Thread \ {th} : ls[x][k] = ks[x][k]
  PROVE  /\ MovedIn(ks, TxnOf[th], k) # {}
         /\ Cardinality(MovedIn(ls, TxnOf[th], k)) =
              Cardinality(MovedIn(ks, TxnOf[th], k)) - 1
<1> DEFINE A == MovedIn(ks, TxnOf[th], k)
           B == MovedIn(ls, TxnOf[th], k)
           e == <<th, ks[th][k]>>
<1>0. ks[th][k] \in Nat /\ ls[th][k] \in Nat
  BY ZenonT(60)
<1>1. e \in A
  <2>1. e \in {th} \X (1..ks[th][k])
    BY <1>0
  <2> HIDE DEF e
  <2> QED
    BY ZenonT(60), <2>1, MovedInMembers
<1>2. ASSUME NEW x \in Thread, NEW p
      PROVE  p \in {x} \X (1..ls[x][k]) <=> p \in {x} \X (1..ks[x][k]) /\ p # e
  <2>1. CASE x = th
    BY <1>0, <2>1
  <2>2. CASE x # th
    BY <2>2
  <2> QED
    BY ZenonT(60), <2>1, <2>2
<1>3. \A p : p \in B <=> p \in A /\ p # e
  <2> SUFFICES ASSUME NEW p PROVE p \in B <=> p \in A /\ p # e
    BY ZenonT(60)
  <2>1. p \in A <=> \E x \in Thread : TxnOf[x] = TxnOf[th] /\ p \in {x} \X (1..ks[x][k])
    BY MovedInMembers
  <2>2. p \in B <=> \E x \in Thread : TxnOf[x] = TxnOf[th] /\ p \in {x} \X (1..ls[x][k])
    BY MovedInMembers
  <2> HIDE DEF A, B, e
  <2> QED
    BY ZenonT(60), <1>2, <2>1, <2>2
<1>4. B = A \ {e}
  BY ZenonT(60), <1>3
<1>5. IsFiniteSet(A) /\ Cardinality(A) \in Nat
  BY ZenonT(60), MovedInType
<1> HIDE DEF A, B, e
<1> QED
  BY ZenonT(60), <1>1, <1>4, <1>5, FS_RemoveElement DEF A, B

\* Moving the list out.
LEMMA MovedInTake ==
  ASSUME NEW ks \in [Thread -> [Key -> Nat]], NEW ls \in [Thread -> [Key -> Nat]],
         NEW th \in Thread, NEW k \in Key, ks[th][k] = 0,
         \A x \in Thread \ {th} : ls[x][k] = ks[x][k]
  PROVE  Cardinality(MovedIn(ls, TxnOf[th], k)) =
           Cardinality(MovedIn(ks, TxnOf[th], k)) + ls[th][k]
<1> DEFINE A == MovedIn(ks, TxnOf[th], k)
           B == MovedIn(ls, TxnOf[th], k)
           n == ls[th][k]
           N == {th} \X (1..n)
<1>1. n \in Nat
  BY ZenonT(60)
<1>2. ASSUME NEW x \in Thread, NEW p
      PROVE  p \in {x} \X (1..ls[x][k]) <=>
               p \in {x} \X (1..ks[x][k]) \/ (x = th /\ p \in N)
  <2>1. CASE x = th
    BY <1>1, <2>1
  <2>2. CASE x # th
    BY ZenonT(60), <2>2
  <2> QED
    BY ZenonT(60), <2>1, <2>2
<1>3. A \cap N = {}
  <2> SUFFICES ASSUME NEW p \in A, p \in N PROVE FALSE
    BY ZenonT(60)
  <2>1. PICK x \in Thread : p \in {x} \X (1..ks[x][k])
    BY MovedInMembers
  <2>2. x = th
    BY ZenonT(60), <2>1
  <2> QED
    BY <2>1, <2>2
<1>4. \A p : p \in B <=> p \in A \/ p \in N
  <2> SUFFICES ASSUME NEW p PROVE p \in B <=> p \in A \/ p \in N
    BY ZenonT(60)
  <2>1. p \in A <=> \E x \in Thread : TxnOf[x] = TxnOf[th] /\ p \in {x} \X (1..ks[x][k])
    BY MovedInMembers
  <2>2. p \in B <=> \E x \in Thread : TxnOf[x] = TxnOf[th] /\ p \in {x} \X (1..ls[x][k])
    BY MovedInMembers
  <2> HIDE DEF A, B, N
  <2> QED
    BY ZenonT(60), <1>2, <2>1, <2>2
<1>5. IsFiniteSet(A) /\ Cardinality(A) \in Nat
  BY ZenonT(60), MovedInType
<1>6. IsFiniteSet(N) /\ Cardinality(N) = n
  <2>1. IsFiniteSet({th}) /\ Cardinality({th}) = 1
    BY ZenonT(60), FS_Singleton
  <2>2. IsFiniteSet(1..n) /\ Cardinality(1..n) = n
    <3> HIDE DEF n
    <3>1. 1 \in Int /\ n \in Int
      BY <1>1
    <3>2. /\ IsFiniteSet(1..n)
          /\ Cardinality(1..n) = IF 1 > n THEN 0 ELSE n - 1 + 1
      BY ZenonT(60), <3>1, FS_Interval
    <3> QED
      BY <1>1, <3>2
  <2>3. IsFiniteSet(N) /\ Cardinality(N) = Cardinality({th}) * Cardinality(1..n)
    BY ZenonT(60), <2>1, <2>2, FS_Product
  <2> HIDE DEF N, n
  <2> QED
    BY <1>1, <2>1, <2>2, <2>3
<1>7. B = A \cup N
  BY ZenonT(60), <1>4
<1> HIDE DEF A, B, N, n
<1>8. Cardinality(B) = Cardinality(A) + Cardinality(N) - Cardinality(A \cap N)
  BY ZenonT(60), <1>5, <1>6, <1>7, FS_Union
<1>9. Cardinality(A \cap N) = 0
  BY ZenonT(60), <1>3, FS_EmptySet
<1>10. Cardinality(B) = Cardinality(A) + n
  BY <1>1, <1>5, <1>6, <1>8, <1>9
<1> QED
  BY ZenonT(60), <1>10 DEF A, B, n
-----------------------------------------------------------------------------
\* A set of threads is finite.
LEMMA ThreadsFinite ==
  ASSUME NEW W \in SUBSET Thread
  PROVE  /\ IsFiniteSet(W) /\ Cardinality(W) \in Nat
         /\ Cardinality(W) = 0 <=> W = {}
         /\ (\A x, y \in W : x = y) => Cardinality(W) <= 1
<1>1. IsFiniteSet(W)
  BY ZenonT(60), ThreadAssumption, FS_Subset
<1>2. Cardinality(W) \in Nat /\ (Cardinality(W) = 0 <=> W = {})
  BY ZenonT(60), <1>1, FS_CardinalityType, FS_EmptySet
<1>3. ASSUME \A x, y \in W : x = y PROVE Cardinality(W) <= 1
  <2>1. CASE W = {}
    BY <1>2, <2>1
  <2>2. CASE W # {}
    <3>1. PICK x : W = {x}
      BY <1>3, <2>2
    <3> QED
      BY <3>1, FS_Singleton
  <2> QED
    BY ZenonT(60), <2>1, <2>2
<1> QED
  BY ZenonT(60), <1>1, <1>2, <1>3

\* Claims are counted, and none are left when all three parts are empty.
LEMMA ClaimsType ==
  ASSUME TypeOK, NEW t \in Txn, NEW k \in Key
  PROVE  /\ Claims(t, k) \in Nat
         /\ Claims(t, k) = 0 <=>
              txn_locks[t][k] = 0 /\ Moved(t, k) = {} /\ Waiters(t, k) = {}
         /\ Moved(t, k) = MovedIn(keys, t, k)
         /\ txn_locks[t][k] \in Nat
         /\ Cardinality(Moved(t, k)) \in Nat
         /\ Cardinality(Waiters(t, k)) \in Nat
         /\ (\A x, y \in Waiters(t, k) : x = y) => Cardinality(Waiters(t, k)) <= 1
         /\ Moved(t, k) = {} => Cardinality(Moved(t, k)) = 0
<1>1. Moved(t, k) = MovedIn(keys, t, k)
  BY ZenonT(60) DEF Moved, MovedIn
<1>2. Cardinality(Moved(t, k)) \in Nat /\ (Cardinality(Moved(t, k)) = 0 <=> Moved(t, k) = {})
  <2>1. keys \in [Thread -> [Key -> Nat]]
    BY ZenonT(60) DEF TypeOK
  <2> QED
    BY <1>1, <2>1, MovedInType
<1>3. Waiters(t, k) \in SUBSET Thread
  BY ZenonT(60) DEF Waiters
<1>4. /\ Cardinality(Waiters(t, k)) \in Nat
      /\ Cardinality(Waiters(t, k)) = 0 <=> Waiters(t, k) = {}
      /\ (\A x, y \in Waiters(t, k) : x = y) => Cardinality(Waiters(t, k)) <= 1
  BY ZenonT(60), <1>3, ThreadsFinite
<1>5. txn_locks[t][k] \in Nat
  BY ZenonT(60) DEF TypeOK
<1> QED
  BY <1>1, <1>2, <1>4, <1>5 DEF Claims

LEMMA ClaimsTypeNext ==
  ASSUME TypeOK', NEW t \in Txn, NEW k \in Key
  PROVE  /\ Claims(t, k)' \in Nat
         /\ Claims(t, k)' = 0 <=>
              txn_locks'[t][k] = 0 /\ Moved(t, k)' = {} /\ Waiters(t, k)' = {}
         /\ Moved(t, k)' = MovedIn(keys', t, k)
<1>1. Moved(t, k)' = MovedIn(keys', t, k)
  BY ZenonT(60) DEF Moved, MovedIn
<1>2. Cardinality(Moved(t, k)') \in Nat /\ (Cardinality(Moved(t, k)') = 0 <=> Moved(t, k)' = {})
  <2>1. keys' \in [Thread -> [Key -> Nat]]
    BY ZenonT(60) DEF TypeOK
  <2> QED
    BY <1>1, <2>1, MovedInType
<1>3. Waiters(t, k)' \in SUBSET Thread
  BY ZenonT(60) DEF Waiters
<1>4. /\ Cardinality(Waiters(t, k)') \in Nat
      /\ Cardinality(Waiters(t, k)') = 0 <=> Waiters(t, k)' = {}
  BY ZenonT(60), <1>3, ThreadsFinite
<1>5. txn_locks'[t][k] \in Nat
  BY ZenonT(60) DEF TypeOK
<1> QED
  BY <1>1, <1>2, <1>4, <1>5 DEF Claims

\* What is owned, queued, recorded, moved and waited for by t at k is as before.
Untouched(t, k) ==
  /\ owner[k] = t <=> owner'[k] = t
  /\ Held(t, k)' = Held(t, k)
  /\ Places(wait_queue'[k], t) = Places(wait_queue[k], t)
  /\ txn_locks'[t][k] = txn_locks[t][k]
  /\ \A th \in Thread : TxnOf[th] = t =>
       /\ keys'[th][k] = keys[th][k]
       /\ Waiting(th, k) <=> Waiting(th, k)'
  /\ k \in shared => k \in shared'

LEMMA UntouchedAccount ==
  ASSUME TypeOK, TypeOK', NEW t \in Txn, NEW k \in Key, Account(t, k), Untouched(t, k)
  PROVE  Account(t, k)'
<1>1. Moved(t, k)' = Moved(t, k)
  <2>1. MovedIn(keys', t, k) = MovedIn(keys, t, k)
    BY ZenonT(60), MovedInSame DEF Untouched, TypeOK
  <2> QED
    BY ZenonT(60), <2>1, ClaimsType, ClaimsTypeNext
<1>2. Waiters(t, k)' = Waiters(t, k)
  BY ZenonT(60) DEF Waiters, Untouched
<1>3. Claims(t, k)' = Claims(t, k)
  BY ZenonT(60), <1>1, <1>2 DEF Claims, Untouched
<1> QED
  BY ZenonT(60), <1>1, <1>2, <1>3 DEF Account, Exact, Untouched

\* Giving back one of the owner's claims with ReleaseInternal.
LEMMA ReleaseAccount ==
  ASSUME TypeOK, TypeOK', NEW k \in Key, NEW u \in Txn,
         EntryInv(k), \A t \in Txn : Account(t, k),
         owner[k] = u, ReleaseInternal(k), shared' = shared,
         Claims(u, k) > 0, Claims(u, k)' = Claims(u, k) - 1,
         Waiters(u, k)' = Waiters(u, k),
         \A t \in Txn \ {u} : /\ txn_locks'[t][k] = txn_locks[t][k]
                              /\ Moved(t, k)' = Moved(t, k)
                              /\ Waiters(t, k)' = Waiters(t, k)
  PROVE  EntryInv(k)' /\ \A t \in Txn : Account(t, k)'
<1> DEFINE q == wait_queue[k]
<1>a. /\ q \in Seq(Txn) /\ hold_count[k] \in Nat /\ hold_count[k] > 0
      /\ u # NoTxn
  BY NoneAssumption DEF TypeOK, EntryInv
<1>b. \A t \in Txn : Places(q, t) \in Nat /\ Claims(t, k) \in Nat
  BY ZenonT(60), <1>a, PlacesType, ClaimsType
<1>c. ASSUME NEW t \in Txn \ {u} PROVE Claims(t, k)' = Claims(t, k) /\ Held(t, k) = 0
  BY ZenonT(60) DEF Claims, Held
<1>d. Claims(u, k) <= Places(q, u) + hold_count[k]
  BY ZenonT(60) DEF Account, Held
<1>e. k \notin shared => Claims(u, k) = hold_count[k] /\ Places(q, u) = 0
  BY <1>a, <1>b DEF Account, Exact, Held
<1>f. Claims(u, k)' = 0 => txn_locks'[u][k] = 0 /\ Moved(u, k)' = {}
  BY ZenonT(60), ClaimsTypeNext
<1>1. CASE /\ hold_count[k] > 1
           /\ hold_count' = [hold_count EXCEPT ![k] = @ - 1]
           /\ UNCHANGED <<owner, wait_queue>>
  <2>1. hold_count'[k] = hold_count[k] - 1 /\ owner'[k] = u /\ wait_queue'[k] = q
    BY ZenonT(60), <1>1 DEF TypeOK
  <2>2. EntryInv(k)'
    BY <1>1, <1>a, <2>1 DEF EntryInv
  <2>3. Account(u, k)'
    BY <1>1, <1>a, <1>b, <1>d, <1>e, <2>1 DEF Account, Exact, Held
  <2>4. ASSUME NEW t \in Txn \ {u} PROVE Account(t, k)'
    BY <1>c, <2>1 DEF Account, Exact, Held
  <2> QED
    BY ZenonT(60), <2>2, <2>3, <2>4
<1>2. CASE /\ hold_count[k] = 1
           /\ wait_queue[k] = <<>>
           /\ owner' = [owner EXCEPT ![k] = NoTxn]
           /\ hold_count' = [hold_count EXCEPT ![k] = 0]
           /\ UNCHANGED wait_queue
  <2>1. hold_count'[k] = 0 /\ owner'[k] = NoTxn /\ wait_queue'[k] = <<>> /\ q = <<>>
    BY ZenonT(60), <1>2 DEF TypeOK
  <2>2. EntryInv(k)'
    BY ZenonT(60), <2>1 DEF EntryInv
  <2>3. Places(q, u) = 0
    <3>1. \A i \in 1..Len(q) : q[i] # u
      BY <2>1
    <3> QED
      BY ZenonT(60), <1>a, <3>1, PlacesType
  <2>4. Claims(u, k)' = 0
    BY <1>2, <1>b, <1>d, <2>3
  <2>5. Account(u, k)'
    BY <1>a, <1>f, <2>1, <2>3, <2>4 DEF Account, Exact, Held
  <2>6. ASSUME NEW t \in Txn \ {u} PROVE Account(t, k)'
    BY <1>a, <1>c, <2>1, NoneAssumption DEF Account, Exact, Held
  <2> QED
    BY ZenonT(60), <2>2, <2>5, <2>6
<1>3. CASE /\ hold_count[k] = 1
           /\ wait_queue[k] # <<>>
           /\ owner' = [owner EXCEPT ![k] = Head(wait_queue[k])]
           /\ wait_queue' = [wait_queue EXCEPT ![k] = Tail(@)]
           /\ UNCHANGED hold_count
  <2>0. PICK w \in Txn : w = Head(q)
    BY ZenonT(60), <1>3, <1>a, PlacesTail
  <2>1. hold_count'[k] = 1 /\ owner'[k] = w /\ wait_queue'[k] = Tail(q)
    BY ZenonT(60), <1>3, <2>0 DEF TypeOK
  <2>2. /\ w # NoTxn
        /\ \A t \in Txn : Places(Tail(q), t) = Places(q, t) - IF w = t THEN 1 ELSE 0
    BY ZenonT(60), <1>3, <1>a, <2>0, PlacesTail, NoneAssumption
  <2>3. Places(q, w) > 0
    <3>1. 1 \in 1..Len(q) /\ q[1] = w
      BY <1>3, <1>a, <2>0
    <3>2. Places(q, w) # 0
      BY ZenonT(60), <1>a, <3>1, PlacesType
    <3> QED
      BY <1>b, <2>2, <3>2
  <2> HIDE DEF q
  <2>4. EntryInv(k)'
    BY <2>1, <2>2 DEF EntryInv
  <2>5. ASSUME NEW t \in Txn \ {u}, t # w PROVE Account(t, k)'
    BY <1>b, <1>c, <2>1, <2>2, <2>5 DEF Account, Exact, Held, q
  <2>a. /\ Claims(u, k) \in Nat /\ Places(q, u) \in Nat /\ Claims(u, k) <= Places(q, u) + 1
        /\ Places(wait_queue'[k], u) = Places(q, u) - IF w = u THEN 1 ELSE 0
        /\ k \notin shared => Claims(u, k) = 1 /\ Places(q, u) = 0
        /\ Held(u, k)' = IF w = u THEN 1 ELSE 0
    <3>1. hold_count[k] = 1
      BY ZenonT(60), <1>3
    <3> QED
      BY ZenonT(60), <1>b, <1>d, <1>e, <2>1, <2>2, <3>1 DEF Held
  <2>6. CASE w = u
    <3>1. k \in shared
      BY <1>e, <2>3, <2>6
    <3>2. Account(u, k)'
      BY <2>6, <2>a, <3>1 DEF Account
    <3> QED
      BY ZenonT(60), <2>4, <2>5, <2>6, <3>2
  <2>7. CASE w # u
    <3>1. Account(u, k)'
      <4>1. Claims(u, k)' <= Places(wait_queue'[k], u) + Held(u, k)'
        BY <2>7, <2>a
      <4>2. k \notin shared => Claims(u, k)' = 0 /\ Places(wait_queue'[k], u) = 0
        BY <2>7, <2>a
      <4>3. k \notin shared => \A x, y \in Waiters(u, k)' : x = y
        BY ZenonT(60) DEF Account, Exact
      <4>4. Held(u, k)' = 0
        BY ZenonT(60), <2>7, <2>a
      <4>5. k \notin shared => Exact(u, k)'
        BY <1>f, <2>1, <2>7, <4>2, <4>3, <4>4 DEF Exact
      <4> QED
        BY ZenonT(60), <4>1, <4>5 DEF Account
    <3>2. Account(w, k)'
      <4>1. Claims(w, k)' = Claims(w, k) /\ Held(w, k) = 0 /\ Held(w, k)' = 1
        BY ZenonT(60), <1>c, <2>1, <2>2, <2>7 DEF Held
      <4>2. Claims(w, k)' <= Places(wait_queue'[k], w) + Held(w, k)'
        BY <1>b, <2>1, <2>2, <4>1 DEF Account, q
      <4>3. k \notin shared => Places(wait_queue'[k], w) = 0 /\ Places(q, w) = Claims(w, k)
        <5> SUFFICES ASSUME k \notin shared
                     PROVE  Places(wait_queue'[k], w) = 0 /\ Places(q, w) = Claims(w, k)
          BY ZenonT(60)
        <5>1. Exact(w, k)
          BY ZenonT(60), <2>2 DEF Account
        <5>2. Claims(w, k) <= 1
          <6>1. txn_locks[w][k] = 0 /\ Moved(w, k) = {} /\ \A x, y \in Waiters(w, k) : x = y
            BY ZenonT(60), <2>7, <5>1 DEF Exact
          <6>2. /\ Cardinality(Moved(w, k)) = 0
                /\ Cardinality(Waiters(w, k)) \in Nat /\ Cardinality(Waiters(w, k)) <= 1
            BY ZenonT(60), <6>1, ClaimsType
          <6> QED
            BY <6>1, <6>2 DEF Claims
        <5>3. Claims(w, k) = Places(q, w)
          BY <1>b, <2>2, <4>1, <5>1 DEF Exact, q
        <5> QED
          BY <1>b, <2>1, <2>2, <2>3, <5>2, <5>3
      <4>4. k \notin shared => \A x, y \in Waiters(w, k)' : x = y
        BY ZenonT(60), <2>2, <2>7 DEF Account, Exact
      <4>5. k \notin shared => Claims(w, k)' = Places(wait_queue'[k], w) + Held(w, k)'
        BY <1>b, <2>1, <2>2, <4>1, <4>3
      <4>6. k \notin shared => Exact(w, k)'
        BY ZenonT(60), <2>1, <4>3, <4>4, <4>5 DEF Exact
      <4> QED
        BY ZenonT(60), <4>2, <4>6 DEF Account
    <3> QED
      BY ZenonT(60), <2>4, <2>5, <3>1, <3>2
  <2> QED
    BY ZenonT(60), <2>6, <2>7
<1> QED
  BY <1>1, <1>2, <1>3, <1>a DEF ReleaseInternal

-----------------------------------------------------------------------------
(* The actions *)

Accounts ==
  /\ \A k \in Key : EntryInv(k)
  /\ \A t \in Txn, k \in Key : Account(t, k)

\* The table entry of a key is the one it was.
SameEntry(k) ==
  owner'[k] = owner[k] /\ hold_count'[k] = hold_count[k] /\ wait_queue'[k] = wait_queue[k]

\* Only the account of u and k is touched, and it is in order afterwards.
LEMMA OneAccount ==
  ASSUME TypeOK, TypeOK', Accounts, NEW u \in Txn, NEW k \in Key,
         \A j \in Key \ {k} : SameEntry(j),
         \A t \in Txn, j \in Key : t # u \/ j # k => Untouched(t, j),
         EntryInv(k)', Account(u, k)'
  PROVE  Accounts'
<1>1. \A j \in Key : EntryInv(j)'
  BY ZenonT(60) DEF Accounts, EntryInv, SameEntry
<1>2. ASSUME NEW t \in Txn, NEW j \in Key PROVE Account(t, j)'
  BY ZenonT(60), UntouchedAccount DEF Accounts
<1> QED
  BY ZenonT(60), <1>1, <1>2 DEF Accounts

\* Acquire by the owner: one hold more, one recorded claim more.
LEMMA ReentrantAccounts ==
  ASSUME TypeOK, TypeOK', Accounts, NEW th \in Thread, NEW k \in Key,
         AcquireReentrant(th, k)
  PROVE  Accounts'
<1>0. PICK u \in Txn : u = TxnOf[th]
  BY ZenonT(60), TxnOfAssumption
<1>1. /\ owner[k] = u /\ owner' = owner /\ wait_queue' = wait_queue
      /\ keys' = keys /\ wants' = wants /\ shared' = shared
      /\ hold_count'[k] = hold_count[k] + 1
      /\ \A j \in Key \ {k} : hold_count'[j] = hold_count[j]
      /\ txn_locks'[u][k] = txn_locks[u][k] + 1
      /\ \A t \in Txn, j \in Key : t # u \/ j # k => txn_locks'[t][j] = txn_locks[t][j]
  BY ZenonT(60), <1>0 DEF AcquireReentrant, Record, threadVars, TypeOK
<1>2. \A j \in Key \ {k} : SameEntry(j)
  BY ZenonT(60), <1>1 DEF SameEntry
<1>3. \A t \in Txn, j \in Key : t # u \/ j # k => Untouched(t, j)
  BY ZenonT(60), <1>1 DEF Untouched, Held, Waiting
<1>4. EntryInv(k)'
  BY <1>1, NoneAssumption DEF Accounts, EntryInv, TypeOK
<1>5. /\ Moved(u, k)' = Moved(u, k) /\ Waiters(u, k)' = Waiters(u, k)
      /\ Held(u, k)' = Held(u, k) + 1
  BY ZenonT(60), <1>1 DEF Moved, Waiters, Waiting, Held
<1>6. Claims(u, k)' = Claims(u, k) + 1
  BY <1>1, <1>5, ClaimsType DEF Claims
<1>7. /\ Claims(u, k) \in Nat /\ Held(u, k) \in Nat /\ Places(wait_queue[k], u) \in Nat
  BY ZenonT(60), <1>1, ClaimsType, PlacesType DEF TypeOK, Held
<1>8. Account(u, k)'
  <2>1. Account(u, k)
    BY ZenonT(60) DEF Accounts
  <2>2. Claims(u, k)' <= Places(wait_queue'[k], u) + Held(u, k)'
    BY <1>1, <1>5, <1>6, <1>7, <2>1 DEF Account
  <2>3. k \notin shared => Exact(u, k)'
    BY <1>1, <1>5, <1>6, <1>7, <2>1 DEF Account, Exact
  <2> QED
    BY ZenonT(60), <1>1, <2>2, <2>3 DEF Account
<1> QED
  BY ZenonT(60), <1>2, <1>3, <1>4, <1>8, OneAccount

\* Acquire of a free lock: nobody had a claim to it.
LEMMA FreeAccounts ==
  ASSUME TypeOK, TypeOK', Accounts, NEW th \in Thread, NEW k \in Key,
         AcquireFree(th, k)
  PROVE  Accounts'
<1>0. PICK u \in Txn : u = TxnOf[th]
  BY ZenonT(60), TxnOfAssumption
<1>1. /\ owner[k] = NoTxn /\ owner'[k] = u /\ wait_queue' = wait_queue
      /\ keys' = keys /\ wants' = wants /\ shared' = shared
      /\ hold_count'[k] = 1
      /\ \A j \in Key \ {k} : hold_count'[j] = hold_count[j] /\ owner'[j] = owner[j]
      /\ txn_locks'[u][k] = txn_locks[u][k] + 1
      /\ \A t \in Txn, j \in Key : t # u \/ j # k => txn_locks'[t][j] = txn_locks[t][j]
  BY <1>0 DEF AcquireFree, Record, threadVars, TypeOK
<1>2. \A j \in Key \ {k} : SameEntry(j)
  BY ZenonT(60), <1>1 DEF SameEntry
<1>3. \A t \in Txn, j \in Key : t # u \/ j # k => Untouched(t, j)
  BY ZenonT(60), <1>1, NoneAssumption DEF Untouched, Held, Waiting
<1>4. EntryInv(k)'
  BY <1>1, NoneAssumption DEF EntryInv
<1>5. /\ Moved(u, k)' = Moved(u, k) /\ Waiters(u, k)' = Waiters(u, k)
      /\ Held(u, k)' = 1 /\ Held(u, k) = 0
  BY ZenonT(60), <1>1, NoneAssumption DEF Moved, Waiters, Waiting, Held
<1>6. Places(wait_queue[k], u) = 0
  <2>1. wait_queue[k] = <<>> /\ wait_queue[k] \in Seq(Txn)
    BY ZenonT(60), <1>1 DEF Accounts, EntryInv, TypeOK
  <2>2. \A i \in 1..Len(wait_queue[k]) : wait_queue[k][i] # u
    BY <2>1
  <2> QED
    BY ZenonT(60), <2>1, <2>2, PlacesType
<1>7. Claims(u, k) = 0
  <2>1. Claims(u, k) <= Places(wait_queue[k], u) + Held(u, k)
    BY ZenonT(60) DEF Accounts, Account
  <2> QED
    BY <1>5, <1>6, <2>1, ClaimsType
<1>8. Claims(u, k)' = 1
  BY <1>1, <1>5, <1>7, ClaimsType DEF Claims
<1>9. Waiters(u, k) = {}
  BY ZenonT(60), <1>7, ClaimsType
<1>10. Account(u, k)'
  BY <1>1, <1>5, <1>6, <1>8, <1>9 DEF Account, Exact
<1> QED
  BY ZenonT(60), <1>2, <1>3, <1>4, <1>10, OneAccount

\* Joining the queue: one waiter more, one place more.
LEMMA EnqueueAccounts ==
  ASSUME TypeOK, TypeOK', ThreadInv, Accounts, NEW th \in Thread, NEW k \in Key,
         AcquireEnqueue(th, k)
  PROVE  Accounts'
<1>0. PICK u \in Txn : u = TxnOf[th]
  BY ZenonT(60), TxnOfAssumption
<1>1. /\ owner[k] # u /\ owner[k] # NoTxn /\ owner' = owner /\ hold_count' = hold_count
      /\ keys' = keys /\ txn_locks' = txn_locks
      /\ wait_queue'[k] = Append(wait_queue[k], u)
      /\ \A j \in Key \ {k} : wait_queue'[j] = wait_queue[j]
      /\ wants'[th] = k /\ \A x \in Thread \ {th} : wants'[x] = wants[x]
  BY ZenonT(60), <1>0 DEF AcquireEnqueue, TypeOK
<1>2. wants[th] = NoKey /\ k # NoKey
  BY ZenonT(60), NoneAssumption DEF AcquireEnqueue, MayAcquire, ThreadInv
<1>3. /\ \A j \in Key : j \in shared => j \in shared'
      /\ k \notin shared' => Waiters(u, k) = {}
  BY ZenonT(60), <1>0 DEF AcquireEnqueue, Waiters
<1>4. wait_queue[k] \in Seq(Txn)
  BY ZenonT(60) DEF TypeOK
<1>5. \A j \in Key \ {k} : SameEntry(j)
  BY ZenonT(60), <1>1 DEF SameEntry
<1>6. \A t \in Txn : Places(wait_queue'[k], t) = Places(wait_queue[k], t) + IF u = t THEN 1 ELSE 0
  BY <1>1, <1>4, PlacesAppend
<1>7. \A t \in Txn : Places(wait_queue[k], t) \in Nat
  BY ZenonT(60), <1>4, PlacesType
<1>8. ASSUME NEW t \in Txn, NEW j \in Key, t # u \/ j # k PROVE Untouched(t, j)
  <2>1. owner'[j] = owner[j] /\ Held(t, j)' = Held(t, j)
    BY ZenonT(60), <1>1 DEF Held
  <2>2. Places(wait_queue'[j], t) = Places(wait_queue[j], t)
    <3>1. CASE j = k
      BY <1>6, <1>7, <1>8, <3>1
    <3>2. CASE j # k
      BY ZenonT(60), <1>1, <3>2
    <3> QED
      BY ZenonT(60), <3>1, <3>2
  <2>3. \A x \in Thread : TxnOf[x] = t => (Waiting(x, j) <=> Waiting(x, j)')
    BY ZenonT(60), <1>0, <1>1, <1>2, <1>8, NoneAssumption DEF Waiting
  <2> QED
    BY ZenonT(60), <1>1, <1>3, <2>1, <2>2, <2>3 DEF Untouched
<1>9. EntryInv(k)'
  BY ZenonT(60), <1>1 DEF Accounts, EntryInv
<1>10. Moved(u, k)' = Moved(u, k) /\ Held(u, k)' = 0 /\ Held(u, k) = 0
  BY ZenonT(60), <1>1 DEF Moved, Held
<1>11. Waiters(u, k)' = Waiters(u, k) \cup {th} /\ th \notin Waiters(u, k)
  BY ZenonT(60), <1>0, <1>1, <1>2 DEF Waiters, Waiting
<1>12. Cardinality(Waiters(u, k)') = Cardinality(Waiters(u, k)) + 1
  <2>1. IsFiniteSet(Waiters(u, k))
    BY ZenonT(60), ThreadsFinite DEF Waiters
  <2> QED
    BY ZenonT(60), <1>11, <2>1, FS_AddElement
<1>13. Claims(u, k)' = Claims(u, k) + 1 /\ Claims(u, k) \in Nat
  <2>1. Claims(u, k)' = txn_locks[u][k] + Cardinality(Moved(u, k)) + (Cardinality(Waiters(u, k)) + 1)
    BY ZenonT(60), <1>1, <1>10, <1>12 DEF Claims
  <2>2. /\ txn_locks[u][k] \in Nat /\ Cardinality(Moved(u, k)) \in Nat
        /\ Cardinality(Waiters(u, k)) \in Nat
    BY ZenonT(60), ClaimsType
  <2> QED
    BY <2>1, <2>2 DEF Claims
<1>14. Account(u, k)'
  <2>1. Account(u, k)
    BY ZenonT(60) DEF Accounts
  <2>2. Claims(u, k)' <= Places(wait_queue'[k], u) + Held(u, k)'
    BY <1>6, <1>7, <1>10, <1>13, <2>1 DEF Account
  <2>3. ASSUME k \notin shared' PROVE Exact(u, k)'
    <3>1. k \notin shared
      BY ZenonT(60), <1>3, <2>3
    <3>2. Claims(u, k)' = Places(wait_queue'[k], u) + Held(u, k)'
      BY <1>6, <1>7, <1>10, <1>13, <2>1, <3>1 DEF Account, Exact
    <3>3. \A x, y \in Waiters(u, k)' : x = y
      BY ZenonT(60), <1>3, <1>11, <2>3
    <3>4. owner'[k] # u /\ txn_locks'[u][k] = 0 /\ Moved(u, k)' = {}
      BY ZenonT(60), <1>1, <1>10, <2>1, <3>1 DEF Account, Exact
    <3> QED
      BY ZenonT(60), <3>2, <3>3, <3>4 DEF Exact
  <2> QED
    BY ZenonT(60), <2>2, <2>3 DEF Account
<1> QED
  BY ZenonT(60), <1>5, <1>8, <1>9, <1>14, OneAccount
\* Waking up with the lock: the waiter becomes a recorded claim.
LEMMA GrantedAccounts ==
  ASSUME TypeOK, TypeOK', ThreadInv, Accounts, NEW th \in Thread, AcquireGranted(th)
  PROVE  Accounts'
<1>0. PICK u \in Txn, k \in Key : u = TxnOf[th] /\ k = wants[th]
  BY ZenonT(60), TxnOfAssumption DEF AcquireGranted, ThreadInv, TypeOK
<1>1. /\ owner[k] = u /\ owner' = owner /\ hold_count' = hold_count
      /\ wait_queue' = wait_queue /\ keys' = keys /\ shared' = shared
      /\ txn_locks'[u][k] = txn_locks[u][k] + 1
      /\ \A t \in Txn, j \in Key : t # u \/ j # k => txn_locks'[t][j] = txn_locks[t][j]
      /\ wants'[th] = NoKey /\ \A x \in Thread \ {th} : wants'[x] = wants[x]
  BY ZenonT(60), <1>0 DEF AcquireGranted, Record, Return, entryVars, TypeOK
<1>2. \A j \in Key \ {k} : SameEntry(j)
  BY ZenonT(60), <1>1 DEF SameEntry
<1>3. \A t \in Txn, j \in Key : t # u \/ j # k => Untouched(t, j)
  BY ZenonT(60), <1>0, <1>1, NoneAssumption DEF Untouched, Held, Waiting
<1>4. EntryInv(k)'
  BY ZenonT(60), <1>1 DEF Accounts, EntryInv
<1>5. Moved(u, k)' = Moved(u, k) /\ Held(u, k)' = Held(u, k)
  BY ZenonT(60), <1>1 DEF Moved, Held
<1>6. Waiters(u, k)' = Waiters(u, k) \ {th} /\ th \in Waiters(u, k)
  BY ZenonT(60), <1>0, <1>1, NoneAssumption DEF Waiters, Waiting
<1>7. Cardinality(Waiters(u, k)') = Cardinality(Waiters(u, k)) - 1
  <2>1. IsFiniteSet(Waiters(u, k))
    BY ZenonT(60), ThreadsFinite DEF Waiters
  <2> QED
    BY ZenonT(60), <1>6, <2>1, FS_RemoveElement
<1>8. Claims(u, k)' = Claims(u, k)
  <2>1. Claims(u, k)' = (txn_locks[u][k] + 1) + Cardinality(Moved(u, k))
                          + (Cardinality(Waiters(u, k)) - 1)
    BY ZenonT(60), <1>1, <1>5, <1>7 DEF Claims
  <2>2. /\ txn_locks[u][k] \in Nat /\ Cardinality(Moved(u, k)) \in Nat
        /\ Cardinality(Waiters(u, k)) \in Nat
    BY ZenonT(60), ClaimsType
  <2> QED
    BY <2>1, <2>2 DEF Claims
<1>9. Account(u, k)'
  BY <1>1, <1>5, <1>6, <1>8 DEF Accounts, Account, Exact
<1> QED
  BY ZenonT(60), <1>2, <1>3, <1>4, <1>9, OneAccount

\* Giving up: one waiter less, one place less.
LEMMA TimedOutAccounts ==
  ASSUME TypeOK, TypeOK', ThreadInv, Accounts, NEW th \in Thread, AcquireTimedOut(th)
  PROVE  Accounts'
<1>0. PICK u \in Txn, k \in Key : u = TxnOf[th] /\ k = wants[th]
  BY ZenonT(60), TxnOfAssumption DEF AcquireTimedOut, ThreadInv, TypeOK
<1>1. /\ ~(owner[k] = u /\ hold_count[k] > 0)
      /\ owner' = owner /\ hold_count' = hold_count
      /\ keys' = keys /\ txn_locks' = txn_locks /\ shared' = shared
      /\ wait_queue'[k] = WithoutFirst(wait_queue[k], u)
      /\ \A j \in Key \ {k} : wait_queue'[j] = wait_queue[j]
      /\ wants'[th] = NoKey /\ \A x \in Thread \ {th} : wants'[x] = wants[x]
  BY ZenonT(60), <1>0 DEF AcquireTimedOut, Return, TypeOK
<1>2. owner[k] # u
  BY <1>1, NoneAssumption DEF Accounts, EntryInv, TypeOK
<1>3. wait_queue[k] \in Seq(Txn)
  BY ZenonT(60) DEF TypeOK
<1>4. Moved(u, k)' = Moved(u, k) /\ Held(u, k)' = 0 /\ Held(u, k) = 0
  BY ZenonT(60), <1>1, <1>2 DEF Moved, Held
<1>5. Waiters(u, k)' = Waiters(u, k) \ {th} /\ th \in Waiters(u, k)
  BY ZenonT(60), <1>0, <1>1, NoneAssumption DEF Waiters, Waiting
<1>6. Cardinality(Waiters(u, k)') = Cardinality(Waiters(u, k)) - 1
  <2>1. IsFiniteSet(Waiters(u, k))
    BY ZenonT(60), ThreadsFinite DEF Waiters
  <2> QED
    BY ZenonT(60), <1>5, <2>1, FS_RemoveElement
<1>7. Claims(u, k)' = Claims(u, k) - 1 /\ Claims(u, k) \in Nat /\ Claims(u, k) > 0
  <2>1. Claims(u, k)' = txn_locks[u][k] + Cardinality(Moved(u, k))
                          + (Cardinality(Waiters(u, k)) - 1)
    BY ZenonT(60), <1>1, <1>4, <1>6 DEF Claims
  <2>2. /\ txn_locks[u][k] \in Nat /\ Cardinality(Moved(u, k)) \in Nat
        /\ Cardinality(Waiters(u, k)) \in Nat
    BY ZenonT(60), ClaimsType
  <2>3. Claims(u, k) \in Nat /\ Claims(u, k) # 0
    BY ZenonT(60), <1>5, ClaimsType
  <2> QED
    BY <2>1, <2>2, <2>3 DEF Claims
<1>8. /\ \A t \in Txn : Places(wait_queue[k], t) \in Nat
      /\ Places(wait_queue[k], u) > 0
  <2>1. \A t \in Txn : Places(wait_queue[k], t) \in Nat
    BY ZenonT(60), <1>3, PlacesType
  <2>2. Claims(u, k) <= Places(wait_queue[k], u) + 0
    BY ZenonT(60), <1>4 DEF Accounts, Account
  <2> QED
    BY <1>7, <2>1, <2>2
<1>9. \A t \in Txn : Places(wait_queue'[k], t) = Places(wait_queue[k], t) - IF u = t THEN 1 ELSE 0
  BY <1>1, <1>3, <1>8, PlacesWithoutFirst
<1>10. \A j \in Key \ {k} : SameEntry(j)
  BY ZenonT(60), <1>1 DEF SameEntry
<1>11. ASSUME NEW t \in Txn, NEW j \in Key, t # u \/ j # k PROVE Untouched(t, j)
  <2>1. owner'[j] = owner[j] /\ Held(t, j)' = Held(t, j)
    BY ZenonT(60), <1>1 DEF Held
  <2>2. Places(wait_queue'[j], t) = Places(wait_queue[j], t)
    <3>1. CASE j = k
      BY <1>8, <1>9, <1>11, <3>1
    <3>2. CASE j # k
      BY ZenonT(60), <1>1, <3>2
    <3> QED
      BY ZenonT(60), <3>1, <3>2
  <2>3. \A x \in Thread : TxnOf[x] = t => (Waiting(x, j) <=> Waiting(x, j)')
    BY ZenonT(60), <1>0, <1>1, <1>11, NoneAssumption DEF Waiting
  <2> QED
    BY ZenonT(60), <1>1, <2>1, <2>2, <2>3 DEF Untouched
<1>12. EntryInv(k)'
  <2>1. owner[k] # NoTxn
    <3>1. owner[k] = NoTxn => wait_queue[k] = <<>>
      BY ZenonT(60) DEF Accounts, EntryInv
    <3>2. wait_queue[k] # <<>>
      <4>1. PICK i \in 1..Len(wait_queue[k]) : wait_queue[k][i] = u
        <5>1. Places(wait_queue[k], u) # 0
          BY <1>8
        <5> QED
          BY ZenonT(60), <1>3, <5>1, PlacesType
      <4> QED
        BY <1>3, <4>1
    <3> QED
      BY ZenonT(60), <3>1, <3>2
  <2> QED
    BY ZenonT(60), <1>1, <2>1 DEF Accounts, EntryInv
<1>13. Account(u, k)'
  <2>1. Account(u, k)
    BY ZenonT(60) DEF Accounts
  <2>2. Claims(u, k)' <= Places(wait_queue'[k], u) + Held(u, k)'
    BY <1>4, <1>7, <1>8, <1>9, <2>1 DEF Account
  <2>3. ASSUME k \notin shared PROVE Exact(u, k)'
    <3>1. Claims(u, k)' = Places(wait_queue'[k], u) + Held(u, k)'
      BY <1>4, <1>7, <1>8, <1>9, <2>1, <2>3 DEF Account, Exact
    <3>2. \A x, y \in Waiters(u, k)' : x = y
      BY ZenonT(60), <1>5, <2>1, <2>3 DEF Account, Exact
    <3>3. owner'[k] # u /\ txn_locks'[u][k] = 0 /\ Moved(u, k)' = {}
      BY ZenonT(60), <1>1, <1>2, <1>4, <2>1, <2>3 DEF Account, Exact
    <3> QED
      BY ZenonT(60), <3>1, <3>2, <3>3 DEF Exact
  <2> QED
    BY ZenonT(60), <1>1, <2>2, <2>3 DEF Account
<1> QED
  BY ZenonT(60), <1>10, <1>11, <1>12, <1>13, OneAccount
\* A step that gives one claim of the owner back and touches no other claim.
LEMMA GiveBackAccounts ==
  ASSUME TypeOK, TypeOK', Accounts, NEW u \in Txn, NEW k \in Key,
         owner[k] = u, ReleaseInternal(k), shared' = shared, wants' = wants,
         Claims(u, k) > 0, Claims(u, k)' = Claims(u, k) - 1,
         \A t \in Txn, j \in Key : t # u \/ j # k =>
           /\ txn_locks'[t][j] = txn_locks[t][j]
           /\ \A x \in Thread : TxnOf[x] = t => keys'[x][j] = keys[x][j]
  PROVE  Accounts'
<1>1. \A t \in Txn, j \in Key : Waiters(t, j)' = Waiters(t, j)
  BY ZenonT(60) DEF Waiters, Waiting
<1>2. ASSUME NEW t \in Txn \ {u} PROVE Moved(t, k)' = Moved(t, k)
  <2>1. \A x \in Thread : TxnOf[x] = t => keys'[x][k] = keys[x][k]
    BY ZenonT(60)
  <2>2. keys \in [Thread -> [Key -> Nat]] /\ keys' \in [Thread -> [Key -> Nat]]
    BY ZenonT(60) DEF TypeOK
  <2>3. MovedIn(keys', t, k) = MovedIn(keys, t, k)
    BY <2>1, <2>2, MovedInSame
  <2> QED
    BY <2>3, ClaimsType, ClaimsTypeNext
<1>3. EntryInv(k)' /\ \A t \in Txn : Account(t, k)'
  <2>1. EntryInv(k) /\ \A t \in Txn : Account(t, k)
    BY ZenonT(60) DEF Accounts
  <2> QED
    BY ZenonT(60), <1>1, <1>2, <2>1, ReleaseAccount
<1>4. ASSUME NEW j \in Key \ {k} PROVE SameEntry(j)
  <2>1. /\ owner \in [Key -> Txn \cup {NoTxn}] /\ hold_count \in [Key -> Nat]
        /\ wait_queue \in [Key -> Seq(Txn)]
    BY ZenonT(60) DEF TypeOK
  <2>2. /\ owner' = owner \/ \E o : owner' = [owner EXCEPT ![k] = o]
        /\ hold_count' = hold_count \/ \E n : hold_count' = [hold_count EXCEPT ![k] = n]
        /\ wait_queue' = wait_queue \/ \E q : wait_queue' = [wait_queue EXCEPT ![k] = q]
    BY ZenonT(60) DEF ReleaseInternal, entryVars
  <2> QED
    BY ZenonT(60), <2>1, <2>2 DEF SameEntry
<1>5. ASSUME NEW j \in Key \ {k}, NEW t \in Txn PROVE Account(t, j)'
  <2>1. Account(t, j)
    BY ZenonT(60) DEF Accounts
  <2>2. Untouched(t, j)
    BY ZenonT(60), <1>4 DEF Untouched, SameEntry, Held, Waiting
  <2> QED
    BY ZenonT(60), <2>1, <2>2, UntouchedAccount
<1>6. ASSUME NEW j \in Key \ {k} PROVE EntryInv(j)'
  BY ZenonT(60), <1>4 DEF Accounts, EntryInv, SameEntry
<1> QED
  BY ZenonT(60), <1>3, <1>5, <1>6 DEF Accounts

LEMMA ReleaseAccounts ==
  ASSUME TypeOK, TypeOK', Accounts, NEW th \in Thread, NEW k \in Key, Release(th, k)
  PROVE  Accounts'
<1>0. PICK u \in Txn : u = TxnOf[th]
  BY ZenonT(60), TxnOfAssumption
<1>1. /\ owner[k] = u /\ ReleaseInternal(k) /\ shared' = shared /\ wants' = wants /\ keys' = keys
      /\ txn_locks[u][k] > 0 /\ txn_locks'[u][k] = txn_locks[u][k] - 1
      /\ \A t \in Txn, j \in Key : t # u \/ j # k => txn_locks'[t][j] = txn_locks[t][j]
  BY ZenonT(60), <1>0 DEF Release, threadVars, TypeOK
<1>2. Moved(u, k)' = Moved(u, k) /\ Waiters(u, k)' = Waiters(u, k)
  BY ZenonT(60), <1>1 DEF Moved, Waiters, Waiting
<1>3. Claims(u, k) > 0 /\ Claims(u, k)' = Claims(u, k) - 1
  <2>1. Claims(u, k)' = (txn_locks[u][k] - 1) + Cardinality(Moved(u, k)) + Cardinality(Waiters(u, k))
    BY ZenonT(60), <1>1, <1>2 DEF Claims
  <2>2. /\ txn_locks[u][k] \in Nat /\ Cardinality(Moved(u, k)) \in Nat
        /\ Cardinality(Waiters(u, k)) \in Nat /\ txn_locks[u][k] > 0
    BY ZenonT(60), <1>1, ClaimsType
  <2> QED
    BY <2>1, <2>2 DEF Claims
<1> QED
  BY ZenonT(60), <1>1, <1>3, GiveBackAccounts

\* One key of the list of ReleaseAll: it is given back, or the lock is somebody
\* else's by now, which happens only to a shared key.
LEMMA ReleaseAllKeyAccounts ==
  ASSUME TypeOK, TypeOK', Accounts, NEW th \in Thread, NEW k \in Key, ReleaseAllKey(th, k)
  PROVE  Accounts'
<1>0. PICK u \in Txn : u = TxnOf[th]
  BY ZenonT(60), TxnOfAssumption
<1>1. /\ shared' = shared /\ wants' = wants /\ txn_locks' = txn_locks
      /\ keys[th][k] > 0 /\ keys'[th][k] = keys[th][k] - 1
      /\ \A x \in Thread, j \in Key : x # th \/ j # k => keys'[x][j] = keys[x][j]
  BY ZenonT(60) DEF ReleaseAllKey, TypeOK
<1>2. Waiters(u, k)' = Waiters(u, k)
  BY ZenonT(60), <1>1 DEF Waiters, Waiting
<1>3. /\ Moved(u, k) # {}
      /\ Cardinality(Moved(u, k)') = Cardinality(Moved(u, k)) - 1
  <2>1. keys \in [Thread -> [Key -> Nat]] /\ keys' \in [Thread -> [Key -> Nat]]
    BY ZenonT(60) DEF TypeOK
  <2>2. \A x \in Thread \ {th} : keys'[x][k] = keys[x][k]
    BY ZenonT(60), <1>1
  <2>3. /\ MovedIn(keys, u, k) # {}
        /\ Cardinality(MovedIn(keys', u, k)) = Cardinality(MovedIn(keys, u, k)) - 1
    BY ZenonT(60), <1>0, <1>1, <2>1, <2>2, MovedInDrop
  <2> QED
    BY ZenonT(60), <2>3, ClaimsType, ClaimsTypeNext
<1>4. Claims(u, k) \in Nat /\ Claims(u, k) > 0 /\ Claims(u, k)' = Claims(u, k) - 1
  <2>1. Claims(u, k)' = txn_locks[u][k] + (Cardinality(Moved(u, k)) - 1) + Cardinality(Waiters(u, k))
    BY ZenonT(60), <1>1, <1>2, <1>3 DEF Claims
  <2>2. /\ txn_locks[u][k] \in Nat /\ Cardinality(Moved(u, k)) \in Nat
        /\ Cardinality(Waiters(u, k)) \in Nat
    BY ZenonT(60), ClaimsType
  <2>3. Claims(u, k) \in Nat /\ Claims(u, k) # 0
    BY ZenonT(60), <1>3, ClaimsType
  <2> QED
    BY <2>1, <2>2, <2>3 DEF Claims
<1>5. \A t \in Txn, j \in Key : t # u \/ j # k =>
        /\ txn_locks'[t][j] = txn_locks[t][j]
        /\ \A x \in Thread : TxnOf[x] = t => keys'[x][j] = keys[x][j]
  BY ZenonT(60), <1>0, <1>1
<1>6. CASE owner[k] = u
  <2>1. ReleaseInternal(k)
    BY ZenonT(60), <1>0, <1>6 DEF ReleaseAllKey
  <2> QED
    BY ZenonT(60), <1>1, <1>4, <1>5, <1>6, <2>1, GiveBackAccounts
<1>7. CASE owner[k] # u
  <2>1. owner' = owner /\ hold_count' = hold_count /\ wait_queue' = wait_queue
    BY ZenonT(60), <1>0, <1>7 DEF ReleaseAllKey, entryVars
  <2>2. Account(u, k)
    BY ZenonT(60) DEF Accounts
  <2>3. k \in shared'
    BY ZenonT(60), <1>1, <1>3, <1>7, <2>2 DEF Account, Exact
  <2>4. Account(u, k)'
    <3>1. Places(wait_queue[k], u) \in Nat /\ Held(u, k) = 0 /\ Held(u, k)' = 0
      <4>1. wait_queue[k] \in Seq(Txn)
        BY ZenonT(60) DEF TypeOK
      <4> QED
        BY ZenonT(60), <1>7, <2>1, <4>1, PlacesType DEF Held
    <3> QED
      BY <1>4, <2>1, <2>2, <2>3, <3>1 DEF Account
  <2>5. \A j \in Key \ {k} : SameEntry(j)
    BY ZenonT(60), <2>1 DEF SameEntry
  <2>6. \A t \in Txn, j \in Key : t # u \/ j # k => Untouched(t, j)
    BY <1>1, <1>5, <2>1 DEF Untouched, Held, Waiting
  <2>7. EntryInv(k)'
    BY ZenonT(60), <2>1 DEF Accounts, EntryInv
  <2> QED
    BY ZenonT(60), <2>4, <2>5, <2>6, <2>7, OneAccount
<1> QED
  BY ZenonT(60), <1>6, <1>7
\* Moving the list out: every recorded claim becomes a moved one.
LEMMA ReleaseAllMoveAccounts ==
  ASSUME TypeOK, TypeOK', ThreadInv, Accounts, NEW th \in Thread, ReleaseAllMove(th)
  PROVE  Accounts'
<1>0. PICK u \in Txn : u = TxnOf[th]
  BY ZenonT(60), TxnOfAssumption
<1>1. /\ owner' = owner /\ hold_count' = hold_count /\ wait_queue' = wait_queue
      /\ wants' = wants /\ shared' = shared
      /\ \A k \in Key : keys'[th][k] = txn_locks[u][k] /\ txn_locks'[u][k] = 0
      /\ \A x \in Thread \ {th} : keys'[x] = keys[x]
      /\ \A t \in Txn \ {u} : txn_locks'[t] = txn_locks[t]
  BY ZenonT(60), <1>0 DEF ReleaseAllMove, entryVars, TypeOK, NoKeys
<1>2. \A k \in Key : keys[th][k] = 0
  BY DEF ReleaseAllMove, ThreadInv, NoKeys
<1>3. \A k \in Key : EntryInv(k)'
  BY ZenonT(60), <1>1 DEF Accounts, EntryInv
<1>4. ASSUME NEW t \in Txn \ {u}, NEW k \in Key PROVE Account(t, k)'
  <2>1. Untouched(t, k)
    BY ZenonT(60), <1>0, <1>1 DEF Untouched, Held, Waiting
  <2>2. Account(t, k)
    BY ZenonT(60) DEF Accounts
  <2> QED
    BY ZenonT(60), <2>1, <2>2, UntouchedAccount
<1>5. ASSUME NEW k \in Key PROVE Account(u, k)'
  <2>1. Cardinality(Moved(u, k)') = Cardinality(Moved(u, k)) + txn_locks[u][k]
    <3>1. keys \in [Thread -> [Key -> Nat]] /\ keys' \in [Thread -> [Key -> Nat]]
      BY ZenonT(60) DEF TypeOK
    <3>2. Cardinality(MovedIn(keys', u, k)) = Cardinality(MovedIn(keys, u, k)) + keys'[th][k]
      BY ZenonT(60), <1>0, <1>1, <1>2, <3>1, MovedInTake
    <3> QED
      BY ZenonT(60), <1>1, <3>2, ClaimsType, ClaimsTypeNext
  <2>2. Waiters(u, k)' = Waiters(u, k) /\ Held(u, k)' = Held(u, k)
    BY ZenonT(60), <1>1 DEF Waiters, Waiting, Held
  <2>3. /\ txn_locks[u][k] \in Nat /\ Cardinality(Moved(u, k)) \in Nat
        /\ Cardinality(Waiters(u, k)) \in Nat
        /\ Moved(u, k) = {} => Cardinality(Moved(u, k)) = 0
    BY ZenonT(60), ClaimsType
  <2>4. Claims(u, k)' = Claims(u, k)
    <3>1. Claims(u, k)' = 0 + (Cardinality(Moved(u, k)) + txn_locks[u][k]) + Cardinality(Waiters(u, k))
      BY ZenonT(60), <1>1, <2>1, <2>2 DEF Claims
    <3> QED
      BY <2>3, <3>1 DEF Claims
  <2>5. txn_locks[u][k] = 0 /\ Moved(u, k) = {} => Moved(u, k)' = {}
    <3>1. keys' \in [Thread -> [Key -> Nat]]
      BY ZenonT(60) DEF TypeOK
    <3>2. Cardinality(MovedIn(keys', u, k)) = 0 <=> MovedIn(keys', u, k) = {}
      BY ZenonT(60), <3>1, MovedInType
    <3> QED
      BY <2>1, <2>3, <3>2, ClaimsTypeNext
  <2>6. Account(u, k)
    BY ZenonT(60) DEF Accounts
  <2> QED
    BY ZenonT(60), <1>1, <2>2, <2>4, <2>5, <2>6 DEF Account, Exact
<1> QED
  BY ZenonT(60), <1>3, <1>4, <1>5 DEF Accounts

\* Nothing an account is about changes.
LEMMA NoAccountChanges ==
  ASSUME TypeOK, TypeOK', Accounts, UNCHANGED <<entryVars, txn_locks, wants, keys, shared>>
  PROVE  Accounts'
<1>1. \A t \in Txn, k \in Key : Untouched(t, k)
  BY ZenonT(60) DEF Untouched, Held, Waiting, entryVars
<1>2. \A t \in Txn, k \in Key : Account(t, k)'
  BY ZenonT(60), <1>1, UntouchedAccount DEF Accounts
<1>3. \A k \in Key : EntryInv(k)'
  BY ZenonT(60) DEF Accounts, EntryInv, entryVars
<1> QED
  BY ZenonT(60), <1>2, <1>3 DEF Accounts
-----------------------------------------------------------------------------
\* What ReleaseInternal leaves in the table has its type.
LEMMA ReleaseInternalType ==
  ASSUME TypeOK, NEW k \in Key, ReleaseInternal(k)
  PROVE  /\ owner' \in [Key -> Txn \cup {NoTxn}]
         /\ hold_count' \in [Key -> Nat]
         /\ wait_queue' \in [Key -> Seq(Txn)]
<1>1. /\ owner \in [Key -> Txn \cup {NoTxn}] /\ hold_count \in [Key -> Nat]
      /\ wait_queue \in [Key -> Seq(Txn)]
  BY ZenonT(60) DEF TypeOK
<1>2. CASE hold_count[k] = 0 /\ UNCHANGED entryVars
  BY ZenonT(60), <1>1, <1>2 DEF entryVars
<1>3. CASE /\ hold_count[k] > 1
           /\ hold_count' = [hold_count EXCEPT ![k] = @ - 1]
           /\ UNCHANGED <<owner, wait_queue>>
  <2>1. hold_count[k] - 1 \in Nat
    BY <1>1, <1>3
  <2> QED
    BY ZenonT(60), <1>1, <1>3, <2>1
<1>4. CASE /\ hold_count[k] = 1
           /\ wait_queue[k] = <<>>
           /\ owner' = [owner EXCEPT ![k] = NoTxn]
           /\ hold_count' = [hold_count EXCEPT ![k] = 0]
           /\ UNCHANGED wait_queue
  BY ZenonT(60), <1>1, <1>4
<1>5. CASE /\ hold_count[k] = 1
           /\ wait_queue[k] # <<>>
           /\ owner' = [owner EXCEPT ![k] = Head(wait_queue[k])]
           /\ wait_queue' = [wait_queue EXCEPT ![k] = Tail(@)]
           /\ UNCHANGED hold_count
  <2>1. Head(wait_queue[k]) \in Txn /\ Tail(wait_queue[k]) \in Seq(Txn)
    BY ZenonT(60), <1>1, <1>5, PlacesTail
  <2> QED
    BY ZenonT(60), <1>1, <1>5, <2>1
<1> QED
  BY ZenonT(60), <1>2, <1>3, <1>4, <1>5 DEF ReleaseInternal

LEMMA TypeNext ==
  ASSUME TypeOK, ThreadInv, [Next]_vars
  PROVE  TypeOK'
<1>a. /\ owner \in [Key -> Txn \cup {NoTxn}] /\ hold_count \in [Key -> Nat]
      /\ wait_queue \in [Key -> Seq(Txn)] /\ txn_locks \in [Txn -> [Key -> Nat]]
      /\ pc \in [Thread -> {"idle", "waiting", "moved"}]
      /\ wants \in [Thread -> Key \cup {NoKey}]
      /\ keys \in [Thread -> [Key -> Nat]] /\ mu \in Thread \cup {NoThread}
  BY ZenonT(60) DEF TypeOK
<1>b. \A th \in Thread : TxnOf[th] \in Txn
  BY ZenonT(60), TxnOfAssumption
<1>c. ASSUME NEW t \in Txn, NEW k \in Key, Record(t, k)
      PROVE  txn_locks' \in [Txn -> [Key -> Nat]]
  <2>1. txn_locks[t][k] + 1 \in Nat
    BY <1>a
  <2> QED
    BY ZenonT(60), <1>a, <1>c, <2>1 DEF Record
<1>d. ASSUME NEW th \in Thread, Return(th)
      PROVE  pc' \in [Thread -> {"idle", "waiting", "moved"}] /\ wants' \in [Thread -> Key \cup {NoKey}]
  BY ZenonT(60), <1>a, <1>d DEF Return
<1>1. ASSUME NEW th \in Thread, NEW k \in Key, AcquireReentrant(th, k) PROVE TypeOK'
  <2>1. hold_count' \in [Key -> Nat]
    BY <1>1, <1>a DEF AcquireReentrant
  <2>2. txn_locks' \in [Txn -> [Key -> Nat]]
    BY ZenonT(60), <1>1, <1>b, <1>c DEF AcquireReentrant
  <2> QED
    BY ZenonT(60), <1>1, <1>a, <2>1, <2>2 DEF AcquireReentrant, TypeOK, threadVars
<1>2. ASSUME NEW th \in Thread, NEW k \in Key, AcquireFree(th, k) PROVE TypeOK'
  <2>1. hold_count' \in [Key -> Nat] /\ owner' \in [Key -> Txn \cup {NoTxn}]
    BY ZenonT(60), <1>2, <1>a, <1>b DEF AcquireFree
  <2>2. txn_locks' \in [Txn -> [Key -> Nat]]
    BY ZenonT(60), <1>2, <1>b, <1>c DEF AcquireFree
  <2> QED
    BY ZenonT(60), <1>2, <1>a, <2>1, <2>2 DEF AcquireFree, TypeOK, threadVars
<1>3. ASSUME NEW th \in Thread, NEW k \in Key, AcquireEnqueue(th, k) PROVE TypeOK'
  <2>1. wait_queue' \in [Key -> Seq(Txn)]
    <3>1. Append(wait_queue[k], TxnOf[th]) \in Seq(Txn)
      BY <1>a, <1>b
    <3> QED
      BY ZenonT(60), <1>3, <1>a, <3>1 DEF AcquireEnqueue
  <2>2. pc' \in [Thread -> {"idle", "waiting", "moved"}] /\ wants' \in [Thread -> Key \cup {NoKey}]
    BY ZenonT(60), <1>3, <1>a DEF AcquireEnqueue
  <2> QED
    BY ZenonT(60), <1>3, <1>a, <2>1, <2>2 DEF AcquireEnqueue, TypeOK
<1>4. ASSUME NEW th \in Thread, NEW k \in Key, Release(th, k) PROVE TypeOK'
  <2>1. txn_locks' \in [Txn -> [Key -> Nat]]
    <3>1. txn_locks[TxnOf[th]][k] - 1 \in Nat
      BY <1>4, <1>a, <1>b DEF Release
    <3> QED
      BY ZenonT(60), <1>4, <1>a, <1>b, <3>1 DEF Release
  <2>2. ReleaseInternal(k)
    BY ZenonT(60), <1>4 DEF Release
  <2> QED
    BY ZenonT(60), <1>4, <1>a, <2>1, <2>2, ReleaseInternalType DEF Release, TypeOK, threadVars
<1>5. ASSUME NEW th \in Thread, NEW k \in Key, ReleaseAllKey(th, k) PROVE TypeOK'
  <2>1. keys' \in [Thread -> [Key -> Nat]]
    <3>1. keys[th][k] - 1 \in Nat
      BY <1>5, <1>a DEF ReleaseAllKey
    <3> QED
      BY ZenonT(60), <1>5, <1>a, <3>1 DEF ReleaseAllKey
  <2>2. CASE owner[k] = TxnOf[th]
    <3>1. ReleaseInternal(k)
      BY ZenonT(60), <1>5, <2>2 DEF ReleaseAllKey
    <3> QED
      BY ZenonT(60), <1>5, <1>a, <2>1, <3>1, ReleaseInternalType DEF ReleaseAllKey, TypeOK
  <2>3. CASE owner[k] # TxnOf[th]
    BY ZenonT(60), <1>5, <1>a, <2>1, <2>3 DEF ReleaseAllKey, TypeOK, entryVars
  <2> QED
    BY ZenonT(60), <2>2, <2>3
<1>6. ASSUME NEW th \in Thread, AcquireGranted(th) PROVE TypeOK'
  <2>1. PICK k \in Key : k = wants[th]
    BY ZenonT(60), <1>6, <1>a DEF AcquireGranted, ThreadInv
  <2>2. txn_locks' \in [Txn -> [Key -> Nat]]
    BY ZenonT(60), <1>6, <1>b, <1>c, <2>1 DEF AcquireGranted
  <2> QED
    BY ZenonT(60), <1>6, <1>a, <1>d, <2>2 DEF AcquireGranted, TypeOK, entryVars
<1>7. ASSUME NEW th \in Thread, AcquireTimedOut(th) PROVE TypeOK'
  <2>1. PICK k \in Key : k = wants[th]
    BY ZenonT(60), <1>7, <1>a DEF AcquireTimedOut, ThreadInv
  <2>2. WithoutFirst(wait_queue[k], TxnOf[th]) \in Seq(Txn)
    BY ZenonT(60), <1>a, <1>b, <2>1, PlacesWithoutFirst
  <2>3. wait_queue' \in [Key -> Seq(Txn)]
    BY ZenonT(60), <1>7, <1>a, <2>1, <2>2 DEF AcquireTimedOut
  <2> QED
    BY ZenonT(60), <1>7, <1>a, <1>d, <2>3 DEF AcquireTimedOut, TypeOK
<1>8. ASSUME NEW th \in Thread, ReleaseAllMove(th) PROVE TypeOK'
  BY ZenonT(60), <1>8, <1>a, <1>b DEF ReleaseAllMove, TypeOK, NoKeys, entryVars
<1>9. ASSUME NEW th \in Thread, ReleaseAllLock(th) \/ ReleaseAllDone(th) PROVE TypeOK'
  BY ZenonT(60), <1>9, <1>a DEF ReleaseAllLock, ReleaseAllDone, TypeOK, entryVars
<1>10. CASE UNCHANGED vars
  BY ZenonT(60), <1>10, <1>a DEF vars, entryVars, threadVars, TypeOK
<1> QED
  BY ZenonT(60), <1>1, <1>2, <1>3, <1>4, <1>5, <1>6, <1>7, <1>8, <1>9, <1>10 DEF Next
LEMMA ThreadNext ==
  ASSUME TypeOK, ThreadInv, [Next]_vars
  PROVE  ThreadInv'
<1>a. pc \in [Thread -> {"idle", "waiting", "moved"}] /\ wants \in [Thread -> Key \cup {NoKey}]
      /\ keys \in [Thread -> [Key -> Nat]] /\ mu \in Thread \cup {NoThread}
  BY ZenonT(60) DEF TypeOK
<1>b. NoKey \notin Key /\ NoThread \notin Thread
  BY ZenonT(60), NoneAssumption
<1>1. ASSUME UNCHANGED threadVars PROVE ThreadInv'
  BY ZenonT(60), <1>1 DEF ThreadInv, threadVars
<1>2. ASSUME NEW th \in Thread, NEW k \in Key, AcquireEnqueue(th, k) PROVE ThreadInv'
  BY ZenonT(60), <1>2, <1>a, <1>b DEF AcquireEnqueue, MayAcquire, ThreadInv
<1>3. ASSUME NEW th \in Thread, NEW k \in Key, ReleaseAllKey(th, k) PROVE ThreadInv'
  <2>1. pc[th] = "moved" /\ pc' = pc /\ wants' = wants /\ mu' = mu
    BY ZenonT(60), <1>3 DEF ReleaseAllKey, ThreadInv
  <2>2. \A x \in Thread \ {th} : keys'[x] = keys[x]
    BY ZenonT(60), <1>3, <1>a DEF ReleaseAllKey
  <2> QED
    BY ZenonT(60), <2>1, <2>2 DEF ThreadInv
<1>4. ASSUME NEW th \in Thread, AcquireGranted(th) \/ AcquireTimedOut(th) PROVE ThreadInv'
  <2>1. pc[th] = "waiting" /\ Return(th) /\ keys' = keys /\ mu' = mu /\ mu = NoThread
    BY ZenonT(60), <1>4 DEF AcquireGranted, AcquireTimedOut
  <2> QED
    BY ZenonT(60), <1>a, <1>b, <2>1 DEF Return, ThreadInv
<1>5. ASSUME NEW th \in Thread, ReleaseAllMove(th) PROVE ThreadInv'
  BY ZenonT(60), <1>5, <1>a, <1>b DEF ReleaseAllMove, ThreadInv
<1>6. ASSUME NEW th \in Thread, ReleaseAllLock(th) PROVE ThreadInv'
  BY ZenonT(60), <1>6, <1>a, <1>b DEF ReleaseAllLock, ThreadInv
<1>7. ASSUME NEW th \in Thread, ReleaseAllDone(th) PROVE ThreadInv'
  BY ZenonT(60), <1>7, <1>a, <1>b DEF ReleaseAllDone, ThreadInv
<1>8. ASSUME NEW th \in Thread, NEW k \in Key,
             AcquireReentrant(th, k) \/ AcquireFree(th, k) \/ Release(th, k)
      PROVE  ThreadInv'
  BY ZenonT(60), <1>1, <1>8 DEF AcquireReentrant, AcquireFree, Release
<1>9. CASE UNCHANGED vars
  BY ZenonT(60), <1>1, <1>9 DEF vars, threadVars
<1> QED
  BY ZenonT(60), <1>2, <1>3, <1>4, <1>5, <1>6, <1>7, <1>8, <1>9 DEF Next

LEMMA AccountsNext ==
  ASSUME TypeOK, TypeOK', ThreadInv, Accounts, [Next]_vars
  PROVE  Accounts'
<1>1. ASSUME NEW th \in Thread, NEW k \in Key,
             \/ AcquireReentrant(th, k) \/ AcquireFree(th, k) \/ AcquireEnqueue(th, k)
             \/ Release(th, k) \/ ReleaseAllKey(th, k)
      PROVE  Accounts'
  BY ZenonT(60), <1>1, ReentrantAccounts, FreeAccounts, EnqueueAccounts, ReleaseAccounts, ReleaseAllKeyAccounts
<1>2. ASSUME NEW th \in Thread, AcquireGranted(th) \/ AcquireTimedOut(th) \/ ReleaseAllMove(th)
      PROVE  Accounts'
  BY ZenonT(60), <1>2, GrantedAccounts, TimedOutAccounts, ReleaseAllMoveAccounts
<1>3. ASSUME UNCHANGED <<entryVars, txn_locks, wants, keys, shared>> PROVE Accounts'
  BY ZenonT(60), <1>3, NoAccountChanges
<1>4. ASSUME NEW th \in Thread, ReleaseAllLock(th) \/ ReleaseAllDone(th) PROVE Accounts'
  BY ZenonT(60), <1>3, <1>4 DEF ReleaseAllLock, ReleaseAllDone
<1>5. CASE UNCHANGED vars
  BY ZenonT(60), <1>3, <1>5 DEF vars, threadVars
<1> QED
  BY ZenonT(60), <1>1, <1>2, <1>4, <1>5 DEF Next

\* At the start there are no claims, no holds and no places.
LEMMA InitInv ==
  ASSUME Init
  PROVE  TypeOK /\ LockInv
<1>1. TypeOK
  <2>1. <<>> \in Seq(Txn)
    OBVIOUS
  <2> QED
    BY ZenonT(60), <2>1 DEF Init, TypeOK, NoKeys
<1>2. ThreadInv
  BY ZenonT(60), NoneAssumption DEF Init, ThreadInv
<1>3. \A k \in Key : EntryInv(k)
  BY ZenonT(60) DEF Init, EntryInv
<1>4. ASSUME NEW t \in Txn, NEW k \in Key PROVE Account(t, k)
  <2>1. owner[k] # t /\ wait_queue[k] = <<>> /\ txn_locks[t][k] = 0
    BY ZenonT(60), NoneAssumption DEF Init, NoKeys
  <2>2. Places(wait_queue[k], t) = 0
    <3>1. wait_queue[k] \in Seq(Txn) /\ \A i \in 1..Len(wait_queue[k]) : wait_queue[k][i] # t
      BY <2>1
    <3> QED
      BY ZenonT(60), <3>1, PlacesType
  <2>3. Waiters(t, k) = {}
    BY ZenonT(60), NoneAssumption DEF Init, Waiters, Waiting
  <2>4. Moved(t, k) = {}
    <3>1. keys \in [Thread -> [Key -> Nat]] /\ \A th \in Thread : keys[th][k] = 0
      BY ZenonT(60) DEF Init, NoKeys
    <3>2. MovedIn(keys, t, k) = {}
      BY ZenonT(60), <3>1, MovedInType
    <3> QED
      BY ZenonT(60), <1>1, <3>2, ClaimsType
  <2>5. Claims(t, k) = 0
    BY ZenonT(60), <1>1, <2>1, <2>3, <2>4, ClaimsType
  <2> QED
    BY <2>1, <2>2, <2>3, <2>4, <2>5 DEF Account, Exact, Held
<1> QED
  BY ZenonT(60), <1>1, <1>2, <1>3, <1>4 DEF LockInv

\* The accounts are in order in every reachable state.
THEOREM AccountsAreInOrder == Spec => [](TypeOK /\ LockInv)
<1>1. Init => TypeOK /\ LockInv
  BY ZenonT(60), InitInv
<1>2. TypeOK /\ LockInv /\ [Next]_vars => TypeOK' /\ LockInv'
  <2> SUFFICES ASSUME TypeOK, LockInv, [Next]_vars PROVE TypeOK' /\ LockInv'
    BY ZenonT(60)
  <2>1. ThreadInv /\ Accounts
    BY ZenonT(60) DEF LockInv, Accounts
  <2>2. TypeOK'
    BY ZenonT(60), <2>1, TypeNext
  <2>3. ThreadInv'
    BY ZenonT(60), <2>1, ThreadNext
  <2>4. Accounts'
    BY ZenonT(60), <2>1, <2>2, AccountsNext
  <2> QED
    BY ZenonT(60), <2>2, <2>3, <2>4 DEF LockInv, Accounts
<1> QED
  BY <1>1, <1>2, PTL DEF Spec

\* Mutual exclusion: who was told that it has the lock owns it.
THEOREM MutualExclusion == Spec => [](TypeOK /\ RecordedIsOwned)
<1>1. TypeOK /\ LockInv => RecordedIsOwned
  BY DEF LockInv, Account, Exact, RecordedIsOwned, TypeOK
<1> QED
  BY <1>1, AccountsAreInOrder, PTL

\* The hold count is what the owner still owes: no lock is freed under its owner
\* and none is held for nobody.
THEOREM HoldsAreOwed == Spec => []HoldCountMatchesClaims
<1>1. ASSUME TypeOK, LockInv PROVE HoldCountMatchesClaims
  <2> SUFFICES ASSUME NEW k \in Key \ shared, owner[k] # NoTxn
               PROVE  hold_count[k] = Claims(owner[k], k)
    BY ZenonT(60), <1>1 DEF LockInv, EntryInv, HoldCountMatchesClaims
  <2>1. PICK u \in Txn : u = owner[k]
    BY ZenonT(60), <1>1 DEF TypeOK
  <2>2. Exact(u, k)
    BY ZenonT(60), <1>1 DEF LockInv, Account
  <2>3. hold_count[k] \in Nat
    BY ZenonT(60), <1>1 DEF TypeOK
  <2> QED
    BY <2>1, <2>2, <2>3 DEF Exact, Held
<1> QED
  BY <1>1, AccountsAreInOrder, PTL

\* Whoever is blocked is queued or owns the lock, and nobody is queued who has
\* stopped waiting.
THEOREM QueueIsTheWaiters == Spec => []QueueMatchesWaiters
<1>1. ASSUME TypeOK, LockInv PROVE QueueMatchesWaiters
  <2> SUFFICES ASSUME NEW k \in Key
               PROVE  /\ \A th \in Thread : Waiting(th, k) =>
                           \/ owner[k] = TxnOf[th]
                           \/ \E i \in DOMAIN wait_queue[k] : wait_queue[k][i] = TxnOf[th]
                      /\ k \notin shared => \A i \in DOMAIN wait_queue[k] :
                           \E th \in Thread : TxnOf[th] = wait_queue[k][i] /\ Waiting(th, k)
    BY ZenonT(60) DEF QueueMatchesWaiters
  <2>a. wait_queue[k] \in Seq(Txn) /\ DOMAIN wait_queue[k] = 1..Len(wait_queue[k])
    BY <1>1 DEF TypeOK
  <2>1. ASSUME NEW th \in Thread, Waiting(th, k), owner[k] # TxnOf[th]
        PROVE  \E i \in DOMAIN wait_queue[k] : wait_queue[k][i] = TxnOf[th]
    <3>1. PICK u \in Txn : u = TxnOf[th]
      BY ZenonT(60), TxnOfAssumption
    <3>2. Claims(u, k) \in Nat /\ Claims(u, k) # 0
      <4>1. th \in Waiters(u, k)
        BY ZenonT(60), <2>1, <3>1 DEF Waiters
      <4> QED
        BY ZenonT(60), <1>1, <4>1, ClaimsType
    <3>3. Claims(u, k) <= Places(wait_queue[k], u) + 0
      BY ZenonT(60), <1>1, <2>1, <3>1 DEF LockInv, Account, Held
    <3>4. Places(wait_queue[k], u) # 0
      BY <3>2, <3>3
    <3> QED
      BY ZenonT(60), <2>a, <3>1, <3>4, PlacesType
  <2>2. ASSUME k \notin shared, NEW i \in DOMAIN wait_queue[k]
        PROVE  \E th \in Thread : TxnOf[th] = wait_queue[k][i] /\ Waiting(th, k)
    <3>1. PICK u \in Txn : u = wait_queue[k][i]
      BY <2>a
    <3>2. Exact(u, k)
      BY ZenonT(60), <1>1, <2>2 DEF LockInv, Account
    <3>3. Places(wait_queue[k], u) \in Nat /\ Places(wait_queue[k], u) # 0
      BY ZenonT(60), <2>a, <3>1, PlacesType
    <3>4. owner[k] # u /\ txn_locks[u][k] = 0 /\ Moved(u, k) = {}
      BY ZenonT(60), <3>2, <3>3 DEF Exact
    <3>5. Claims(u, k) # 0
      BY <3>2, <3>3, <3>4 DEF Exact, Held
    <3>6. Waiters(u, k) # {}
      BY ZenonT(60), <1>1, <3>4, <3>5, ClaimsType
    <3> QED
      BY ZenonT(60), <3>1, <3>6 DEF Waiters
  <2> QED
    BY ZenonT(60), <2>1, <2>2
<1> QED
  BY <1>1, AccountsAreInOrder, PTL

\* Nobody overtakes the queue: a lock changes hands to the front of its queue.
THEOREM HandOversAreFifo == Spec => HandOverIsFifo
<1> DEFINE Fifo == \A k \in Key :
             owner'[k] \notin {owner[k], NoTxn} =>
               \/ wait_queue[k] = <<>>
               \/ owner[k] # NoTxn /\ owner'[k] = Head(wait_queue[k])
<1>1. ASSUME TypeOK, LockInv, [Next]_vars PROVE Fifo
  <2> SUFFICES ASSUME NEW k \in Key, owner'[k] \notin {owner[k], NoTxn}, wait_queue[k] # <<>>
               PROVE  owner[k] # NoTxn /\ owner'[k] = Head(wait_queue[k])
    BY ZenonT(60)
  <2>1. owner[k] # NoTxn /\ owner \in [Key -> Txn \cup {NoTxn}]
    BY ZenonT(60), <1>1 DEF LockInv, EntryInv, TypeOK
  <2>2. ASSUME NEW j \in Key, ReleaseInternal(j) PROVE owner'[k] = Head(wait_queue[k])
    BY ZenonT(60), <2>1, <2>2 DEF ReleaseInternal, entryVars
  <2>3. ASSUME NEW th \in Thread, NEW j \in Key, AcquireFree(th, j) PROVE FALSE
    BY ZenonT(60), <2>1, <2>3 DEF AcquireFree
  <2>4. ASSUME NEW th \in Thread, NEW j \in Key, Release(th, j) \/ ReleaseAllKey(th, j)
        PROVE  owner'[k] = Head(wait_queue[k])
    BY ZenonT(60), <2>2, <2>4 DEF Release, ReleaseAllKey, entryVars
  <2>5. owner' # owner
    BY ZenonT(60)
  <2>6. PICK th \in Thread :
          \E j \in Key : AcquireFree(th, j) \/ Release(th, j) \/ ReleaseAllKey(th, j)
    BY ZenonT(60), <1>1, <2>5 DEF Next, vars, entryVars, AcquireReentrant, AcquireEnqueue, AcquireGranted,
                      AcquireTimedOut, ReleaseAllMove, ReleaseAllLock, ReleaseAllDone
  <2> QED
    BY ZenonT(60), <2>1, <2>3, <2>4, <2>6
<1>2. TypeOK /\ LockInv /\ [Next]_vars => [Fifo]_vars
  BY ZenonT(60), <1>1
<1> QED
  BY <1>2, AccountsAreInOrder, PTL DEF Spec, HandOverIsFifo
=============================================================================
