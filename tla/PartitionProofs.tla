-------------------------- MODULE PartitionProofs ---------------------------
(***************************************************************************)
(* The partitions of a table: their keys (TableKeys), for any columns,     *)
(* values, rows and partitions, and the row locks of the writes to them    *)
(* (DmlLocks), for any clients, partitions and statements.                 *)
(***************************************************************************)
EXTENDS TableKeys, DmlLocks, FiniteSetTheorems, WellFoundedInduction, TLAPS

-----------------------------------------------------------------------------
(* Keys. *)

Sound(t) == t.shard # None => t.shard \in t.cols /\ \A k \in t.keys : t.shard \in k

\* What the backends enforce, and what the proxy sees to.
KeysInv == Fits(tab, rows) /\ Sound(tab)

\* A partition that enforces a key with the shard key in it enforces it for the
\* table: rows that agree on the key are in one partition.
LEMMA InvUnique == KeysInv => UniqueInTable
<1> SUFFICES ASSUME KeysInv, NEW k \in tab.keys, NEW i \in RowIds, NEW j \in RowIds,
                    i # j, rows[i] # None, rows[j] # None, Agree(rows[i], rows[j], k)
             PROVE  FALSE
  BY Zenon DEF UniqueInTable
<1>1. Place(tab, rows[i]) = Place(tab, rows[j])
  <2>1. CASE tab.shard = None
    BY <2>1, Zenon DEF Place
  <2>2. CASE tab.shard # None
    BY <2>2, Zenon DEF Place, KeysInv, Sound, Agree
  <2> QED
    BY <2>1, <2>2, Zenon
<1> QED
  BY <1>1, Zenon DEF KeysInv, Fits

\* A statement that the backends carry out keeps the invariant if the definition
\* it leaves is sound.
LEMMA AltersInv == ASSUME NEW t, NEW rs, Alters(t, rs), Sound(t) PROVE KeysInv'
<1>1. tab' = t /\ rows' = rs /\ Fits(t, rs)
  BY Zenon DEF Alters
<1>2. Fits(tab, rows)'
  BY <1>1 DEF Fits, Place, Agree
<1>3. Sound(tab)'
  BY <1>1, Zenon DEF Sound
<1> QED
  BY <1>2, <1>3, Zenon DEF KeysInv

\* checkShardKey: a table that is created has the shard key in all its keys.
LEMMA CreateTableInv ==
  ASSUME NEW part \in {"hash_list", "normal", "global_single"}, NEW name, NEW cols, NEW colKeys, NEW indexes,
         CreateTable(part, name, cols, colKeys, indexes)
  PROVE  KeysInv'
<1> DEFINE shard == ShardKey(part, name, colKeys, indexes)
           t == [shard |-> shard, cols |-> cols, keys |-> KeysOf(colKeys, indexes)]
<1>1. Alters(t, rows)
  BY Zenon DEF CreateTable
<1>2. shard # None => CheckShardKey(cols, colKeys, indexes, shard)
  <2>1. part \in {"hash_list", "normal"} => CheckShardKey(cols, colKeys, indexes, shard)
    BY Zenon DEF CreateTable
  <2>2. part = "global_single" => shard = None
    BY DEF ShardKey
  <2> QED
    BY <2>1, <2>2, Zenon
<1>3. CheckShardKey(cols, colKeys, indexes, shard)
        => shard \in cols /\ \A k \in KeysOf(colKeys, indexes) : shard \in k
  BY Zenon DEF CheckShardKey, KeysOf
<1>4. t.shard = shard /\ t.cols = cols /\ t.keys = KeysOf(colKeys, indexes)
  OBVIOUS
<1> HIDE DEF t, shard
<1>5. Sound(t)
  BY <1>2, <1>3, <1>4, Zenon DEF Sound
<1> QED
  BY <1>1, <1>5, AltersInv, Zenon

\* The other statements leave the shard key and its column, and what they add to
\* the keys holds it.
LEMMA WithInv ==
  ASSUME KeysInv, NEW cols, NEW keys, NEW rs, Alters(With(cols, keys), rs),
         tab.shard # None => /\ tab.shard \in cols
                             /\ \A k \in keys : tab.shard \in k
  PROVE  KeysInv'
<1>1. /\ With(cols, keys).shard = tab.shard
      /\ With(cols, keys).cols = cols /\ With(cols, keys).keys = keys
  BY DEF With
<1>2. Sound(With(cols, keys))
  BY <1>1, Zenon DEF Sound
<1> QED
  BY <1>2, AltersInv, Zenon

\* ADD COLUMN and MODIFY COLUMN with a key are refused for a partitioned table.
LEMMA AddModifyInv ==
  ASSUME KeysInv, NEW c, NEW u \in BOOLEAN, AddColumn(c, u) \/ ModifyColumn(c, u)
  PROVE  KeysInv'
<1> DEFINE more == IF u THEN {{c}} ELSE {}
           keys == tab.keys \cup more
<1>1. tab.shard # None => ~u
  BY DEF CheckUnsupported, AddColumn, ModifyColumn
<1>2. tab.shard # None => tab.shard \in tab.cols /\ \A k \in keys : tab.shard \in k
  BY <1>1, Zenon DEF KeysInv, Sound
<1>3. \/ Alters(With(tab.cols \cup {c}, keys), rows)
      \/ Alters(With(tab.cols, keys), rows)
  BY Zenon DEF AddColumn, ModifyColumn
<1> HIDE DEF keys
<1>4. tab.shard # None => tab.shard \in tab.cols \cup {c}
  BY <1>2, Zenon
<1> QED
  BY <1>2, <1>3, <1>4, WithInv, Zenon

\* DROP COLUMN of the shard key is refused: the keys keep it.
LEMMA DropColumnInv == ASSUME KeysInv, NEW c, DropColumn(c) PROVE KeysInv'
<1> DEFINE keys == {k \ {c} : k \in tab.keys} \ {{}}
           rs == [i \in RowIds |-> IF rows[i] = None THEN None ELSE [rows[i] EXCEPT ![c] = 0]]
<1>1. tab.shard # None => c # tab.shard
  BY DEF CheckUnsupported, DropColumn
<1>2. tab.shard # None => tab.shard \in tab.cols \ {c} /\ \A k \in keys : tab.shard \in k
  BY <1>1, Zenon DEF KeysInv, Sound
<1>3. Alters(With(tab.cols \ {c}, keys), rs)
  BY Zenon DEF DropColumn
<1> HIDE DEF keys, rs
<1> QED
  BY <1>2, <1>3, WithInv, Zenon

\* CREATE UNIQUE INDEX on columns with the shard key, and DROP INDEX.
LEMMA IndexInv ==
  ASSUME KeysInv, UniqueOnKey, NEW k, CreateIndex(k) \/ DropIndex(k)
  PROVE  KeysInv'
<1>1. CASE CreateIndex(k)
  <2>1. Alters(With(tab.cols, tab.keys \cup {k}), rows) /\ (tab.shard = None \/ tab.shard \in k)
    BY <1>1, Zenon DEF CreateIndex
  <2>2. tab.shard # None => tab.shard \in tab.cols /\ \A l \in tab.keys \cup {k} : tab.shard \in l
    BY <2>1, Zenon DEF KeysInv, Sound
  <2> QED
    BY <2>1, <2>2, WithInv, Zenon
<1>2. CASE DropIndex(k)
  <2>1. Alters(With(tab.cols, tab.keys \ {k}), rows)
    BY <1>2, Zenon DEF DropIndex
  <2>2. tab.shard # None => tab.shard \in tab.cols /\ \A l \in tab.keys \ {k} : tab.shard \in l
    BY Zenon DEF KeysInv, Sound
  <2> QED
    BY <2>1, <2>2, WithInv, Zenon
<1> QED
  BY <1>1, <1>2, Zenon

\* Statements on the rows leave the definition.
LEMMA RowsInv == ASSUME KeysInv, NEW rs, Alters(tab, rs) PROVE KeysInv'
BY AltersInv, Zenon DEF KeysInv

\* DROP TABLE leaves nothing.
LEMMA NoTabInv == ASSUME tab' = NoTab PROVE KeysInv'
<1>1. NoTab.keys = {} /\ NoTab.shard = None
  BY DEF NoTab
<1> QED
  BY <1>1, Zenon DEF KeysInv, Fits, Sound

\* No table: nothing to enforce.
LEMMA InitInv == KeysInit => KeysInv
<1>1. NoTab.keys = {} /\ NoTab.shard = None
  BY DEF NoTab
<1> QED
  BY <1>1, Zenon DEF KeysInit, KeysInv, Fits, Sound

\* Every statement keeps the invariant.
LEMMA NextInv == ASSUME UniqueOnKey, KeysInv, [KeysNext]_keysVars PROVE KeysInv'
<1>1. CASE UNCHANGED keysVars
  BY <1>1 DEF keysVars, KeysInv, Fits, Sound, Place, Agree
<1>2. CASE \E part \in {"hash_list", "normal", "global_single"}, name \in Columns, cols \in (SUBSET Columns) \ {{}} :
             \E colKeys \in SUBSET cols, indexes \in {<<>>} \cup {<<s>> : s \in ColumnSeqs} :
               CreateTable(part, name, cols, colKeys, indexes)
  <2>1. PICK part \in {"hash_list", "normal", "global_single"}, name \in Columns, cols \in (SUBSET Columns) \ {{}} :
               \E colKeys \in SUBSET cols, indexes \in {<<>>} \cup {<<s>> : s \in ColumnSeqs} :
                 CreateTable(part, name, cols, colKeys, indexes)
    BY <1>2, Zenon
  <2>2. PICK colKeys, indexes : CreateTable(part, name, cols, colKeys, indexes)
    BY <2>1, Zenon
  <2> QED
    BY <2>2, CreateTableInv
<1>3. CASE \E c \in Columns : DropColumn(c) \/ \E u \in BOOLEAN : AddColumn(c, u) \/ ModifyColumn(c, u)
  BY <1>3, DropColumnInv, AddModifyInv, Zenon
<1>4. CASE \E k \in (SUBSET Columns) \ {{}} : CreateIndex(k) \/ DropIndex(k)
  BY <1>4, IndexInv, Zenon
<1>5. CASE TruncateTable \/ DropTable
  BY <1>5, RowsInv, NoTabInv, Zenon DEF TruncateTable, DropTable
<1>6. CASE \E i \in RowIds : \/ \E r \in [Columns -> Values] : Insert(i, r)
                             \/ \E c \in Columns, v \in Values : Update(i, c, v)
  BY <1>6, RowsInv, Zenon DEF Insert, Update
<1> QED
  BY <1>1, <1>2, <1>3, <1>4, <1>5, <1>6, Zenon DEF KeysNext

\* The invariant holds in every behaviour.
LEMMA KeysInvariant == ASSUME UniqueOnKey PROVE KeysSpec => []KeysInv
<1>1. KeysInit => KeysInv
  BY InitInv
<1>2. KeysInv /\ [KeysNext]_keysVars => KeysInv'
  BY NextInv, Zenon
<1> QED
  BY <1>1, <1>2, PTL DEF KeysSpec

\* Without CREATE UNIQUE INDEX on other columns, the column a table is partitioned
\* by stays and is part of every key of it (checkShardKey, checkUnsupportedOperations).
THEOREM KeysHold == ASSUME UniqueOnKey PROVE KeysSpec => []KeysHoldShardKey
<1>1. KeysInv => KeysHoldShardKey
  BY Zenon DEF KeysInv, Sound, KeysHoldShardKey
<1> QED
  BY <1>1, KeysInvariant, PTL

\* And no two rows of a table agree on a key of it, in whatever partitions they are.
THEOREM TableUnique == ASSUME UniqueOnKey PROVE KeysSpec => []UniqueInTable
BY InvUnique, KeysInvariant, PTL

-----------------------------------------------------------------------------
(* Locks. *)

Increasing(q) == \A i, j \in 1..Len(q) : i < j => q[i] < q[j]

\* What an INSERT has locked on a backend comes before what it still wants there.
Ordered(c, b, q, held) ==
  /\ Increasing(q)
  /\ \A i \in 1..Len(q) :
       /\ BackendOf[q[i]] = b
       /\ \A p \in Parts : held[p] = c /\ BackendOf[p] = b => p < q[i]

LocksInv ==
  /\ queue \in [Clients -> [Backends -> Seq(Parts)]]
  /\ holder \in [Parts -> Clients \cup {Nobody}]
  /\ \A c \in Inserters, b \in Backends : Ordered(c, b, queue[c][b], holder)

\* That stays so when the statement gets no other lock on the backend.
LEMMA OrderedLess ==
  ASSUME NEW c, NEW b, NEW q, NEW held, NEW less, Ordered(c, b, q, held),
         \A p \in Parts : less[p] = c /\ BackendOf[p] = b => held[p] = c
  PROVE  Ordered(c, b, q, less)
BY Zenon DEF Ordered

\* Partitions are numbers up to some number.
LEMMA PartsBound == \E n \in Nat : Parts = 1..n
BY DmlLocksAssumption, FS_CardinalityType

\* Among partitions there is a last one.
LEMMA LastPart == ASSUME NEW S \in SUBSET Parts, S # {} PROVE \E x \in S : \A y \in S : y <= x
<1>1. PICK n \in Nat : Parts = 1..n
  BY PartsBound
<1> DEFINE T == {n - x : x \in S}
           R == OpToRel(<, Nat)
<1>2. T \subseteq Nat /\ T # {}
  <2>1. \A x \in S : n - x \in Nat
    BY <1>1
  <2> QED
    BY <2>1, Zenon
<1>3. IsWellFoundedOn(R, Nat)
  BY NatLessThanWellFounded
<1>4. R = {ss \in Nat \X Nat : ss[1] < ss[2]}
  BY DEF OpToRel
<1> HIDE DEF R, T
<1>5. PICK t \in T : \A u \in T : ~(<<u, t>> \in R)
  BY <1>2, <1>3, WFMin, Zenon
<1>6. \A u \in T : ~(u < t)
  BY <1>2, <1>4, <1>5, Zenon
<1>7. PICK x \in S : t = n - x
  BY <1>5 DEF T
<1>8. \A y \in S : n - y \in T /\ y \in Int /\ x \in Int
  BY <1>1 DEF T
<1> QED
  BY <1>6, <1>7, <1>8

\* Of INSERTs that wait for one another, the one that waits for the last partition
\* waits for one that wants a later one.
LEMMA LocksNoCircle == LocksInv => NoDeadlockOnBackend
<1> SUFFICES ASSUME LocksInv, NEW b \in Backends, NEW s \in SUBSET Inserters, s # {},
                    ~NoCircle(s, {b})
             PROVE  FALSE
  BY Zenon DEF NoDeadlockOnBackend
<1>w. \A c \in s : \E d \in s : WaitsAt(c, d, b)
  BY Zenon DEF NoCircle
<1>0. s \subseteq Clients
  BY DmlLocksAssumption, Zenon
<1> DEFINE want(c) == Head(queue[c][b])
           S == {want(c) : c \in s}
<1>1. \A c \in s : queue[c][b] \in Seq(Parts) /\ queue[c][b] # <<>> /\ holder[want(c)] # Nobody
  BY <1>0, <1>w DEF WaitsAt, Blocked, LocksInv
<1>2. \A c \in s : want(c) \in Parts /\ want(c) = queue[c][b][1] /\ 1 \in 1..Len(queue[c][b])
  BY <1>1
<1>3. S \in SUBSET Parts /\ S # {}
  BY <1>2
<1>4. PICK c \in s : \A y \in S : y <= want(c)
  BY <1>3, LastPart, Zenon
<1>5. PICK d \in s : holder[want(c)] = d
  BY <1>w, Zenon DEF WaitsAt
<1>6. BackendOf[want(c)] = b
  <2>1. \A i \in 1..Len(queue[c][b]) : BackendOf[queue[c][b][i]] = b
    BY Zenon DEF LocksInv, Ordered
  <2> QED
    BY <2>1, <1>2, Zenon
<1>7. want(c) < want(d)
  <2>1. \A i \in 1..Len(queue[d][b]) : \A p \in Parts : holder[p] = d /\ BackendOf[p] = b => p < queue[d][b][i]
    BY Zenon DEF LocksInv, Ordered
  <2>2. want(c) < queue[d][b][1]
    BY <2>1, <1>2, <1>5, <1>6, ZenonT(30)
  <2> QED
    BY <2>2, <1>2, Zenon
<1>8. want(d) <= want(c) /\ want(c) \in Parts /\ want(d) \in Parts
  BY <1>2, <1>4
<1> QED
  BY <1>7, <1>8, PartsBound

\* Nothing is locked, and the queries of an INSERT are sorted.
LEMMA LocksAtFirst == LocksInit => LocksInv
<1> SUFFICES ASSUME LocksInit PROVE LocksInv
  OBVIOUS
<1>1. \A p \in Parts : holder[p] = Nobody
  BY DEF LocksInit
<1>2. ASSUME NEW c \in Clients, NEW b \in Backends
      PROVE  /\ queue[c][b] \in Seq(Parts) /\ (c \in Inserters => Increasing(queue[c][b]))
             /\ \A i \in 1..Len(queue[c][b]) : BackendOf[queue[c][b][i]] = b
  <2> DEFINE n == Cardinality(On(c, b))
  <2>1. On(c, b) \in SUBSET Parts /\ \A p \in On(c, b) : BackendOf[p] = b
    BY DmlLocksAssumption DEF On
  <2>2. n \in Nat
    BY <2>1, DmlLocksAssumption, FS_Subset, FS_CardinalityType, SMTT(20)
  <2>3. queue[c][b] \in QuerysAt(c, b)
    BY Zenon DEF LocksInit
  <2>4. /\ queue[c][b] \in [1..n -> On(c, b)]
        /\ c \in Inserters => \A i, j \in DOMAIN queue[c][b] : i < j => queue[c][b][i] < queue[c][b][j]
    BY <2>3, Zenon DEF QuerysAt, InOrder, SetToSeqs
  <2> HIDE DEF n
  <2>5. queue[c][b] \in Seq(Parts) /\ Len(queue[c][b]) = n /\ DOMAIN queue[c][b] = 1..n
    BY <2>1, <2>2, <2>4
  <2> QED
    BY <2>1, <2>4, <2>5, Zenon DEF Increasing
<1>3. queue \in [Clients -> [Backends -> Seq(Parts)]]
  <2>1. queue \in [Clients -> [Backends -> AllQuerys]]
    BY Zenon DEF LocksInit
  <2> QED
    BY <2>1, <1>2
<1>4. holder \in [Parts -> Clients \cup {Nobody}]
  BY DEF LocksInit
<1>5. Nobody \notin Clients /\ \A c \in Inserters : c \in Clients
  BY DmlLocksAssumption
<1> QED
  BY <1>1, <1>2, <1>3, <1>4, <1>5, Zenon DEF LocksInv, Ordered

\* An INSERT takes its next lock: the ones it still wants come later.
LEMMA LocksQuery ==
  ASSUME LocksInv, NEW c \in Inserters, NEW b \in Backends, Query(c, b) PROVE LocksInv'
<1> DEFINE q == queue[c][b]
           h == Head(q)
<1>1. /\ q # <<>> /\ holder' = [holder EXCEPT ![h] = c]
      /\ queue' = [queue EXCEPT ![c][b] = Tail(q)]
  BY Zenon DEF Query
<1>0. c \in Clients /\ \A d \in Inserters : d \in Clients
  BY DmlLocksAssumption, Zenon
<1>2. q \in Seq(Parts)
  BY <1>0 DEF LocksInv
<1>3. /\ h \in Parts /\ h = q[1] /\ 1 \in 1..Len(q) /\ Tail(q) \in Seq(Parts) /\ Len(Tail(q)) = Len(q) - 1
      /\ \A i \in 1..Len(Tail(q)) : i + 1 \in 1..Len(q) /\ 1 < i + 1 /\ Tail(q)[i] = q[i + 1]
  BY <1>1, <1>2
<1>4. /\ Increasing(q) /\ \A i \in 1..Len(q) : BackendOf[q[i]] = b
      /\ \A i \in 1..Len(q), p \in Parts : holder[p] = c /\ BackendOf[p] = b => p < q[i]
  BY Zenon DEF LocksInv, Ordered
<1>5. \A i \in 1..Len(Tail(q)) : BackendOf[Tail(q)[i]] = b /\ h < Tail(q)[i]
  BY <1>3, <1>4, Zenon DEF Increasing
<1>6. Increasing(Tail(q))
  <2> SUFFICES ASSUME NEW i \in 1..Len(Tail(q)), NEW j \in 1..Len(Tail(q)), i < j
               PROVE  Tail(q)[i] < Tail(q)[j]
    BY Zenon DEF Increasing
  <2>1. i + 1 < j + 1
    OBVIOUS
  <2> QED
    BY <2>1, <1>3, <1>4, Zenon DEF Increasing
<1>7. holder' \in [Parts -> Clients \cup {Nobody}] /\ holder'[h] = c /\ \A p \in Parts : p # h => holder'[p] = holder[p]
  BY <1>0, <1>1, <1>3 DEF LocksInv
<1>8. /\ queue' \in [Clients -> [Backends -> Seq(Parts)]] /\ queue'[c][b] = Tail(q)
      /\ \A d \in Clients, e \in Backends : d # c \/ e # b => queue'[d][e] = queue[d][e]
  BY <1>0, <1>1, <1>3 DEF LocksInv
<1>9. BackendOf[h] = b
  BY <1>3, <1>4, Zenon
<1> HIDE DEF q, h
<1>10. Ordered(c, b, Tail(q), holder')
  BY <1>3, <1>4, <1>5, <1>6, <1>7, Zenon DEF Ordered
<1>11. ASSUME NEW d \in Inserters, NEW e \in Backends, d # c \/ e # b
       PROVE  Ordered(d, e, queue[d][e], holder')
  <2>1. Ordered(d, e, queue[d][e], holder)
    BY Zenon DEF LocksInv
  <2>2. \A p \in Parts : holder'[p] = d /\ BackendOf[p] = e => holder[p] = d
    BY <1>7, <1>9, <1>11, Zenon
  <2> QED
    BY <2>1, <2>2, OrderedLess, Zenon
<1>12. \A d \in Inserters, e \in Backends : Ordered(d, e, queue'[d][e], holder')
  BY <1>0, <1>8, <1>10, <1>11, Zenon
<1> QED
  BY <1>7, <1>8, <1>12 DEF LocksInv

\* No INSERT gets a lock, some may give up their queries on a backend.
LEMMA LocksGiveUp ==
  ASSUME LocksInv, holder' \in [Parts -> Clients \cup {Nobody}],
         \A p \in Parts, c \in Inserters : holder'[p] = c => holder[p] = c,
         queue' \in [Clients -> [Backends -> Seq(Parts)]],
         \A c \in Inserters, b \in Backends : queue'[c][b] = queue[c][b] \/ queue'[c][b] = <<>>
  PROVE  LocksInv'
<1>1. ASSUME NEW c \in Inserters, NEW b \in Backends
      PROVE  Ordered(c, b, queue[c][b], holder') /\ Ordered(c, b, <<>>, holder')
  <2>1. Ordered(c, b, queue[c][b], holder)
    BY Zenon DEF LocksInv
  <2>2. 1..Len(<<>>) = {}
    OBVIOUS
  <2>3. Ordered(c, b, <<>>, holder')
    BY <2>2, Zenon DEF Ordered, Increasing
  <2>4. \A p \in Parts : holder'[p] = c /\ BackendOf[p] = b => holder[p] = c
    BY Zenon
  <2> QED
    BY <2>1, <2>3, <2>4, OrderedLess, Zenon
<1>2. \A c \in Inserters, b \in Backends : Ordered(c, b, queue'[c][b], holder')
  BY <1>1, Zenon
<1> QED
  BY <1>2, Zenon DEF LocksInv

\* InsertPlan sorts the partitions and Txn.execute keeps their order on a backend:
\* no circle of INSERTs waits on one backend, whatever UPDATEs and DELETEs, in
\* whatever order, run at the same time.
THEOREM BackendDeadlockFree == LocksSpec => []NoDeadlockOnBackend
<1>1. LocksInv /\ [LocksNext]_locksVars => LocksInv'
  <2> SUFFICES ASSUME LocksInv, [LocksNext]_locksVars PROVE LocksInv'
    OBVIOUS
  <2>1. CASE UNCHANGED locksVars
    BY <2>1 DEF locksVars, LocksInv
  <2>2. ASSUME NEW c \in Clients, NEW b \in Backends, Query(c, b) PROVE LocksInv'
    <3>1. CASE c \in Inserters
      BY <2>2, <3>1, LocksQuery, Zenon
    <3>2. CASE c \notin Inserters
      <4> DEFINE h == Head(queue[c][b])
      <4>1. /\ queue[c][b] # <<>> /\ holder' = [holder EXCEPT ![h] = c]
            /\ queue' = [queue EXCEPT ![c][b] = Tail(queue[c][b])]
        BY <2>2, Zenon DEF Query
      <4>2. /\ queue \in [Clients -> [Backends -> Seq(Parts)]]
            /\ holder \in [Parts -> Clients \cup {Nobody}]
        BY Zenon DEF LocksInv
      <4>3. holder' \in [Parts -> Clients \cup {Nobody}]
            /\ \A p \in Parts : holder'[p] = holder[p] \/ holder'[p] = c
        BY <4>1, <4>2
      <4>4. queue' \in [Clients -> [Backends -> Seq(Parts)]]
            /\ \A d \in Clients \ {c}, e \in Backends : queue'[d][e] = queue[d][e]
        BY <4>1, <4>2
      <4>5. \A d \in Inserters : d \in Clients \ {c}
        BY <3>2, DmlLocksAssumption, Zenon
      <4> QED
        BY <4>3, <4>4, <4>5, LocksGiveUp, Zenon
    <3> QED
      BY <3>1, <3>2
  <2>3. ASSUME NEW c \in Clients, NEW b \in Backends, Timeout(c, b) PROVE LocksInv'
    BY <2>3, LocksGiveUp, DmlLocksAssumption DEF Timeout, LocksInv
  <2>4. ASSUME NEW c \in Clients, End(c) PROVE LocksInv'
    BY <2>4, LocksGiveUp, DmlLocksAssumption DEF End, LocksInv
  <2> QED
    BY <2>1, <2>2, <2>3, <2>4, Zenon DEF LocksNext
<1> QED
  BY <1>1, LocksAtFirst, LocksNoCircle, PTL DEF LocksSpec

=============================================================================
