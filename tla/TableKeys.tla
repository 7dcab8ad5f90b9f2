------------------------------ MODULE TableKeys -----------------------------
(***************************************************************************)
(* PRIMARY and UNIQUE keys of a partitioned table (proxy/ddl.go,           *)
(* planner/ddl_plan.go).  A backend enforces a key inside a partition; the *)
(* proxy refuses the definitions whose keys that would not enforce for the *)
(* table.  A statement changes all partitions or none (Ddl and XaCommit    *)
(* are about the rest).                                                    *)
(***************************************************************************)
EXTENDS Integers, Sequences, FiniteSets, FiniteSetsExt, SequencesExt

CONSTANTS Columns,      \* by position: 1..n
          Values,       \* of a column; 0: the default
          PartOf,       \* value of the shard key -> partition
          RowIds,       \* a bound on the rows
          UniqueOnKey,  \* CREATE UNIQUE INDEX only on the shard key
          None

ASSUME TableKeysAssumption ==
  /\ Columns = 1..Cardinality(Columns) /\ 0 \in Values /\ None \notin Columns
  /\ PartOf \in [Values -> Nat] /\ UniqueOnKey \in BOOLEAN

VARIABLES tab,    \* None or [shard, cols, keys]; shard None: global or single
          rows    \* id -> None or column -> value

keysVars == <<tab, rows>>

NoTab == [shard |-> None, cols |-> {}, keys |-> {}]

KeysInit == tab = NoTab /\ rows = [i \in RowIds |-> None]

-----------------------------------------------------------------------------
\* The backends.

Place(t, r) == IF t.shard = None THEN 0 ELSE PartOf[r[t.shard]]

Agree(r, s, key) == \A c \in key : r[c] = s[c]

\* What every partition accepts.
Fits(t, rs) == \A key \in t.keys : \A i, j \in RowIds :
  i # j /\ rs[i] # None /\ rs[j] # None /\ Place(t, rs[i]) = Place(t, rs[j]) => ~Agree(rs[i], rs[j], key)

Alters(t, rs) == Fits(t, rs) /\ UNION t.keys \subseteq t.cols /\ tab' = t /\ rows' = rs

-----------------------------------------------------------------------------
\* CREATE TABLE: part is the partition option, colKeys the columns that are
\* PRIMARY or UNIQUE by themselves, indexes the other such keys, in order.

\* tryGetShardKey
ShardKey(part, name, colKeys, indexes) ==
  CASE part = "hash_list" -> name
    [] part = "normal" /\ colKeys # {} -> Min(colKeys)
    [] part = "normal" /\ colKeys = {} /\ indexes # <<>> -> Head(Head(indexes))
    [] OTHER -> None

\* Mutant: only the keys of columns are checked.
CheckShardKeyColumns(cols, colKeys, indexes, shard) ==
  shard \in cols /\ colKeys \subseteq {shard}

\* checkShardKey
CheckShardKey(cols, colKeys, indexes, shard) ==
  /\ shard \in cols /\ colKeys \subseteq {shard}
  /\ \A i \in DOMAIN indexes : shard \in ToSet(indexes[i])

KeysOf(colKeys, indexes) == {{c} : c \in colKeys} \cup {ToSet(indexes[i]) : i \in DOMAIN indexes}

CreateTable(part, name, cols, colKeys, indexes) ==
  LET shard == ShardKey(part, name, colKeys, indexes) IN
  /\ tab = NoTab
  /\ part \in {"hash_list", "normal"} => shard # None /\ CheckShardKey(cols, colKeys, indexes, shard)
  /\ Alters([shard |-> shard, cols |-> cols, keys |-> KeysOf(colKeys, indexes)], rows)

-----------------------------------------------------------------------------
\* The other statements.

\* checkUnsupportedOperations
CheckUnsupported(action, col, unique) ==
  tab.shard # None =>
    CASE action = "drop" -> col # tab.shard
      [] action = "modify" -> col # tab.shard /\ ~unique
      [] action = "add" -> ~unique
      [] action = "index" -> TRUE

With(cols, keys) == [shard |-> tab.shard, cols |-> cols, keys |-> keys]

AddColumn(c, unique) ==
  /\ tab # NoTab /\ c \notin tab.cols /\ CheckUnsupported("add", c, unique)
  /\ Alters(With(tab.cols \cup {c}, tab.keys \cup (IF unique THEN {{c}} ELSE {})), rows)

\* A backend takes the column out of the keys; a key without columns goes.
DropColumn(c) ==
  /\ tab # NoTab /\ c \in tab.cols /\ tab.cols # {c} /\ CheckUnsupported("drop", c, FALSE)
  /\ Alters(With(tab.cols \ {c}, {k \ {c} : k \in tab.keys} \ {{}}),
            [i \in RowIds |-> IF rows[i] = None THEN None ELSE [rows[i] EXCEPT ![c] = 0]])

ModifyColumn(c, unique) ==
  /\ tab # NoTab /\ c \in tab.cols /\ CheckUnsupported("modify", c, unique)
  /\ Alters(With(tab.cols, tab.keys \cup (IF unique THEN {{c}} ELSE {})), rows)

CreateIndex(cs) ==
  /\ tab # NoTab /\ CheckUnsupported("index", None, TRUE)
  /\ UniqueOnKey => tab.shard = None \/ tab.shard \in cs
  /\ Alters(With(tab.cols, tab.keys \cup {cs}), rows)

DropIndex(k) == k \in tab.keys /\ Alters(With(tab.cols, tab.keys \ {k}), rows)

TruncateTable == tab # NoTab /\ Alters(tab, [i \in RowIds |-> None])

DropTable == tab # NoTab /\ tab' = NoTab /\ rows' = [i \in RowIds |-> None]

Insert(i, r) ==
  /\ tab # NoTab /\ rows[i] = None /\ \A c \in Columns \ tab.cols : r[c] = 0
  /\ Alters(tab, [rows EXCEPT ![i] = r])

\* UPDATE of another column than the shard key.
Update(i, c, v) ==
  /\ rows[i] # None /\ c \in tab.cols \ {tab.shard}
  /\ Alters(tab, [rows EXCEPT ![i][c] = v])

ColumnSeqs == UNION {SetToSeqs(s) : s \in (SUBSET Columns) \ {{}}}

KeysNext ==
  \/ \E part \in {"hash_list", "normal", "global_single"}, name \in Columns, cols \in (SUBSET Columns) \ {{}} :
       \E colKeys \in SUBSET cols, indexes \in {<<>>} \cup {<<s>> : s \in ColumnSeqs} :
         CreateTable(part, name, cols, colKeys, indexes)
  \/ \E c \in Columns : DropColumn(c) \/ \E u \in BOOLEAN : AddColumn(c, u) \/ ModifyColumn(c, u)
  \/ \E k \in (SUBSET Columns) \ {{}} : CreateIndex(k) \/ DropIndex(k)
  \/ TruncateTable \/ DropTable
  \/ \E i \in RowIds : \/ \E r \in [Columns -> Values] : Insert(i, r)
                       \/ \E c \in Columns, v \in Values : Update(i, c, v)

KeysSpec == KeysInit /\ [][KeysNext]_keysVars

-----------------------------------------------------------------------------
KeysTypeOK ==
  /\ tab.shard \in Columns \cup {None} /\ tab.cols \subseteq Columns
  /\ UNION tab.keys \subseteq tab.cols /\ {} \notin tab.keys
  /\ \A i \in RowIds : rows[i] # None => rows[i] \in [Columns -> Values]

\* A partitioned table keeps the column it is partitioned by, and every key of it
\* holds that column (checkShardKey, checkUnsupportedOperations).
KeysHoldShardKey ==
  tab.shard # None => tab.shard \in tab.cols /\ \A k \in tab.keys : tab.shard \in k

\* No two rows of a table agree on a key of it, in whatever partitions they are.
UniqueInTable == \A k \in tab.keys : \A i, j \in RowIds :
  i # j /\ rows[i] # None /\ rows[j] # None => ~Agree(rows[i], rows[j], k)

=============================================================================
