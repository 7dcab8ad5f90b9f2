----------------------------- MODULE Rebalance -----------------------------
(***************************************************************************)
(* NEODB REBALANCE (proxy/admin_rebalance.go), called again and again:     *)
(* ShardBalanceAdvice finds the biggest and the smallest backend and a     *)
(* table of the biggest that can move without turning the tables, and      *)
(* RebalanceMigrate has a shift move it, which may fail.                   *)
(***************************************************************************)
EXTENDS Naturals, FiniteSets
LOCAL INSTANCE FiniteSetsExt

CONSTANTS NBackends,
          Sizes,     \* the sizes in MB that backends begin with
          Tables,    \* tables on the backends
          Size,      \* what a table takes, in MB
          Hash,      \* the tables that are subtables of a table sharded by hash
          NoTable,
          Extras,    \* what the tables of the same name in other databases take
          MinListed, \* 10 in the code
          Delta      \* 100 in the code

ASSUME RebalanceAssumption ==
  /\ NBackends \in Nat /\ Sizes \subseteq Nat /\ Delta \in Nat \ {0} /\ MinListed \in Nat
  /\ Size \in [Tables -> Nat \ {0}] /\ Hash \subseteq Tables /\ NoTable \notin Tables
  /\ Extras \subseteq Nat

VARIABLES sizes,             \* what each backend stores
          place,             \* where each table is
          at,                \* next backend of the scan
          biggest, smallest, \* [name, size]; size 0 is unset
          apc, advice        \* the table advised, or NoTable

adviceVars == <<sizes, place, at, biggest, smallest, apc, advice>>

Unset == [name |-> 0, size |-> 0]

RebalanceTypeOK ==
  /\ sizes \in [1..NBackends -> Nat] /\ place \in [Tables -> 1..NBackends]
  /\ at \in 1..(NBackends + 1) /\ apc \in {"scan", "tables", "migrate"}
  /\ {biggest, smallest} \subseteq [name : 0..NBackends, size : Nat]
  /\ advice \in Tables \cup {NoTable}

On(b) == {t \in Tables : place[t] = b}

Holds(b) == MapThenSumSet(LAMBDA t : Size[t], On(b))

AdviceInit ==
  /\ sizes \in [1..NBackends -> Sizes] /\ place \in [Tables -> 1..NBackends]
  /\ \A b \in 1..NBackends : Holds(b) <= sizes[b]
  /\ at = 1 /\ biggest = Unset /\ smallest = Unset /\ apc = "scan" /\ advice = NoTable

\* The call returns, and NEODB REBALANCE may be called again.
Return ==
  /\ at' = 1 /\ biggest' = Unset /\ smallest' = Unset /\ apc' = "scan" /\ advice' = NoTable

Larger(m, b) == IF sizes[b] > m.size THEN [name |-> b, size |-> sizes[b]] ELSE m

\* Size 0 stands for "not set yet", also when it was measured.
Smaller(m, b) ==
  IF m.size = 0 \/ sizes[b] < m.size THEN [name |-> b, size |-> sizes[b]] ELSE m

Scan ==
  /\ apc = "scan" /\ at <= NBackends
  /\ biggest' = Larger(biggest, at) /\ smallest' = Smaller(smallest, at) /\ at' = at + 1
  /\ UNCHANGED <<sizes, place, apc, advice>>

\* A backend does not answer, or not with a number.
QueryFails == apc # "migrate" /\ Return /\ UNCHANGED <<sizes, place>>

\* The difference must reach delta; without it there is no table to migrate.
Compare ==
  /\ apc = "scan" /\ at = NBackends + 1
  /\ apc' = (IF biggest.size - smallest.size < Delta THEN "migrate" ELSE "tables")
  /\ UNCHANGED <<sizes, place, at, biggest, smallest, advice>>

\* MySQL adds up the tables of one name (GROUP BY table_name).
RowSize(r) == Size[r.table] + r.extra

\* MySQL's answer: rows of tables of the biggest backend.
Rows == SUBSET {r \in [table : On(biggest.name), extra : Extras] : RowSize(r) > MinListed}

\* Mutant: the table is counted once, not on both sides.
FitsNoDouble(s) == smallest.size + s <= biggest.size

Fits(s) == smallest.size + s < biggest.size - s

\* The subtable of a table sharded by hash.
SubTableToTable(t) == t \in Hash

\* The first row that fits.  ORDER BY is on columns that GROUP BY does not add
\* up, so the rows come in any order.
Choose ==
  /\ apc = "tables" /\ apc' = "migrate"
  /\ \E rows \in Rows :
       LET good == {r \in rows : Fits(RowSize(r)) /\ SubTableToTable(r.table)}
       IN \/ good = {} /\ advice' = NoTable
          \/ \E r \in good : advice' = r.table
  /\ UNCHANGED <<sizes, place, at, biggest, smallest>>

\* RebalanceMigrate: no table, a proxy that is read-only or a shift that fails is
\* an error; a shift that succeeds drops the table where it was.  What a shift that
\* fails in its cut-over leaves behind is modelled in Shift, not here.
Migrate ==
  /\ apc = "migrate" /\ Return
  /\ \/ UNCHANGED <<sizes, place>>
     \/ /\ advice # NoTable
        /\ place' = [place EXCEPT ![advice] = smallest.name]
        /\ sizes' = [sizes EXCEPT ![biggest.name] = @ - Size[advice], ![smallest.name] = @ + Size[advice]]

AdviceNext == Scan \/ QueryFails \/ Compare \/ Choose \/ Migrate

AdviceSpec == AdviceInit /\ [][AdviceNext]_adviceVars

-----------------------------------------------------------------------------
\* A table that moves leaves a backend that stays the larger of the two, and the
\* sum of the squares of the sizes falls with every move: however often NEODB
\* REBALANCE is called, whatever rows MySQL lists and whichever shifts fail, the
\* tables never return to where they were and the moves come to an end
\* (ShardBalanceAdvice's test of the size, RebalanceMigrate).
MovesSettle ==
  [][place' # place =>
       \E a, b \in 1..NBackends :
         /\ a # b /\ \A t \in Tables : place'[t] # place[t] => place[t] = a /\ place'[t] = b
         /\ \A c \in 1..NBackends \ {a, b} : sizes'[c] = sizes[c]
         /\ sizes'[b] < sizes'[a]
         /\ sizes'[a] * sizes'[a] + sizes'[b] * sizes'[b] < sizes[a] * sizes[a] + sizes[b] * sizes[b]]_adviceVars

\* The scan finds a biggest and a smallest backend when there are backends and
\* none is empty.
ExtremesOfNonEmpty ==
  apc # "scan" /\ NBackends > 0 /\ (\A b \in 1..NBackends : sizes[b] > 0) =>
    /\ {smallest.name, biggest.name} \subseteq 1..NBackends
    /\ \A b \in 1..NBackends : sizes[smallest.name] <= sizes[b] /\ sizes[b] <= sizes[biggest.name]

\* The advice is between the right backends, and following it, time after time,
\* never leads back.
RebalanceSettles == [](RebalanceTypeOK /\ ExtremesOfNonEmpty) /\ MovesSettle

Advised == apc = "migrate" /\ advice # NoTable

\* "find the max datasize backend and min datasize backend": for all sizes.
\* NOT KEPT by the code: see "Known disagreements" in the README.
SmallestFound ==
  apc # "scan" => \A b \in 1..NBackends : smallest.name # 0 /\ sizes[smallest.name] <= sizes[b]

\* "The differ must big than 256MB."
\* NOT KEPT by the code: see "Known disagreements" in the README.
DifferIsBig == Advised => biggest.size - smallest.size > 256

\* "Find the best table": the largest one that fits, were the rows in descending
\* order.
\* NOT KEPT by the code: see "Known disagreements" in the README.
LargestThatFits ==
  Advised => \A t \in On(biggest.name) \cap Hash : Fits(Size[t]) => Size[t] <= Size[advice]
=============================================================================
