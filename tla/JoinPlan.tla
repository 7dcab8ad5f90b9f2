------------------------------ MODULE JoinPlan ------------------------------
(***************************************************************************)
(* A SELECT that joins several tables: the plan tree of                    *)
(* src/planner/builder (from.go, join_node.go, merge_node.go) and its      *)
(* execution by src/executor/engine (join_engine.go, merge_join.go).       *)
(*                                                                         *)
(* The planner turns FROM into a tree of merge nodes (one SQL statement    *)
(* for the backends) and join nodes (joined in the proxy), pushes the      *)
(* conditions of ON and WHERE down the tree, merges what can run on one    *)
(* backend, and picks a strategy for each join node.                       *)
(*                                                                         *)
(* A table holds rows [id, a]; hashed tables are sharded by id, a single   *)
(* table lives on one backend, a global one on every backend.  Shard s is  *)
(* on backend s.  A condition is a record [k, t, c, u, d, v]:              *)
(*   "val"   t.c = v            "null"  t.c IS NULL                        *)
(*   "eq"    t.c = u.d          "lt"    t.c < u.d                          *)
(*   "sum"   t.c + u.d = 1, an expression over both tables                 *)
(***************************************************************************)
EXTENDS Integers, Sequences, FiniteSets, SequencesExt

CONSTANTS Tables,    \* the tables of the schema
          Hashed, Single, Global,   \* their kinds
          Home,      \* the backend of each single table
          Backends,  \* 0 .. n-1
          Contents,  \* the row sets a table may hold
          Queries,   \* [from, where]
          MaxJoinRows

Null == -1
NoRow == [id |-> Null, a |-> Null]

VARIABLES data,      \* table -> its rows
          query, tree, result, pc

vars == <<data, query, tree, result, pc>>

-----------------------------------------------------------------------------
(* Conditions, and SQL over one server.  A joined row maps each table to    *)
(* its row; NoRow where an outer join found none.                           *)

TabsOf(f) == IF f.k \in {"val", "null"} THEN {f.t} ELSE {f.t, f.u}

Holds(f, row) ==
  LET x == row[f.t][f.c]
      y == IF Cardinality(TabsOf(f)) = 2 THEN row[f.u][f.d] ELSE Null
  IN  CASE f.k = "val"  -> x = f.v
        [] f.k = "null" -> x = Null
        [] f.k = "eq"   -> x # Null /\ x = y
        [] f.k = "lt"   -> x # Null /\ y # Null /\ x < y
        [] f.k = "sum"  -> x # Null /\ y # Null /\ x + y = 1

AllHold(fs, row) == \A f \in fs : Holds(f, row)

\* The segment of a key: what Partition models is here some function of the key.
ShardOf(id) == id % Cardinality(Backends)

DataAt(t, bs) ==
  CASE t \in Hashed -> {r \in data[t] : ShardOf(r.id) \in bs}
    [] t \in Single -> IF Home[t] \in bs THEN data[t] ELSE {}
    [] t \in Global -> data[t]

Both(l, r) == [t \in DOMAIN l \cup DOMAIN r |-> IF t \in DOMAIN l THEN l[t] ELSE r[t]]
Missing(tabs) == [t \in tabs |-> NoRow]

\* FROM is a table, [tab], or a join [l, r, left, on].
IsTab(from) == "tab" \in DOMAIN from

RECURSIVE FromTabs(_)
FromTabs(from) == IF IsTab(from) THEN {from.tab} ELSE FromTabs(from.l) \cup FromTabs(from.r)

RECURSIVE Joined(_, _)
Joined(from, bs) ==
  IF IsTab(from) THEN {[t \in {from.tab} |-> r] : r \in DataAt(from.tab, bs)}
  ELSE LET ls == Joined(from.l, bs)
           rs == Joined(from.r, bs)
           matches(l) == {r \in rs : AllHold(from.on, Both(l, r))}
       IN  UNION {{Both(l, r) : r \in matches(l)} : l \in ls}
             \cup (IF from.left
                   THEN {Both(l, Missing(FromTabs(from.r))) : l \in {x \in ls : matches(x) = {}}}
                   ELSE {})

\* What one MySQL holding every table would answer.
Expected == {row \in Joined(query.from, Backends) : AllHold(query.where, row)}

-----------------------------------------------------------------------------
(* Plan nodes.  A merge node: [merge, tabs, from, where, idx, route]; idx   *)
(* are the shards its key conditions name, route the backends it runs on.   *)
(* A join node: [merge, tabs, l, r, left, on, joinOn, others, filters,      *)
(* rightNull, hasRight, nest]: on is the SQL of ON, joinOn its equalities,  *)
(* others its other conditions when it is a left join (otherLeftJoin),      *)
(* filters the otherFilter that WHERE adds.                                 *)

MergeNode(tabs, from, where, idx) ==
  [merge |-> TRUE, tabs |-> tabs, from |-> from, where |-> where, idx |-> idx, route |-> {}]

AllGlobal(n) == n.tabs \subseteq Global

\* fetchIndex: a value of the shard key adds its shard.
Index(f) == IF f.k = "val" /\ f.c = "id" /\ f.t \in Hashed THEN {ShardOf(f.v)} ELSE {}

AddWhere(n, f) == [n EXCEPT !.where = @ \cup {f}, !.idx = @ \cup Index(f)]

\* Mutant: the columns of the equality are not looked at.
IsSameShardAny(l, r, f) == f.t \in Hashed /\ f.u \in Hashed

\* isSameShard: both columns are the shard keys of tables sharded alike.
IsSameShard(l, r, f) == f.t \in Hashed /\ f.u \in Hashed /\ f.c = "id" /\ f.d = "id"

\* checkJoinOn: the left side's column first.
CheckJoinOn(l, f) == IF f.t \in l.tabs THEN f ELSE [f EXCEPT !.t = f.u, !.c = f.d, !.u = f.t, !.d = f.c]

\* mergeRoutes: one statement for both; the right side's key shards are not
\* taken over, its WHERE is.
MergeRoutes(l, r, left, on) ==
  [MergeNode(l.tabs \cup r.tabs, [l |-> l.from, r |-> r.from, left |-> left, on |-> on],
             l.where \cup r.where, l.idx) EXCEPT !.route = l.route]

\* addFilter at findParent: to the lowest node that has all the tables.
RECURSIVE AddFilter(_, _)
AddFilter(n, f) ==
  CASE n.merge -> [n EXCEPT !.where = @ \cup {f}]
    [] ~n.merge /\ TabsOf(f) \subseteq n.l.tabs -> [n EXCEPT !.l = AddFilter(@, f)]
    [] ~n.merge /\ TabsOf(f) \subseteq n.r.tabs -> [n EXCEPT !.r = AddFilter(@, f)]
    [] OTHER -> [n EXCEPT !.filters = @ \cup {f}]

\* pushKeyFilter: a condition on one column goes to its table and, through
\* an equality of ON, to the table it is joined with.
RECURSIVE PushKeyFilter(_, _)
PushKeyFilter(n, f) ==
  IF n.merge THEN AddWhere(n, f)
  ELSE LET toLeft == f.t \in n.l.tabs
           found  == {j \in n.joinOn : IF toLeft THEN j.t = f.t /\ j.c = f.c ELSE j.u = f.t /\ j.d = f.c}
           same   == LET j == CHOOSE j \in found : TRUE
                     IN  IF toLeft THEN [f EXCEPT !.t = j.u, !.c = j.d] ELSE [f EXCEPT !.t = j.t, !.c = j.c]
       IN  [n EXCEPT !.l = IF toLeft THEN PushKeyFilter(@, f) ELSE IF found = {} THEN @ ELSE PushKeyFilter(@, same),
                     !.r = IF ~toLeft THEN PushKeyFilter(@, f) ELSE IF found = {} THEN @ ELSE PushKeyFilter(@, same)]

\* pushFilter: IS NULL on the right side of a left join is kept for the
\* joined rows; any other condition on that side rules out unmatched rows.
PushFilter(n, f) ==
  IF n.merge THEN AddWhere(n, f)
  ELSE IF n.left /\ f.k = "null" /\ f.t \in n.r.tabs THEN [n EXCEPT !.rightNull = @ \cup {f}]
  ELSE LET m == [n EXCEPT !.hasRight = @ \/ (n.left /\ TabsOf(f) \cap n.r.tabs # {})]
       IN  IF Cardinality(TabsOf(f)) = 1 THEN PushKeyFilter(m, f) ELSE AddFilter(m, f)

RECURSIVE PushFilters(_, _)
PushFilters(n, fs) ==
  IF fs = {} THEN n ELSE LET f == CHOOSE f \in fs : TRUE IN PushFilters(PushFilter(n, f), fs \ {f})

Equalities(fs) == {f \in fs : f.k = "eq"}

NewJoinNode(l, r, left, on, joinOn) ==
  [merge |-> FALSE, tabs |-> l.tabs \cup r.tabs, l |-> l, r |-> r, left |-> left,
   on |-> IF left THEN on ELSE joinOn, joinOn |-> joinOn,
   others |-> IF left THEN on \ Equalities(on) ELSE {}, filters |-> {}, rightNull |-> {},
   hasRight |-> FALSE, nest |-> FALSE]

\* join: one merge node when the backends can join, else a join node.  The
\* other conditions of an inner ON are those of WHERE.
JoinNodes(l, r, left, on) ==
  LET joinOn == {CheckJoinOn(l, f) : f \in Equalities(on)}
      rest   == on \ Equalities(on)
      mergeable == l.merge /\ r.merge /\ (AllGlobal(l) \/ AllGlobal(r) \/ \E f \in joinOn : IsSameShard(l, r, f))
      node   == NewJoinNode(l, r, left, on, joinOn)
  IN  IF mergeable
      THEN LET m == MergeRoutes(l, r, left, IF left THEN on ELSE joinOn)
           IN  IF left THEN m ELSE PushFilters(m, rest)
      ELSE IF left THEN node ELSE PushFilters(node, rest)

RECURSIVE Scan(_)
Scan(from) == IF IsTab(from) THEN MergeNode({from.tab}, from, {}, {})
              ELSE JoinNodes(Scan(from.l), Scan(from.r), from.left, from.on)

\* What a join node becomes when its two sides run as one statement: ON as
\* it was, and the conditions the node had kept.
AsMerge(n) ==
  LET m == MergeRoutes(n.l, n.r, n.left, IF n.left THEN n.on ELSE n.joinOn)
  IN  [m EXCEPT !.where = @ \cup n.filters]

\* pushEqualCmprs: an equality of WHERE at the node that joins its tables.
RECURSIVE PushEqual(_, _)
PushEqual(n, f) ==
  CASE n.merge -> [n EXCEPT !.where = @ \cup {f}]
    [] ~n.merge /\ TabsOf(f) \subseteq n.l.tabs -> [n EXCEPT !.l = PushEqual(@, f)]
    [] ~n.merge /\ TabsOf(f) \subseteq n.r.tabs -> [n EXCEPT !.r = PushEqual(@, f)]
    [] OTHER ->
         LET j == CheckJoinOn(n.l, f)
         IN  IF n.l.merge /\ n.r.merge /\ IsSameShard(n.l, n.r, j)
             THEN LET m == AsMerge(n) IN [m EXCEPT !.where = @ \cup {j}]
             ELSE IF n.left THEN [n EXCEPT !.filters = @ \cup {j}]
             ELSE [n EXCEPT !.joinOn = @ \cup {j}]

RECURSIVE PushEqualCmprs(_, _)
PushEqualCmprs(n, fs) ==
  IF fs = {} THEN n ELSE LET f == CHOOSE f \in fs : TRUE IN PushEqualCmprs(PushEqual(n, f), fs \ {f})

PushWhere(n, where) == PushEqualCmprs(PushFilters(n, where \ Equalities(where)), Equalities(where))

\* MergeNode.calcRoute: a global statement may run anywhere.
RouteOf(n) ==
  LET homes == {Home[t] : t \in n.tabs \cap Single}
  IN  IF AllGlobal(n) THEN {0}
      ELSE IF homes # {} THEN homes
      ELSE IF n.idx = {} THEN Backends ELSE n.idx

SameBackend(l, r) == Cardinality(l.route) = 1 /\ l.route = r.route

\* JoinNode.calcRoute: two sides on the same single backend become one
\* statement; so does a global side with anything.
RECURSIVE CalcRoute(_)
CalcRoute(n) ==
  IF n.merge THEN [n EXCEPT !.route = RouteOf(n)]
  ELSE LET l == CalcRoute(n.l)
           r == CalcRoute(n.r)
           m == [n EXCEPT !.l = IF AllGlobal(l) THEN [l EXCEPT !.route = r.route] ELSE l, !.r = r]
       IN  IF l.merge /\ r.merge /\ (SameBackend(l, r) \/ AllGlobal(l) \/ AllGlobal(r))
           THEN AsMerge(m)
           ELSE [n EXCEPT !.l = l, !.r = r]

\* setNestLoop
RECURSIVE SetNestLoop(_)
SetNestLoop(n) == IF n.merge THEN n ELSE [n EXCEPT !.l = SetNestLoop(@), !.r = SetNestLoop(@), !.nest = TRUE]

\* Under a nested loop a condition goes to the statement that runs last.
RECURSIVE AddToLast(_, _)
AddToLast(n, f) ==
  IF n.merge THEN [n EXCEPT !.where = @ \cup {f}]
  ELSE IF TabsOf(f) \cap n.r.tabs # {} THEN [n EXCEPT !.r = AddToLast(@, f)]
  ELSE [n EXCEPT !.l = AddToLast(@, f)]

RECURSIVE AddAll(_, _, _)
AddAll(Add(_, _), n, fs) ==
  IF fs = {} THEN n ELSE LET f == CHOOSE f \in fs : TRUE IN AddAll(Add, Add(n, f), fs \ {f})

LeftOthers(n)  == {f \in n.others : TabsOf(f) \subseteq n.l.tabs}
RightOthers(n) == {f \in n.others : TabsOf(f) \subseteq n.r.tabs}
AcrossNone(n)  == {}
Across(n)      == n.others \ (LeftOthers(n) \cup RightOthers(n))

\* An expression over both sides needs a nested loop.
JudgeStrategy(n) == IF n.nest \/ \E f \in Across(n) \cup n.filters : f.k = "sum" THEN SetNestLoop(n) ELSE n

\* Where a nested loop evaluates the conditions; a sort merge join has them as
\* columns of its sides and compares those.
PushOtherFilters(n, fs) == IF n.nest THEN AddAll(AddToLast, n, fs) ELSE n

PushOthers(n) ==
  LET right == [JudgeStrategy(n) EXCEPT !.r = AddAll(AddFilter, @, RightOthers(n))]
  IN  PushOtherFilters(right, Across(n) \cup n.filters)

RECURSIVE HandleOthers(_)
HandleOthers(n) ==
  IF n.merge THEN n ELSE [PushOthers(n) EXCEPT !.l = HandleOthers(@), !.r = HandleOthers(@)]

\* handleJoinOn, after handleOthers of the whole tree.
RECURSIVE HandleJoinOn(_)
HandleJoinOn(n) ==
  IF n.merge THEN n
  ELSE LET m == [n EXCEPT !.l = HandleJoinOn(@), !.r = HandleJoinOn(@)]
       IN  IF n.nest THEN AddAll(AddToLast, m, n.joinOn) ELSE m

-----------------------------------------------------------------------------
(* Execution: sequences of joined rows, since a row may come twice.         *)

\* Conditions over tables that the statement does not have are bound to the
\* row of the enclosing loop.
Statement(n, b, outer) ==
  {row \in Joined(n.from, {b}) : AllHold(n.where, Both(row, outer))}

MergeRows(n, outer) == FlattenSeq([i \in 1..Cardinality(n.route) |->
                          SetToSeq(Statement(n, SetToSeq(n.route)[i], outer))])

Unmatched(n, l) == IF n.left /\ ~n.hasRight THEN <<Both(l, Missing(n.r.tabs))>> ELSE <<>>

\* concatLeftAndRight, concatLeftAndNil: the rows for one left row; the
\* keys and CmpFilter compare as "=" and "<" do, NULL matching nothing.
Concat(n, l, rs) ==
  LET cmps    == IF n.nest THEN {} ELSE n.joinOn \cup n.filters \cup Across(n)
      matches == IF AllHold(LeftOthers(n), l)
                 THEN SelectSeq(rs, LAMBDA r : AllHold(cmps, Both(l, r))) ELSE <<>>
      kept    == SelectSeq(matches, LAMBDA r : AllHold(n.rightNull, r))
  IN  IF matches = <<>> THEN Unmatched(n, l) ELSE [i \in DOMAIN kept |-> Both(l, kept[i])]

\* JoinEngine.Execute and execBindVars.  A join node refuses to hold more
\* than MaxJoinRows rows.
RECURSIVE Exec(_, _)
Exec(n, outer) ==
  IF n.merge THEN [ok |-> TRUE, rows |-> MergeRows(n, outer)]
  ELSE LET ls   == Exec(n.l, outer)
           once == IF n.nest THEN ls ELSE Exec(n.r, outer)
           rs   == [i \in DOMAIN ls.rows |-> IF n.nest THEN Exec(n.r, Both(ls.rows[i], outer)) ELSE once]
           all  == FlattenSeq([i \in DOMAIN ls.rows |-> Concat(n, ls.rows[i], rs[i].rows)])
       IN  [ok   |-> ls.ok /\ once.ok /\ (\A i \in DOMAIN rs : rs[i].ok) /\ Len(all) <= MaxJoinRows,
            rows |-> all]

-----------------------------------------------------------------------------
NoTree == [merge |-> FALSE, tabs |-> {}]

Init == /\ query \in Queries
        /\ \E d \in [FromTabs(query.from) -> Contents] :
              data = [t \in Tables |-> IF t \in DOMAIN d THEN d[t] ELSE {}]
        /\ tree = NoTree /\ result = <<>> /\ pc = "scan"

\* scanTableExprs and pushFilters
BuildTree == /\ pc = "scan"
             /\ tree' = PushWhere(Scan(query.from), query.where)
             /\ pc' = "route"
             /\ UNCHANGED <<data, query, result>>

\* calcRoute and pushSelectExprs
RouteTree == /\ pc = "route"
             /\ tree' = HandleJoinOn(HandleOthers(CalcRoute(tree)))
             /\ pc' = "execute"
             /\ UNCHANGED <<data, query, result>>

\* SelectExecutor
Execute == /\ pc = "execute"
           /\ LET res == Exec(tree, [t \in {} |-> NoRow])
              IN  /\ result' = IF res.ok THEN res.rows ELSE <<>>
                  /\ pc' = IF res.ok THEN "done" ELSE "error"
           /\ UNCHANGED <<data, query, tree>>

Next == BuildTree \/ RouteTree \/ Execute
Spec == Init /\ [][Next]_vars

-----------------------------------------------------------------------------
RECURSIVE Leaves(_)
Leaves(n) == IF n.merge THEN {n} ELSE Leaves(n.l) \cup Leaves(n.r)

\* Every table of the statement is in exactly one leaf of the tree.
JoinTypeOK ==
  /\ pc \in {"scan", "route", "execute", "done", "error"}
  /\ tree # NoTree => /\ tree.tabs = FromTabs(query.from)
                      /\ UNION {n.tabs : n \in Leaves(tree)} = tree.tabs
                      /\ \A m, n \in Leaves(tree) : m # n => m.tabs \cap n.tabs = {}

RECURSIVE FromConds(_)
FromConds(from) == IF IsTab(from) THEN {} ELSE from.on \cup FromConds(from.l) \cup FromConds(from.r)

\* A statement sent to a backend only joins rows that are there: a single
\* table runs at its home, and two hashed tables share a statement only when
\* their keys are equated or the statement runs on one backend (mergeRoutes
\* at join, pushEqualCmprs and calcRoute).
LeavesAreLocal ==
  pc \in {"execute", "done"} =>
    \A n \in Leaves(tree) :
       /\ \A t \in n.tabs \cap Single : n.route = {Home[t]}
       /\ \A t, u \in n.tabs \cap Hashed :
            t = u \/ Cardinality(n.route) = 1
              \/ \E f \in n.where \cup FromConds(n.from) :
                   f.k = "eq" /\ {<<f.t, f.c>>, <<f.u, f.d>>} = {<<t, "id">>, <<u, "id">>}

Times(x, s) == Cardinality({i \in DOMAIN s : s[i] = x})

\* The joined rows are those of one MySQL that held all the tables, each once:
\* pushing the conditions, merging the nodes, choosing a strategy and joining
\* in the proxy change nothing (BuildNode, JoinEngine.Execute).
JoinLikeOneServer ==
  pc = "done" => /\ ToSet(result) = Expected
                 /\ \A x \in Expected : Times(x, result) = 1

=============================================================================
