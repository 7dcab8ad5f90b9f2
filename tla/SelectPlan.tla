----------------------------- MODULE SelectPlan -----------------------------
(***************************************************************************)
(* One SELECT over one sharded table, from the planner                     *)
(* (src/planner/builder) to the rows the client gets                       *)
(* (src/executor/engine).  The planner routes the statement on the shard   *)
(* key, decides what the shards compute and which operators (aggregate,    *)
(* order by, limit) run over their answers; the merge engine collects the  *)
(* answers in whatever order they arrive and runs the operators.           *)
(*                                                                         *)
(* A table row is [id, a]: id is the shard key and the primary key, a is   *)
(* any other column.  A query is                                           *)
(*   items     the select list: [fn, col, dist], fn = "col" for a column   *)
(*   group, distinct, order (of [col, desc]), lim (<<>> or <<off, cnt>>)   *)
(*   keys      the ids of WHERE id IN (...); all of them: no WHERE         *)
(*   hav       the values of HAVING a IN (...); all of them: no HAVING     *)
(* NULL is the integer below every other value, where MySQL sorts it.      *)
(***************************************************************************)
EXTENDS Integers, Sequences, FiniteSets, SequencesExt

CONSTANTS Ids,      \* the keys rows may have
          Values,   \* the values of column a, Null among them
          Shards,   \* the segments of the table: 0 .. n-1
          Queries,  \* the statements clients send
          MaxInt    \* the largest int of the proxy

Null == -1
Scale == 12         \* averages are integers of this scale

VARIABLES table,    \* id -> value of a, for the rows that exist
          query,
          plan,     \* [push, merge, kids]: see Plan
          waiting,  \* the shards that have not answered
          rows,     \* the merged result
          pc        \* "plan", "execute", "operate", "done", "error"

vars == <<table, query, plan, waiting, rows, pc>>

\* The segment of a key: what Partition models is here some function of the key.
ShardOf(id) == id % Cardinality(Shards)
RowsOf(ids) == {[id |-> i, a |-> table[i]] : i \in ids \cap DOMAIN table}

-----------------------------------------------------------------------------
(* What SQL says a query may answer over a set of rows: every sequence of   *)
(* result rows that the statement allows.  MySQL on a shard gives any one   *)
(* of them, and the client is entitled to one of them over all the rows.    *)

IsAgg(item) == item.fn # "col"

Plus(x, y) == IF x = Null THEN y ELSE IF y = Null THEN x ELSE x + y
SumOf(vals) == FoldSeq(Plus, Null, vals)
Least(vals) == IF vals = <<>> THEN Null ELSE CHOOSE x \in ToSet(vals) : \A y \in ToSet(vals) : x <= y
Greatest(vals) == IF vals = <<>> THEN Null ELSE CHOOSE x \in ToSet(vals) : \A y \in ToSet(vals) : x >= y
Divide(x, n) == IF n = 0 \/ x = Null THEN Null ELSE (Scale * x) \div n

\* An aggregate function over a sequence of values, NULLs left out.
Aggregated(fn, vals) ==
  CASE fn = "sum"   -> SumOf(vals)
    [] fn = "count" -> Len(vals)
    [] fn = "min"   -> Least(vals)
    [] fn = "max"   -> Greatest(vals)
    [] fn = "avg"   -> Divide(SumOf(vals), Len(vals))

NotNull(v) == v # Null
Distinctly(item, vals) ==
  LET some == SelectSeq(vals, NotNull)
  IN  IF item.dist THEN SetToSeq(ToSet(some)) ELSE some

\* Column "1" is the literal that stands for the star of count(*).
Col(row, c) == IF c = "1" THEN 1 ELSE row[c]

EvalItem(item, grp, rep) ==
  IF ~IsAgg(item) THEN Col(rep, item.col)
  ELSE LET vs == [i \in 1..Cardinality(grp) |-> Col(SetToSeq(grp)[i], item.col)]
       IN  Aggregated(item.fn, Distinctly(item, vs))

HasAgg(q) == \E i \in DOMAIN q.items : IsAgg(q.items[i])

\* The groups a query forms; a plain select has each row in its own.
GroupsOf(q, rs) ==
  IF q.group # <<>>
  THEN {{r \in rs : \A i \in DOMAIN q.group : r[q.group[i]] = s[q.group[i]]} : s \in rs}
  ELSE IF HasAgg(q) THEN {rs} ELSE {{r} : r \in rs}

Before(order, r, s) ==
  \E i \in DOMAIN order :
     /\ \A j \in 1..(i-1) : r[order[j].col] = s[order[j].col]
     /\ IF order[i].desc THEN r[order[i].col] > s[order[i].col]
                         ELSE r[order[i].col] < s[order[i].col]

NoRow == [id |-> Null, a |-> Null]

\* The representatives a group may be shown by: with ONLY_FULL_GROUP_BY off
\* MySQL takes any row of the group for a column that is not grouped by.
Reps(grps) == {f \in [grps -> UNION grps \cup {NoRow}] :
                 \A g \in grps : IF g = {} THEN f[g] = NoRow ELSE f[g] \in g}

Window(seq, lim) ==
  IF lim = <<>> THEN seq ELSE SubSeq(seq, lim[1] + 1, IF lim[1] + lim[2] < Len(seq) THEN lim[1] + lim[2] ELSE Len(seq))

Shown(q, rep, grp) == [i \in DOMAIN q.items |-> EvalItem(q.items[i], grp, rep)]

\* What DISTINCT leaves of a row to sort by.
Visible(q, row) ==
  [c \in {"id", "a"} |-> IF \E i \in DOMAIN q.items : q.items[i].col = c THEN row[c] ELSE Null]

\* One record per result row; DISTINCT keeps one of those shown alike.
Elements(q, grps, f) ==
  IF q.distinct
  THEN {[out |-> Shown(q, f[g], g), rep |-> Visible(q, f[g])] : g \in {h \in grps : f[h].a \in q.hav}}
  ELSE {[out |-> Shown(q, f[g], g), rep |-> f[g]] : g \in {h \in grps : f[h].a \in q.hav}}

Orderings(q, els) ==
  {s \in [1..Cardinality(els) -> els] :
     /\ \A i, j \in DOMAIN s : i < j => s[i] # s[j] /\ ~Before(q.order, s[j].rep, s[i].rep)}

Outs(s) == [i \in DOMAIN s |-> s[i].out]

SqlAnswers(q, rs) ==
  LET chosen == {r \in rs : r.id \in q.keys}
      grps   == GroupsOf(q, chosen)
  IN  UNION {{Window(Outs(s), q.lim) : s \in Orderings(q, Elements(q, grps, f))} : f \in Reps(grps)}

-----------------------------------------------------------------------------
(* The planner.  *)

\* MergeNode.calcRoute: the segments the key values of WHERE fall in.
Route(q) == IF q.keys = Ids THEN Shards ELSE {ShardOf(k) : k \in q.keys}

ColItems(q) == [i \in DOMAIN q.items |-> q.items[i].col]

\* checkGroupBy: a group by that holds the shard key is left to the shards.
CheckGroupBy(q) == IF "id" \in ToSet(q.group) THEN <<>> ELSE q.group

\* checkDistinct: SELECT DISTINCT becomes a GROUP BY of the whole list.
CheckDistinct(q) ==
  IF ~q.distinct \/ q.group # <<>> THEN [q |-> q, groups |-> CheckGroupBy(q)]
  ELSE [q      |-> [q EXCEPT !.group = ColItems(q), !.distinct = FALSE],
        groups |-> IF "id" \in ToSet(ColItems(q)) THEN <<>> ELSE ColItems(q)]

\* setAggregatorType: DISTINCT functions are not pushed.
AggrType(q) == IF ~HasAgg(q) THEN "nullAgg"
               ELSE IF \E i \in DOMAIN q.items : q.items[i].dist THEN "notPush" ELSE "canPush"

Plain(c) == [fn |-> "col", col |-> c, dist |-> FALSE]

DecomposeAvg(item) == <<[item EXCEPT !.fn = "sum"], [item EXCEPT !.fn = "count"]>>

\* AggregatePlan.analyze: avg is fetched as a sum and a count; when the
\* functions cannot be pushed their arguments are fetched instead.
Rewritten(item, push) ==
  IF ~IsAgg(item) THEN <<item>>
  ELSE IF ~push THEN <<Plain(item.col)>>
  ELSE IF item.fn = "avg" THEN DecomposeAvg(item)
  ELSE <<item>>

RewriteAll(items, push) == FlattenSeq([i \in DOMAIN items |-> Rewritten(items[i], push)])

\* Where the i-th item of the list is among the rewritten ones.
At(items, push, i) == Len(RewriteAll(SubSeq(items, 1, i - 1), push)) + 1

Asc(c) == [col |-> c, desc |-> FALSE]
Extra(q) == SelectSeq(q.order, LAMBDA o : o.col \notin ToSet(ColItems(q)))

\* MergeNode.pushSelectExprs, pushHaving, pushOrderBy and pushLimit: what
\* goes to the shards and the operators left to run here.
Pushed(q, aggregating) ==
  [q EXCEPT
     !.items = (IF aggregating THEN RewriteAll(q.items, AggrType(q) = "canPush") ELSE q.items)
                 \o [i \in DOMAIN Extra(q) |-> Plain(Extra(q)[i].col)],
     !.order = IF q.order = <<>> THEN [i \in DOMAIN q.group |-> Asc(q.group[i])] ELSE q.order]

\* LimitPlan.Build: the shards are asked for the first offset + count rows,
\* unless they group.
PushLimit(q) == IF q.lim = <<>> \/ q.group # <<>> THEN <<>> ELSE <<0, q.lim[1] + q.lim[2]>>

Kids(q, groups) ==
  LET aggregating == ~(q.group # <<>> /\ groups = <<>>) /\ (AggrType(q) # "nullAgg" \/ groups # <<>>)
  IN  (IF aggregating THEN <<"aggregate">> ELSE <<>>)
        \o (IF q.order # <<>> \/ (q.group # <<>> /\ ~aggregating) THEN <<"orderby">> ELSE <<>>)
        \o (IF q.lim # <<>> THEN <<"limit">> ELSE <<>>)

BuildPlan(q) ==
  IF Cardinality(Route(q)) = 1
  THEN [push |-> q, groups |-> <<>>, kids |-> <<>>, q |-> q]
  ELSE LET cd   == CheckDistinct(q)
           kids == Kids(cd.q, cd.groups)
       IN  [push   |-> [Pushed(cd.q, "aggregate" \in ToSet(kids)) EXCEPT !.lim = PushLimit(cd.q)],
            groups |-> cd.groups, kids |-> kids, q |-> cd.q]

-----------------------------------------------------------------------------
(* The operators of the merge engine.  A result row is a sequence.  *)

Column(rs, k) == SelectSeq([i \in DOMAIN rs |-> rs[i][k]], NotNull)

\* Aggregation.Update and GetResults: partial results of the shards are
\* combined; arguments that were fetched raw are aggregated here.
Combine(item, rs, k, push) ==
  CASE ~IsAgg(item)       -> IF rs = <<>> THEN Null ELSE rs[1][k]
    [] IsAgg(item) /\ ~push -> Aggregated(item.fn, Distinctly(item, Column(rs, k)))
    [] push /\ item.fn \in {"sum", "count"} -> SumOf(Column(rs, k))
    [] push /\ item.fn = "avg" -> Divide(SumOf(Column(rs, k)), SumOf(Column(rs, k + 1)))
    [] push /\ item.fn \in {"min", "max"} -> Aggregated(item.fn, Column(rs, k))

\* Sorted by the group keys, equal keys merged, avg's second column removed;
\* without a row there is still one row of aggregates.
Aggregate(p, rs) ==
  LET push    == AggrType(p.q) = "canPush"
      keyAt   == [i \in DOMAIN p.groups |->
                    At(p.q.items, push, CHOOSE n \in DOMAIN p.q.items : p.q.items[n] = Plain(p.groups[i]))]
      Key(r)  == [i \in DOMAIN p.groups |-> r[keyAt[i]]]
      keys    == {Key(rs[i]) : i \in DOMAIN rs}
      Less(k, l) == \E i \in DOMAIN k : k[i] < l[i] /\ \A j \in 1..(i-1) : k[j] = l[j]
      Merged(grp) == [i \in DOMAIN p.q.items |-> Combine(p.q.items[i], grp, At(p.q.items, push, i), push)]
      sorted  == SetToSortSeq(keys, Less)
  IN  IF rs = <<>> THEN IF HasAgg(p.q) THEN <<Merged(<<>>)>> ELSE <<>>
      ELSE [n \in DOMAIN sorted |-> Merged(SelectSeq(rs, LAMBDA r : Key(r) = sorted[n]))]

\* OrderByOperator: the columns are found by name; the ones added for the
\* sort are removed.  sort.Slice is not stable, so equal keys come in any order.
OrderAt(p, c) ==
  IF c \in ToSet(ColItems(p.q))
  THEN CHOOSE n \in DOMAIN p.q.items : p.q.items[n] = Plain(c)
  ELSE Len(p.q.items) + CHOOSE n \in DOMAIN Extra(p.q) : Extra(p.q)[n].col = c

Sorts(p, rs) ==
  LET by == p.push.order
      Smaller(r, s) == \E i \in DOMAIN by :
        /\ \A j \in 1..(i-1) : r[OrderAt(p, by[j].col)] = s[OrderAt(p, by[j].col)]
        /\ LET x == r[OrderAt(p, by[i].col)] y == s[OrderAt(p, by[i].col)]
           IN  IF by[i].desc THEN x > y ELSE x < y
  IN  {[n \in DOMAIN rs |-> SubSeq(rs[f[n]], 1, Len(p.q.items))] :
         f \in {g \in [DOMAIN rs -> DOMAIN rs] :
                  \A i, j \in DOMAIN rs : i < j => g[i] # g[j] /\ ~Smaller(rs[g[j]], rs[g[i]])}}

-----------------------------------------------------------------------------
Init == /\ table \in UNION {[ids -> Values] : ids \in SUBSET Ids}
        /\ query \in Queries
        /\ plan = <<>> /\ waiting = {} /\ rows = <<>> /\ pc = "plan"

\* SelectPlan.Build: BuildNode and the queries of each segment.
Build == /\ pc = "plan"
         /\ plan' = BuildPlan(query)
         /\ waiting' = Route(query)
         /\ pc' = "execute"
         /\ UNCHANGED <<table, query, rows>>

Fits(lim) == IF lim = <<>> THEN TRUE ELSE lim[2] <= MaxInt

\* A shard answers the pushed query; Txn.execute appends its rows as they
\* arrive.  A count that does not fit an int is printed negative, which no
\* shard accepts.
ShardAnswers(s) ==
  /\ pc = "execute" /\ s \in waiting
  /\ Fits(plan.push.lim)
  /\ \E ans \in SqlAnswers(plan.push, RowsOf({i \in Ids : ShardOf(i) = s})) : rows' = rows \o ans
  /\ waiting' = waiting \ {s}
  /\ pc' = IF waiting = {s} THEN "operate" ELSE pc
  /\ UNCHANGED <<table, query, plan>>

ShardRefuses(s) ==
  /\ pc = "execute" /\ s \in waiting
  /\ ~Fits(plan.push.lim)
  /\ rows' = <<>> /\ waiting' = {} /\ pc' = "error"
  /\ UNCHANGED <<table, query, plan>>

\* ExecSubPlan: the operators in the order they were planned.
Operate ==
  /\ pc = "operate"
  /\ IF plan.kids = <<>> THEN pc' = "done" /\ UNCHANGED <<plan, rows>>
     ELSE /\ rows' \in CASE Head(plan.kids) = "aggregate" -> {Aggregate(plan, rows)}
                         [] Head(plan.kids) = "orderby"   -> Sorts(plan, rows)
                         [] Head(plan.kids) = "limit"     -> {Window(rows, plan.q.lim)}
          /\ plan' = [plan EXCEPT !.kids = Tail(@)]
          /\ UNCHANGED pc
  /\ UNCHANGED <<table, query, waiting>>

Next == Build \/ (\E s \in Shards : ShardAnswers(s) \/ ShardRefuses(s)) \/ Operate

Spec == Init /\ [][Next]_vars

-----------------------------------------------------------------------------
SelectTypeOK ==
  /\ waiting \subseteq Shards
  /\ pc \in {"plan", "execute", "operate", "done", "error"}
  /\ \A i \in DOMAIN rows : \A k \in DOMAIN rows[i] : rows[i][k] \in Int

\* The rows a client gets are rows the same statement could return from one
\* MySQL that held the whole table: what BuildNode pushes to the shards and
\* what the operators do with the answers add up to the statement, whenever
\* a grouping has a row to group.
AnswersLikeOneServer ==
  pc = "done" => LET right == SqlAnswers(query, RowsOf(Ids))
                 IN  rows \in right \/ (query.group # <<>> /\ right = {<<>>})

\* A GROUP BY that selects no row answers no row (aggregate adds the row of
\* empty aggregates only where the statement has one).
NothingFromNothing ==
  pc = "done" /\ SqlAnswers(query, RowsOf(Ids)) = {<<>>} => rows = <<>>

\* A statement MySQL accepts is not refused by the shards because of what the
\* planner made of it (LimitPlan.Build).
\* NOT KEPT by the code: see "Known disagreements" in the README.
NeverRefused == pc # "error"

=============================================================================
