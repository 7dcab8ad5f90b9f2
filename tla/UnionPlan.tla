----------------------------- MODULE UnionPlan ------------------------------
(***************************************************************************)
(* SELECT ... UNION [ALL] SELECT ...: processUnion and union of            *)
(* src/planner/builder/builder.go decide which parts run as one statement  *)
(* on one backend, and UnionEngine (src/executor/engine/union_engine.go)   *)
(* appends the answers of the others and removes duplicate rows.           *)
(*                                                                         *)
(* A query is its parts [tab, route] (the backends the part's own WHERE    *)
(* routes it to), left to right, with the operator before each of them,    *)
(* and a limit (-1: none).  A value is [null, raw]: raw is its bytes.      *)
(***************************************************************************)
EXTENDS Integers, Sequences, FiniteSets, SequencesExt

CONSTANTS Hashed, Global,  \* the tables
          Backends,
          Rows,            \* the rows a table may hold on a backend
          Queries, MaxRows

VARIABLES data,    \* hashed table -> backend -> rows; global table -> rows
          query,
          node,    \* the plan tree
          next,    \* the next part to plan
          result, pc

vars == <<data, query, node, next, result, pc>>

Places == (Hashed \X Backends) \cup (Global \X {"all"})
RowsAt(t, b) == SetToSeq(data[IF t \in Global THEN <<t, "all">> ELSE <<t, b>>])

-----------------------------------------------------------------------------
(* SQL: the parts of a statement, from the left.  *)

Unique(rows) == SetToSeq(ToSet(rows))

RECURSIVE Combined(_, _)
Combined(answers, ops) ==
  IF Len(answers) = 1 THEN answers[1]
  ELSE LET sofar == Combined(Front(answers), Front(ops)) \o Last(answers)
       IN  IF Last(ops) = "union" THEN Unique(sofar) ELSE sofar

PartRows(p) == FlattenSeq([i \in 1..Cardinality(p.route) |-> RowsAt(p.tab, SetToSeq(p.route)[i])])
Expected == Combined([i \in DOMAIN query.parts |-> PartRows(query.parts[i])], query.ops)

-----------------------------------------------------------------------------
(* Plan nodes: a statement [merge, parts, ops, route, global, refer], where *)
(* refer is referTables: table name -> the part whose name is rewritten to  *)
(* the physical table; or a union node [merge, l, r, op].                   *)

\* processPart, processSelect
PartNode(p) ==
  [merge |-> TRUE, parts |-> <<p>>, ops |-> <<"">>, route |-> p.route,
   global |-> p.tab \in Global, refer |-> [t \in {p.tab} |-> 1]]

OneBackend(l, r) ==
  /\ l.merge /\ r.merge
  /\ Cardinality(l.route) = 1 /\ Cardinality(r.route) = 1
  /\ l.route = r.route \/ l.global \/ r.global

\* union: the right statement joins the left one.  A global left statement
\* takes the right one's backend; referTables is one map for both.
UnionNode(l, r, op) ==
  IF OneBackend(l, r)
  THEN [l EXCEPT !.parts = @ \o r.parts, !.ops = @ \o <<op>> \o Tail(r.ops),
                 !.route = IF l.global THEN r.route ELSE @,
                 !.refer = [t \in DOMAIN l.refer \cup DOMAIN r.refer |->
                              IF t \in DOMAIN r.refer THEN Len(l.parts) + r.refer[t] ELSE l.refer[t]]]
  ELSE [merge |-> FALSE, l |-> l, r |-> r, op |-> op]

-----------------------------------------------------------------------------
\* MergeNode.buildQuery rewrites the tables of referTables; a backend refuses
\* a table it does not have under the name it gets.
Accepted(n) ==
  \A i \in DOMAIN n.parts :
     LET p == n.parts[i]
     IN  p.tab \in Hashed => n.refer[p.tab] = i /\ n.route \subseteq p.route

StatementRows(n) ==
  FlattenSeq([k \in 1..Cardinality(n.route) |->
    Combined([i \in DOMAIN n.parts |-> RowsAt(n.parts[i].tab, SetToSeq(n.route)[k])], n.ops)])

\* The key under which the engine looks for a row it has already kept.
RawKey(row) == FlattenSeq([i \in DOMAIN row |-> row[i].raw])

\* One of the rows of each key is kept, the first one.
Deduped(rows) ==
  LET first == {i \in DOMAIN rows : \A j \in 1..(i-1) : RawKey(rows[j]) # RawKey(rows[i])}
  IN  [k \in 1..Cardinality(first) |-> rows[SetToSortSeq(first, <)[k]]]

\* UnionEngine.Execute
RECURSIVE Exec(_)
Exec(n) ==
  IF n.merge THEN [ok |-> Accepted(n), rows |-> IF Accepted(n) THEN StatementRows(n) ELSE <<>>]
  ELSE LET l == Exec(n.l)
           r == Exec(n.r)
           all == l.rows \o r.rows
       IN  [ok |-> l.ok /\ r.ok, rows |-> IF n.op = "union" THEN Deduped(all) ELSE all]

Init == /\ query \in Queries
        /\ data \in [Places -> {s \in SUBSET Rows : Cardinality(s) <= MaxRows}]
        /\ node = PartNode(query.parts[1]) /\ next = 2
        /\ result = <<>> /\ pc = "plan"

PlanPart == /\ pc = "plan" /\ next <= Len(query.parts)
            /\ node' = UnionNode(node, PartNode(query.parts[next]), query.ops[next])
            /\ next' = next + 1
            /\ UNCHANGED <<data, query, result, pc>>

\* The limit of the whole union is the last operator (or part of the one
\* statement, with the same effect).
Execute == /\ pc = "plan" /\ next > Len(query.parts)
           /\ LET res == Exec(node)
              IN  /\ result' = IF query.lim = -1 \/ Len(res.rows) <= query.lim THEN res.rows
                               ELSE SubSeq(res.rows, 1, query.lim)
                  /\ pc' = IF res.ok THEN "done" ELSE "error"
           /\ UNCHANGED <<data, query, node, next>>

Next == PlanPart \/ Execute
Spec == Init /\ [][Next]_vars

-----------------------------------------------------------------------------
UnionTypeOK ==
  /\ pc \in {"plan", "done", "error"} /\ next \in 2..(Len(query.parts) + 1)
  /\ node.merge => node.route \subseteq Backends /\ Len(node.ops) = Len(node.parts)

Times(x, s) == Cardinality({i \in DOMAIN s : s[i] = x})

\* The rows are those of the union over one server: all of them without a
\* limit, otherwise as many of them as the limit lets through (union,
\* UnionEngine.Execute).
UnionLikeOneServer ==
  pc = "done" =>
    LET right == Expected
    IN  /\ \A x \in ToSet(result) : Times(x, result) <= Times(x, right)
        /\ Len(result) = IF query.lim # -1 /\ query.lim < Len(right) THEN query.lim ELSE Len(right)

\* No backend gets a statement with a table it does not have (union,
\* MergeNode.buildQuery).
UnionAccepted == pc # "error"

=============================================================================
