-------------------------------- MODULE Dml ---------------------------------
(***************************************************************************)
(* INSERT, UPDATE and DELETE on a partitioned table: the plans of          *)
(* src/planner split a statement by segment, with the route that           *)
(* LookupFromWhere (src/planner/builder/expr.go) reads from the WHERE      *)
(* clause, and every segment executes its part.  The shard key is id, the  *)
(* primary key.  The parts of a statement take effect together (module     *)
(* XaCommit); what a literal hashes to is the subject of module Partition. *)
(***************************************************************************)
EXTENDS Integers, Sequences, FiniteSets, SequencesExt

CONSTANTS Method,        \* "hash", "list" or "global"
          Segments,      \* 0..n
          Ids, Values,
          Statements, MaxStatements

DmlAssumption ==
  /\ Method \in {"hash", "list", "global"} /\ MaxStatements \in Nat
  /\ Segments # {} /\ Segments = 0..(Cardinality(Segments) - 1)

VARIABLES seg,     \* segment -> rows
          before,  \* the rows of the table before the last statement
          last,    \* [stmt, answer, affected] of the last statement
          count

vars == <<seg, before, last, count>>

Row == [id : Ids, a : Values]
Table == UNION {seg[s] : s \in Segments}

-----------------------------------------------------------------------------
(* An expression: "cmp" (a column, =, != or in, and literals on the right   *)
(* or, flip, on the left; lit FALSE: compared with the other column),      *)
(* "and", "or", "paren".                                                   *)

RECURSIVE Holds(_, _)
Holds(e, row) ==
  CASE e.t = "and" -> Holds(e.l, row) /\ Holds(e.r, row)
    [] e.t = "or" -> Holds(e.l, row) \/ Holds(e.r, row)
    [] e.t = "paren" -> Holds(e.e, row)
    [] OTHER -> LET same == IF e.lit THEN row[e.col] \in e.vals ELSE row.id = row.a
                IN  IF e.op = "!=" THEN ~same ELSE same

RECURSIVE skipParenthesis(_)
skipParenthesis(e) == IF e.t = "paren" THEN skipParenthesis(e.e) ELSE e

RECURSIVE splitAndExpression(_)
splitAndExpression(e) ==
  IF e.t = "and" THEN splitAndExpression(e.l) \o splitAndExpression(e.r)
  ELSE IF e.t = "paren" /\ e.e.t = "and" THEN splitAndExpression(e.e) ELSE <<e>>

\* splitOrExpression: the equalities of a column and a literal, and the rest.
Splits(e) == e.t = "cmp" /\ e.op = "=" /\ e.lit

RECURSIVE splitOrExpression(_)
splitOrExpression(e) ==
  IF e.t = "or" THEN splitOrExpression(e.l) \o splitOrExpression(e.r)
  ELSE IF e.t = "paren" THEN splitOrExpression(skipParenthesis(e)) ELSE <<e>>

\* Equalities of one column become an IN; anything else stays an OR.
convertOrToIn(e) ==
  IF e.t # "or" THEN e
  ELSE LET subs == ToSet(splitOrExpression(e))
           cols == {x.col : x \in {y \in subs : Splits(y)}}
       IN  IF (\A x \in subs : Splits(x)) /\ Cardinality(cols) = 1
           THEN [t |-> "cmp", op |-> "in", col |-> CHOOSE c \in cols : TRUE, lit |-> TRUE, flip |-> FALSE,
                 vals |-> UNION {x.vals : x \in subs}]
           ELSE e

-----------------------------------------------------------------------------
\* The segment of a key: a list may have none.
SegmentOf(v) ==
  CASE Method = "hash" -> {v % Cardinality(Segments)}
    [] Method = "list" -> {v} \cap Segments
    [] OTHER -> Segments

\* Lookup, GetSegments: an error is the empty set.
LookupKeys(vs) == IF \E v \in vs : SegmentOf(v) = {} THEN {} ELSE UNION {SegmentOf(v) : v \in vs}

\* A filter that decides the route.  A tuple with something else than a literal
\* in it decides for all segments.
Decides(e) == e.t = "cmp" /\ e.col = "id" /\ ~e.flip /\ (e.op = "in" \/ (e.op = "=" /\ e.lit))

LookupFromWhere(where) ==
  LET filters == LET fs == splitAndExpression(where)
                 IN  [i \in DOMAIN fs |-> convertOrToIn(skipParenthesis(fs[i]))]
      at == {i \in DOMAIN filters : Decides(filters[i])}
  IN  IF Method = "global" \/ at = {} THEN Segments
      ELSE LET e == filters[CHOOSE i \in at : \A j \in at : i <= j]
           IN  IF e.lit THEN LookupKeys(e.vals) ELSE Segments

-----------------------------------------------------------------------------
(* A statement on one MySQL table: the outcomes [rows, ok, affected].       *)

RECURSIVE InsertRows(_, _, _)
InsertRows(rows, new, dup) ==
  IF new = <<>> THEN [rows |-> rows, ok |-> TRUE]
  ELSE LET old == {r \in rows : r.id = Head(new).id}
       IN  IF old = {} THEN InsertRows(rows \cup {Head(new)}, Tail(new), dup)
           ELSE IF dup = 0 THEN [rows |-> rows, ok |-> FALSE]
           ELSE InsertRows((rows \ old) \cup {[r EXCEPT !.a = dup] : r \in old}, Tail(new), dup)

Matching(rows, s) == IF s.where.t = "none" THEN rows ELSE {r \in rows : Holds(s.where, r)}

Chosen(rows, s) ==
  {x \in SUBSET Matching(rows, s) :
     Cardinality(x) = IF s.lim = -1 \/ Cardinality(Matching(rows, s)) <= s.lim
                      THEN Cardinality(Matching(rows, s)) ELSE s.lim}

OneTable(rows, s) ==
  CASE s.kind = "insert" ->
         LET res == InsertRows(rows, s.rows, s.dup)
         IN  {IF res.ok THEN [rows |-> res.rows, ok |-> TRUE] ELSE [rows |-> rows, ok |-> FALSE]}
    [] s.kind = "delete" -> {[rows |-> rows \ x, ok |-> TRUE] : x \in Chosen(rows, s)}
    [] OTHER -> {[rows |-> (rows \ x) \cup {[r EXCEPT !.a = s.val] : r \in x}, ok |-> TRUE] : x \in Chosen(rows, s)}

-----------------------------------------------------------------------------
(* Plans.                                                                  *)

\* What the planner does not support: no shard key among the columns, a change of
\* the shard key, an UPDATE without WHERE.
Unsupported(s) ==
  \/ s.kind = "insert" /\ Method # "global" /\ (~s.haskey \/ s.dupkey)
  \/ s.kind = "update" /\ (s.where.t = "none" \/ (s.setkey /\ Method # "global"))

\* The segments of a statement; none: the lookup failed.
Plan(s) ==
  IF s.kind = "insert" THEN LookupKeys({s.rows[i].id : i \in DOMAIN s.rows})
  ELSE IF s.where.t = "none" THEN Segments ELSE LookupFromWhere(s.where)

\* The part of a statement for a segment: of an INSERT the rows of the segment.
PartOf(s, g) == IF s.kind = "insert" THEN [s EXCEPT !.rows = SelectSeq(@, LAMBDA r : g \in SegmentOf(r.id))] ELSE s

Init == /\ seg = [s \in Segments |-> {}] /\ before = {} /\ count = 0
        /\ last = [stmt |-> "none", answer |-> "none"]

Answer(s, a) == last' = [stmt |-> s, answer |-> a] /\ before' = Table /\ count' = count + 1

Refuse(s) ==
  /\ Unsupported(s) \/ Plan(s) = {}
  /\ Answer(s, IF Unsupported(s) THEN "unsupported" ELSE "error") /\ UNCHANGED seg

\* All segments do their part, or none (ExecuteDML).
Execute(s) ==
  /\ ~Unsupported(s) /\ Plan(s) # {}
  /\ \E res \in [Plan(s) -> UNION {OneTable(seg[g], PartOf(s, g)) : g \in Plan(s)}] :
        /\ \A g \in Plan(s) : res[g] \in OneTable(seg[g], PartOf(s, g))
        /\ IF \A g \in Plan(s) : res[g].ok
           THEN /\ seg' = [g \in Segments |-> IF g \in Plan(s) THEN res[g].rows ELSE seg[g]]
                /\ Answer(s, "ok")
           ELSE Answer(s, "duplicate") /\ UNCHANGED seg

Next == count < MaxStatements /\ \E s \in Statements : Refuse(s) \/ Execute(s)
Spec == Init /\ [][Next]_vars

-----------------------------------------------------------------------------
DmlTypeOK ==
  /\ seg \in [Segments -> SUBSET Row] /\ count \in 0..MaxStatements
  /\ Method # "global" => \A g \in Segments : \A r \in seg[g] : SegmentOf(r.id) = {g}

\* The outcome of a statement is one that a single table allows: the same rows
\* are inserted, changed or deleted, and a duplicate key is refused (Build of
\* InsertPlan, UpdatePlan, DeletePlan; LookupFromWhere).
LikeOneTable ==
  last.answer \in {"ok", "duplicate"} =>
     [rows |-> Table, ok |-> last.answer = "ok"] \in OneTable(before, last.stmt)

\* A global table has the same rows on every backend.
SameCopies == Method = "global" => \A g, h \in Segments : seg[g] = seg[h]

\* "An INSERT statement containing an unmatched partitioning column value fails":
\* no other statement does (LookupFromWhere).
\* NOT KEPT by the code: see "Known disagreements" in the README.
OnlyInsertUnmatched == last.answer = "error" => last.stmt.kind = "insert"

=============================================================================
