------------------------------ MODULE MCQueries -----------------------------
(* The statements that the clients of MCStatements send. *)
EXTENDS Integers, Sequences

\* SELECTs.
SelIds == 0..3
NULL == -1
WithNull == {NULL, 1, 2}

Col(x) == [fn |-> "col", col |-> x, dist |-> FALSE]

Fn(fn, x) == [fn |-> fn, col |-> x, dist |-> FALSE]
DistFn(fn, x) == [fn |-> fn, col |-> x, dist |-> TRUE]

Sel(items) == [items |-> items, group |-> <<>>, distinct |-> FALSE, order |-> <<>>,
             lim |-> <<>>, keys |-> SelIds, hav |-> WithNull]
By(q, g) == [q EXCEPT !.group = g]
Sorted(q, cs) == [q EXCEPT !.order = [i \in DOMAIN cs |-> [col |-> cs[i], desc |-> FALSE]]]
Down(q, x) == [q EXCEPT !.order = <<[col |-> x, desc |-> TRUE]>>]
Limited(q, o, n) == [q EXCEPT !.lim = <<o, n>>]
Where(q, ks) == [q EXCEPT !.keys = ks]
Having(q, vs) == [q EXCEPT !.hav = vs]
Dist(q) == [q EXCEPT !.distinct = TRUE]

IdAndA == Sel(<<Col("id"), Col("a")>>)
OnlyA == Sel(<<Col("a")>>)
Aggs == Sel(<<Fn("count", "1"), Fn("avg", "a"), Fn("sum", "a"), Fn("min", "a"), Fn("max", "a"), Fn("count", "a")>>)
PerA == By(Sel(<<Fn("avg", "id"), Col("a"), Fn("count", "1")>>), <<"a">>)

Sorting == {IdAndA, Sorted(IdAndA, <<"a", "id">>), Sorted(OnlyA, <<"id">>), Down(IdAndA, "a"), Where(OnlyA, {0, 2}),
            Where(Sorted(IdAndA, <<"a">>), {0, 1}), Having(OnlyA, {1})}
Limits == {Limited(IdAndA, 0, 1), Limited(Sorted(IdAndA, <<"a">>), 1, 2), Limited(Down(OnlyA, "id"), 1, 1),
           Limited(PerA, 1, 1), Limited(Where(Down(IdAndA, "a"), {0, 2}), 1, 1), Limited(Aggs, 0, 1),
           Limited(IdAndA, 1, 9)}
Grouping == {Aggs, PerA, Sorted(PerA, <<"a">>), Down(PerA, "a"), Dist(OnlyA), Dist(IdAndA),
             Down(Dist(OnlyA), "a"), By(Sel(<<Col("a"), Col("id"), Fn("sum", "a")>>), <<"a", "id">>),
             Having(PerA, {NULL, 2}), Where(PerA, {1}), Limited(Dist(OnlyA), 0, 2)}
Distinctly1 == {Sel(<<DistFn("count", "a")>>), Sel(<<DistFn("sum", "a"), Fn("avg", "a"), Fn("count", "1")>>)}

\* Joins.
Homes == [t \in {"S", "T", "U"} |-> IF t = "T" THEN 1 ELSE 0]

Row(i, x) == [id |-> i, a |-> x]
Small == {{}, {Row(0, 0)}, {Row(1, 0)}, {Row(0, 1), Row(1, 0)}, {Row(0, NULL), Row(1, 1)}, {Row(0, 1), Row(1, 1)}}
Full  == {{Row(i, f[i]) : i \in DOMAIN f} : f \in UNION {[ids -> {NULL, 0, 1}] : ids \in SUBSET {0, 1}}}

Tab(t) == [tab |-> t]
C(k, t, c, u, d, v) == [k |-> k, t |-> t, c |-> c, u |-> u, d |-> d, v |-> v]
Eq(t, c, u, d)  == C("eq", t, c, u, d, 0)
Lt(t, c, u, d)  == C("lt", t, c, u, d, 0)
Add(t, c, u, d) == C("sum", t, c, u, d, 0)
Val(t, c, v)    == C("val", t, c, t, c, v)
IsNull(t, c)    == C("null", t, c, t, c, 0)

In(l, r, on) == [l |-> l, r |-> r, left |-> FALSE, on |-> on]
Lj(l, r, on) == [l |-> l, r |-> r, left |-> TRUE, on |-> on]
Join(from, where) == [from |-> from, where |-> where]

A == Tab("A")
B == Tab("B")
S == Tab("S")
T == Tab("T")
U == Tab("U")
G == Tab("G")

Inner == {Join(In(A, B, {Eq("A", "id", "B", "id")}), {Val("B", "a", 1)}),
          Join(In(A, B, {Eq("A", "a", "B", "a")}), {Val("A", "id", 1), Lt("A", "id", "B", "id")}),
          Join(In(A, B, {}), {Eq("B", "id", "A", "a"), Val("B", "id", 0)}),
          Join(In(A, B, {}), {Eq("B", "id", "A", "id"), Val("B", "id", 0)}),
          Join(In(A, B, {Lt("A", "a", "B", "a")}), {}), Join(In(A, B, {}), {}),
          Join(In(A, B, {Add("A", "a", "B", "a"), Eq("A", "id", "B", "a")}), {Val("A", "a", 1)}),
          Join(In(A, G, {Eq("A", "a", "G", "a")}), {Val("A", "id", 1)}), Join(In(G, A, {}), {Lt("A", "a", "G", "a")}),
          Join(In(S, U, {Eq("S", "a", "U", "a")}), {Val("S", "a", 1), IsNull("U", "a")}),
          Join(In(S, T, {Eq("S", "a", "T", "id")}), {IsNull("T", "a")}),
          Join(In(A, B, {Eq("A", "a", "B", "a")}), {Val("A", "id", 0), Val("B", "id", 0)})}

Outer == {Join(Lj(A, B, {Eq("A", "id", "B", "id"), Val("B", "a", 1)}), {}),
          Join(Lj(A, B, {Eq("A", "a", "B", "a"), Val("A", "id", 1), Val("B", "id", 0)}), {Val("A", "a", 1)}),
          Join(Lj(A, B, {Eq("A", "a", "B", "a"), Lt("A", "id", "B", "id")}), {IsNull("B", "id")}),
          Join(Lj(A, B, {Eq("A", "a", "B", "id")}), {Val("B", "a", 1)}),
          Join(Lj(A, B, {Eq("A", "a", "B", "id")}), {Lt("A", "id", "B", "id")}),
          Join(Lj(A, B, {Eq("A", "a", "B", "id"), Add("A", "id", "B", "a")}), {}),
          Join(Lj(A, B, {Lt("A", "a", "B", "id")}), {Add("A", "id", "B", "a")}),
          Join(Lj(A, B, {Lt("A", "a", "B", "id")}), {IsNull("B", "a"), Val("A", "id", 0)}),
          Join(Lj(A, G, {Eq("A", "a", "G", "a")}), {IsNull("G", "a")}),
          Join(Lj(S, U, {Eq("S", "a", "U", "id")}), {Val("U", "a", 1)}),
          Join(Lj(S, T, {Eq("S", "a", "T", "id")}), {IsNull("T", "id")})}

Three == {Join(In(In(A, B, {Eq("A", "a", "B", "a")}), S, {Eq("S", "id", "B", "id")}), {Val("A", "a", 1)}),
          Join(In(Lj(A, B, {Eq("A", "a", "B", "a")}), S, {Eq("A", "id", "S", "a")}), {Val("A", "a", 1)}),
          Join(Lj(In(A, B, {Eq("A", "id", "B", "id")}), S, {Eq("S", "a", "B", "a"), Add("A", "a", "S", "id")}), {}),
          Join(Lj(Lj(A, B, {Eq("A", "a", "B", "id")}), S, {Eq("A", "id", "S", "a")}), {Val("S", "id", 1)}),
          Join(Lj(A, In(B, S, {Lt("B", "a", "S", "a")}), {Eq("A", "a", "B", "id"), Lt("A", "id", "S", "id")}), {})}

\* UNIONs.
V(bytes) == [null |-> FALSE, raw |-> bytes]

\* Rows whose bytes differ when put together.
Apart == {<<V(<<1>>), V(<<2>>)>>, <<V(<<1>>), V(<<1>>)>>}

P(t, bs) == [tab |-> t, route |-> bs]
A0 == P("A", {0})
A1 == P("A", {1})
AA == P("A", {0, 1})
B0 == P("B", {0})
B1 == P("B", {1})
BB == P("B", {0, 1})
G0 == P("G", {0})

Union(parts, ops, lim) == [parts |-> parts, ops |-> <<"">> \o ops, lim |-> lim]

Good == {Union(<<A0, B0>>, <<"union">>, -1), Union(<<A0, B1>>, <<"union">>, -1), Union(<<A0, A1>>, <<"all">>, 1),
         Union(<<AA, B1>>, <<"all">>, -1), Union(<<G0, A1>>, <<"union">>, -1), Union(<<A1, G0>>, <<"all">>, 2),
         Union(<<A0, B0, G0>>, <<"all", "union">>, -1), Union(<<AA, BB, G0>>, <<"union", "all">>, -1),
         Union(<<G0, AA, B0>>, <<"union", "union">>, 1), Union(<<A0, B1, G0>>, <<"union", "all">>, -1)}

\* INSERT, UPDATE, DELETE.
Is(c, v) == [t |-> "cmp", op |-> "=", col |-> c, vals |-> {v}, lit |-> TRUE, flip |-> FALSE]
Isnt(c, v) == [Is(c, v) EXCEPT !.op = "!="]
OneOf(c, vs) == [Is(c, 0) EXCEPT !.op = "in", !.vals = vs]
Flip(e) == [e EXCEPT !.flip = TRUE]
Columns(op) == [Is("id", 0) EXCEPT !.op = op, !.lit = FALSE]
And(x, y) == [t |-> "and", l |-> x, r |-> y]
Or(x, y) == [t |-> "or", l |-> x, r |-> y]
Paren(x) == [t |-> "paren", e |-> x]
NoWhere == [t |-> "none"]

Base == [kind |-> "insert", rows |-> <<>>, dup |-> 0, dupkey |-> FALSE, haskey |-> TRUE,
         where |-> NoWhere, setkey |-> FALSE, val |-> 0, lim |-> -1]
Insert(rows, dup) == [Base EXCEPT !.rows = rows, !.dup = dup]
Delete(e, n) == [Base EXCEPT !.kind = "delete", !.where = e, !.lim = n]
Update(e, n) == [Base EXCEPT !.kind = "update", !.where = e, !.val = 2, !.lim = n]

Inserts == {Insert(<<Row(1, 1), Row(2, 1), Row(3, 2)>>, 0), Insert(<<Row(1, 1), Row(1, 2)>>, 0), Insert(<<Row(2, 2), Row(3, 1)>>, 2),
            Insert(<<Row(0, 2)>>, 0), Insert(<<Row(3, 1), Row(2, 1), Row(3, 1)>>, 1)}
Wheres == {Is("id", 1), Flip(Is("id", 2)), Is("a", 1), Isnt("id", 1), OneOf("id", {1, 3}), Columns("="), Columns("in"),
           And(Is("a", 1), Is("id", 2)), And(Is("id", 1), OneOf("id", {2, 3})), Paren(And(OneOf("id", {0, 1}), Isnt("a", 2))),
           Or(Is("id", 1), Flip(Is("id", 2))), Or(Is("id", 1), Is("a", 2)), Or(Is("id", 0), Isnt("id", 3)),
           And(Paren(Or(Is("id", 1), Paren(Paren(Is("id", 3))))), Is("a", 1)), Or(And(Is("id", 1), Is("a", 1)), Is("id", 2))}
Refused == {[Insert(<<Row(1, 1)>>, 0) EXCEPT !.haskey = FALSE], [Insert(<<Row(1, 1)>>, 1) EXCEPT !.dupkey = TRUE],
            Update(NoWhere, -1), [Update(Is("id", 1), -1) EXCEPT !.setkey = TRUE]}

AllDml == Inserts \cup {Delete(e, -1) : e \in Wheres} \cup {Update(e, -1) : e \in Wheres} \cup Refused \cup {Delete(NoWhere, -1)}
LimitedDml == Inserts \cup {Delete(Is("id", 1), 1), Update(And(Is("id", 2), Is("a", 1)), 1)}
=============================================================================
