-------------------------------- MODULE Ddl --------------------------------
(***************************************************************************)
(* The DDL statements of one database (proxy/ddl.go, planner/ddl_plan.go,  *)
(* proxy/execute.go): sessions run them at the same time, each one changes *)
(* the router and then, or before, the tables on every backend.  A table   *)
(* has one segment on each backend.  There is no lock over a statement,    *)
(* and a backend applies its part alone.                                   *)
(***************************************************************************)
EXTENDS Naturals, Sequences, FiniteSets

CONSTANTS Sessions, Backends, Tables,
          Statements,   \* the statements that clients send
          BadNames,     \* the names MySQL takes and checkNameInvalid refuses
          MaxStmts,     \* bound on the statements of a behaviour
          MaxFaults     \* bound on the failures of backends

VARIABLES db,       \* whether the router knows the database
          routed,   \* the tables of the router
          dbOn,     \* the backends that have the schema
          phys,     \* backend -> the tables whose segment is there
          ses,      \* session -> its statement and where it is
          stmts, faults

vars == <<db, routed, dbOn, phys, ses, stmts, faults>>

Actions == {"createdb", "dropdb", "create", "drop", "alter", "rename"}
\* "ifx" is IF EXISTS or IF NOT EXISTS, "txn" a statement inside BEGIN.
Stmt == [act : Actions, tabs : Seq(Tables), to : Tables, ifx : BOOLEAN, txn : BOOLEAN]
\* "hit" says that a failure struck the statement; it is in no guard.
Idle(st) == [pc |-> "done", stmt |-> st, todo |-> {}, err |-> FALSE, hit |-> FALSE]

DdlTypeOK ==
    /\ db \in BOOLEAN /\ routed \subseteq Tables /\ dbOn \subseteq Backends
    /\ phys \in [Backends -> SUBSET Tables]
    /\ \A s \in Sessions : /\ ses[s].pc \in {"start", "route", "plan", "exec", "finish", "done"}
                           /\ ses[s].stmt \in Stmt
                           /\ ses[s].todo \subseteq Backends
                           /\ ses[s].err \in BOOLEAN /\ ses[s].hit \in BOOLEAN
                           /\ ses[s].todo # {} => ses[s].pc = "exec"
    /\ stmts \in 0..MaxStmts /\ faults \in 0..MaxFaults

Init == /\ db \in BOOLEAN /\ routed = {}
        /\ dbOn = IF db THEN Backends ELSE {}
        /\ phys = [b \in Backends |-> {}]
        /\ ses \in [Sessions -> {Idle(CHOOSE st \in Statements : TRUE)}]
        /\ stmts = 0 /\ faults = 0

Act(s) == ses[s].stmt.act
Table(s) == Head(ses[s].stmt.tabs)   \* the table the statement is at
At(s, pc, acts) == ses[s].pc = pc /\ Act(s) \in acts

Goto(s, pc) == ses' = [ses EXCEPT ![s].pc = pc]
Return(s, err) == ses' = [ses EXCEPT ![s].pc = "done", ![s].err = err]
Scatter(s) == ses' = [ses EXCEPT ![s].pc = "exec", ![s].todo = Backends]

\* DDLPlan.Build: the statement is written anew for every segment of the table.
Querys == Backends

\* A client sends a statement to handleDDL.
Send(s, st) ==
    /\ ses[s].pc = "done" /\ stmts < MaxStmts
    /\ stmts' = stmts + 1
    /\ ses' = [ses EXCEPT ![s] = [Idle(st) EXCEPT !.pc = "start"]]
    /\ UNCHANGED <<db, routed, dbOn, phys, faults>>

(***************************************************************************)
(* The checks that open each case of the switch.                           *)
(***************************************************************************)
CheckCreateDB(s) ==
    /\ At(s, "start", {"createdb"})
    /\ IF db /\ ses[s].stmt.ifx THEN Return(s, FALSE) ELSE Goto(s, "route")
    /\ UNCHANGED <<db, routed, dbOn, phys, stmts, faults>>

CheckDropDB(s) ==
    /\ At(s, "start", {"dropdb"})
    /\ IF ~db /\ ses[s].stmt.ifx THEN Return(s, FALSE) ELSE Scatter(s)
    /\ UNCHANGED <<db, routed, dbOn, phys, stmts, faults>>

CheckCreate(s) ==
    /\ At(s, "start", {"create"})
    /\ IF ~db THEN Return(s, TRUE)
       ELSE IF ses[s].stmt.ifx /\ Table(s) \in routed THEN Return(s, FALSE)
       ELSE Goto(s, "route")
    /\ UNCHANGED <<db, routed, dbOn, phys, stmts, faults>>

\* The first missing table of a DROP TABLE IF EXISTS returns from the loop.
CheckDrop(s) ==
    /\ At(s, "start", {"drop"})
    /\ IF ~db THEN Return(s, TRUE)
       ELSE IF ses[s].stmt.ifx /\ Table(s) \notin routed THEN Return(s, FALSE)
       ELSE Goto(s, "plan")
    /\ UNCHANGED <<db, routed, dbOn, phys, stmts, faults>>

CheckAlter(s) ==
    /\ At(s, "start", {"alter"})
    /\ IF db /\ Table(s) \in routed THEN Goto(s, "plan") ELSE Return(s, TRUE)
    /\ UNCHANGED <<db, routed, dbOn, phys, stmts, faults>>

CheckRename(s) ==
    /\ At(s, "start", {"rename"})
    /\ IF db /\ Table(s) \in routed /\ ses[s].stmt.to \notin routed
       THEN Goto(s, "plan") ELSE Return(s, TRUE)
    /\ UNCHANGED <<db, routed, dbOn, phys, stmts, faults>>

(***************************************************************************)
(* CREATE changes the router first.                                        *)
(***************************************************************************)
RouteCreateDB(s) ==
    /\ At(s, "route", {"createdb"})
    /\ db' = TRUE
    /\ IF db THEN Return(s, TRUE) ELSE Scatter(s)
    /\ UNCHANGED <<routed, dbOn, phys, stmts, faults>>

RouteCreate(s) ==
    LET ok == db /\ Table(s) \notin routed \union BadNames IN
    /\ At(s, "route", {"create"})
    /\ routed' = IF ok THEN routed \union {Table(s)} ELSE routed
    /\ IF ok THEN Goto(s, "plan") ELSE Return(s, TRUE)
    /\ UNCHANGED <<db, dbOn, phys, stmts, faults>>

\* ExecuteDDL: refused in a transaction; the plan needs the router's segments.
PlanDDL(s) ==
    /\ At(s, "plan", {"create", "drop", "alter", "rename"})
    /\ IF ses[s].stmt.txn \/ Table(s) \notin routed
       THEN ses' = [ses EXCEPT ![s].pc = "finish", ![s].err = TRUE]
       ELSE ses' = [ses EXCEPT ![s].pc = "exec", ![s].todo = Querys]
    /\ UNCHANGED <<db, routed, dbOn, phys, stmts, faults>>

(***************************************************************************)
(* What a backend does with its part of a statement.                       *)
(***************************************************************************)
Accepts(b, st) ==
    LET t == Head(st.tabs) IN
    CASE st.act = "createdb" -> b \notin dbOn \/ st.ifx
      [] st.act = "dropdb"   -> b \in dbOn \/ st.ifx
      [] st.act = "create"   -> b \in dbOn /\ (t \notin phys[b] \/ st.ifx)
      [] st.act = "drop"     -> t \in phys[b] \/ st.ifx
      [] st.act = "alter"    -> t \in phys[b]
      [] st.act = "rename"   -> t \in phys[b] /\ st.to \notin phys[b]

TablesAfter(b, st) ==
    LET t == Head(st.tabs) IN
    CASE st.act = "dropdb" -> {}
      [] st.act = "create" -> phys[b] \union {t}
      [] st.act = "drop"   -> phys[b] \ {t}
      [] st.act = "rename" -> (phys[b] \ {t}) \union {st.to}
      [] OTHER             -> phys[b]

Apply(b, st) ==
    /\ dbOn' = CASE st.act = "createdb" -> dbOn \union {b}
                 [] st.act = "dropdb" -> dbOn \ {b}
                 [] OTHER -> dbOn
    /\ phys' = [phys EXCEPT ![b] = TablesAfter(b, st)]

\* One backend has answered: the group waits for all and keeps the first error.
Answered(s, b, failed, hit) ==
    LET todo == ses[s].todo \ {b} IN
    ses' = [ses EXCEPT ![s].todo = todo, ![s].err = @ \/ failed, ![s].hit = @ \/ hit,
                       ![s].pc = IF todo = {} THEN "finish" ELSE "exec"]

ExecOn(s, b) ==
    /\ ses[s].pc = "exec" /\ b \in ses[s].todo
    /\ IF Accepts(b, ses[s].stmt)
       THEN Apply(b, ses[s].stmt) /\ Answered(s, b, FALSE, FALSE)
       ELSE UNCHANGED <<dbOn, phys>> /\ Answered(s, b, TRUE, FALSE)
    /\ UNCHANGED <<db, routed, stmts, faults>>

\* The backend is not reached, or the answer is lost (a timeout, a kill).
ExecFails(s, b) ==
    /\ ses[s].pc = "exec" /\ b \in ses[s].todo /\ faults < MaxFaults
    /\ faults' = faults + 1
    /\ Answered(s, b, TRUE, TRUE)
    /\ \/ UNCHANGED <<dbOn, phys>>
       \/ Accepts(b, ses[s].stmt) /\ Apply(b, ses[s].stmt)
    /\ UNCHANGED <<db, routed, stmts>>

(***************************************************************************)
(* What follows the backends.                                              *)
(***************************************************************************)
FinishCreateDB(s) ==
    /\ At(s, "finish", {"createdb"})
    /\ Return(s, ses[s].err)
    /\ UNCHANGED <<db, routed, dbOn, phys, stmts, faults>>

FinishAlter(s) ==
    /\ At(s, "finish", {"alter"})
    /\ Return(s, ses[s].err)
    /\ UNCHANGED <<db, routed, dbOn, phys, stmts, faults>>

FinishDropDB(s) ==
    /\ At(s, "finish", {"dropdb"})
    /\ db' = (db /\ ses[s].err)
    /\ routed' = IF ses[s].err THEN routed ELSE {}
    /\ Return(s, ses[s].err \/ ~db)
    /\ UNCHANGED <<dbOn, phys, stmts, faults>>

FinishCreate(s) ==
    /\ At(s, "finish", {"create"})
    /\ routed' = IF ses[s].err THEN routed \ {Table(s)} ELSE routed
    /\ Return(s, ses[s].err)
    /\ UNCHANGED <<db, dbOn, phys, stmts, faults>>

\* The router forgets the table whatever the backends answered.
FinishDrop(s) ==
    /\ At(s, "finish", {"drop"})
    /\ routed' = routed \ {Table(s)}
    /\ IF ses[s].err \/ Len(ses[s].stmt.tabs) = 1
       THEN Return(s, ses[s].err)
       ELSE ses' = [ses EXCEPT ![s].pc = "start", ![s].stmt.tabs = Tail(@)]
    /\ UNCHANGED <<db, dbOn, phys, stmts, faults>>

\* Mutant: the router drops the old name and does not take the new one.
FinishRenameOnly(s) ==
    LET ok == ~ses[s].err /\ db /\ Table(s) \in routed IN
    /\ At(s, "finish", {"rename"})
    /\ routed' = IF ok THEN routed \ {Table(s)} ELSE routed
    /\ Return(s, ~ok)
    /\ UNCHANGED <<db, dbOn, phys, stmts, faults>>

FinishRename(s) ==
    LET st == ses[s].stmt
        ok == ~ses[s].err /\ db /\ Table(s) \in routed /\ st.to \notin routed \union BadNames
    IN
    /\ At(s, "finish", {"rename"})
    /\ routed' = IF ok THEN (routed \ {Table(s)}) \union {st.to} ELSE routed
    /\ Return(s, ~ok)
    /\ UNCHANGED <<db, dbOn, phys, stmts, faults>>

Next == \E s \in Sessions :
    \/ \E st \in Statements : Send(s, st)
    \/ CheckCreateDB(s) \/ CheckDropDB(s) \/ CheckCreate(s)
    \/ CheckDrop(s) \/ CheckAlter(s) \/ CheckRename(s)
    \/ RouteCreateDB(s) \/ RouteCreate(s) \/ PlanDDL(s)
    \/ \E b \in Backends : ExecOn(s, b) \/ ExecFails(s, b)
    \/ FinishCreateDB(s) \/ FinishAlter(s) \/ FinishDropDB(s) \/ FinishCreate(s)
    \/ FinishDrop(s) \/ FinishRename(s)

Spec == Init /\ [][Next]_vars

(***************************************************************************)
(* Properties.                                                             *)
(***************************************************************************)
Quiet == \A s \in Sessions : ses[s].pc = "done"
Everywhere(t) == \A b \in Backends : t \in phys[b]

\* With no statement under way, a table that the router knows has its segment
\* on every backend: handleDDL never leaves a name that answers no query.
NoGhosts == Quiet => /\ \A t \in routed : Everywhere(t)
                     /\ routed # {} => db

\* With no statement under way, a backend holds no table that the router does
\* not know: what handleDDL forgets is really gone, and the name is free.
NoOrphans == Quiet => \A b \in Backends : phys[b] \subseteq routed

\* A statement that reports success did all of its work: every table it names
\* is in the router and on every backend, or in neither (ddl.go:181-410).
OkIsComplete ==
    \A s \in Sessions : ses[s].pc = "done" /\ ~ses[s].err /\ stmts > 0 /\ Cardinality(Sessions) = 1 =>
        LET st == ses[s].stmt
            there(t) == t \in routed /\ Everywhere(t)
            gone(t) == t \notin routed /\ \A b \in Backends : t \notin phys[b]
        IN CASE st.act = "createdb" -> db /\ dbOn = Backends
             [] st.act = "dropdb" -> ~db
             [] st.act = "create" -> there(Head(st.tabs))
             [] st.act = "drop" -> \A i \in DOMAIN st.tabs : IF st.ifx THEN st.tabs[i] \notin routed
                                                               ELSE gone(st.tabs[i])
             [] st.act = "alter" -> there(Head(st.tabs))
             [] st.act = "rename" -> gone(Head(st.tabs)) /\ there(st.to)

\* A database that the router has forgotten holds no data on a backend that
\* answered: DROP DATABASE forgets it only after every backend dropped it.
DropDBLast == Quiet /\ ~db => dbOn = {}

Refused(s, act) == ses[s].pc = "done" /\ Act(s) = act /\ ses[s].err /\ ~ses[s].hit

\* Whatever failed before, CREATE TABLE IF NOT EXISTS and DROP DATABASE IF EXISTS
\* of the only session can be repeated until they succeed: without a failure of
\* its own the one is refused only where the router has no database or refuses
\* the name, or in a transaction, and the other never (ddl.go:181-292).
IfRepeats ==
    Cardinality(Sessions) = 1 =>
        \A s \in Sessions : ses[s].stmt.ifx =>
            /\ Refused(s, "create") => ~db \/ Table(s) \in BadNames \/ ses[s].stmt.txn
            /\ ~Refused(s, "dropdb")

\* A DROP DATABASE that no failure struck is refused only when the router does
\* not know the database: what failed half-way can be repeated.
\* NOT KEPT by the code: see "Known disagreements" in the README.
DropDBRepeats == \A s \in Sessions : Refused(s, "dropdb") => ~db

\* "Try to drop table": a CREATE TABLE that no failure struck is refused only when
\* the router has the table, refuses the name, or has no database.
\* NOT KEPT by the code: see "Known disagreements" in the README.
CreateRepeats ==
    \A s \in Sessions : Refused(s, "create") =>
        ~db \/ Table(s) \in routed \union BadNames \/ ses[s].stmt.txn
=============================================================================
