-------------------------------- MODULE Attach ------------------------------
(***************************************************************************)
(* NEODB ATTACH and NEODB DETACH (proxy/admin_attach.go): the tables of a  *)
(* MySQL server are entered into the router as single tables, after each   *)
(* has been created for a try in a check database on the normal backends.  *)
(* One administrator, and clients that create databases and tables in      *)
(* between; every call to a backend, every removal of a file and the write *)
(* of backend.json may fail.                                               *)
(***************************************************************************)
EXTENDS Integers, FiniteSets

CONSTANTS Normal,     \* a normal backend, for all of them
          Server,     \* the server to attach
          Has,        \* database -> the tables Server has in it
          Own,        \* database -> tables clients may create
          Detaches,   \* names NEODB DETACH is given
          KeepEmpty,  \* clients create no database without a table in it
          Races,      \* clients create tables while a handler runs
          MaxFaults, None

AttachAssumption == /\ Normal # Server /\ DOMAIN Has \subseteq DOMAIN Own
                    /\ MaxFaults \in Nat /\ {KeepEmpty, Races} \subseteq BOOLEAN

Databases == DOMAIN Own

VARIABLES backends,  \* of the scatter
          file,      \* backend.json
          router,    \* database -> None or table -> backend
          left,      \* files of tables (None: directories) the router has forgotten
          disk,      \* the databases on the normal backends
          check,     \* the tables in the check database; None: there is none
          st,        \* the handler
          before,    \* the router when the handler began, None once a client changed it
          faults

vars == <<backends, file, router, left, disk, check, st, before, faults>>

Empty == [t \in {} |-> Normal]
Idle == [step |-> "idle", kind |-> "none", answer |-> "none"]

Init == /\ backends = {Normal} /\ file = {Normal} /\ check = None /\ st = Idle /\ faults = 0
        /\ router = [d \in Databases |-> None] /\ left = {} /\ disk = {} /\ before = None

Known == {d \in Databases : router[d] # None}
Tables(d) == IF router[d] = None THEN {} ELSE DOMAIN router[d]
Added(r, d, t, b) == [r EXCEPT ![d] = [u \in DOMAIN @ \cup {t} |-> IF u = t THEN b ELSE @[u]]]
Without(r, d, ts) == [r EXCEPT ![d] = IF @ = None THEN None ELSE [u \in DOMAIN @ \ ts |-> @[u]]]

Fault == faults < MaxFaults /\ faults' = faults + 1

\* The handler returns, or its session panics.
Ends(k, a) == st' = [step |-> "idle", kind |-> k, answer |-> a]

\* CreateDatabase of the router, and the single tables it is given.
Enter(d, r) ==
  /\ router' = [router EXCEPT ![d] = r]
  /\ left' = left \ ({<<d, None>>} \cup {<<d, t>> : t \in DOMAIN r})

\* DropTable and DropDatabase of the router: the memory first, then the files.
DropTable(d, t) == router' = Without(router, d, {t}) /\ left' = left \ {<<d, t>>}
DropTableFails(d, t) == router' = Without(router, d, {t}) /\ left' = left \cup {<<d, t>>}
DropDatabase(d) == /\ router' = [router EXCEPT ![d] = None]
                   /\ left' = {e \in left : e[1] # d}
DropDatabaseFails(d) == /\ router' = [router EXCEPT ![d] = None]
                        /\ left' = left \cup {<<d, t>> : t \in Tables(d) \cup {None}}

-----------------------------------------------------------------------------
\* Clients: CREATE DATABASE, and CREATE TABLE on the normal backends.
CreateDatabase(d) ==
  /\ Races \/ st.step = "idle"
  /\ router[d] = None /\ d \notin disk
  /\ Enter(d, IF KeepEmpty THEN [t \in {"own"} |-> Normal] ELSE Empty)
  /\ disk' = disk \cup {d} /\ before' = None
  /\ UNCHANGED <<backends, file, check, st, faults>>

CreateTable(d, t) ==
  /\ Races \/ st.step = "idle"
  /\ router[d] # None /\ d \in disk /\ t \in Own[d] \ Tables(d)
  /\ Enter(d, Added(router, d, t, Normal)[d]) /\ before' = None
  /\ UNCHANGED <<backends, file, disk, check, st, faults>>

-----------------------------------------------------------------------------
\* addAttachHandler

Start == /\ st.step = "idle" /\ Server \notin backends
         /\ backends' = backends \cup {Server} /\ before' = router
         /\ st' = [step |-> "databases", made |-> {}, list |-> {}]
         /\ UNCHANGED <<file, router, left, disk, check, faults>>

\* An error: the deferred function removes the backend from the scatter (it is
\* there: one administrator) ...
Undo == /\ backends' = backends \ {Server}
        /\ st' = [step |-> "undo", made |-> st.made,
                  list |-> {e \in st.list : e[1] \notin st.made}]
        /\ UNCHANGED <<file, router, left, disk, before>>

\* Mutant: the table stays in the router.
UndoTableSkips(e) ==
  /\ st.step = "undo" /\ e \in st.list /\ st' = [st EXCEPT !.list = @ \ {e}]
  /\ UNCHANGED <<backends, file, router, left, disk, check, before, faults>>

\* ... the tables that were entered into databases the router had ...
UndoTable(e) ==
  /\ st.step = "undo" /\ e \in st.list /\ st' = [st EXCEPT !.list = @ \ {e}]
  /\ \/ DropTable(e[1], e[2]) /\ UNCHANGED faults
     \/ DropTableFails(e[1], e[2]) /\ Fault
  /\ UNCHANGED <<backends, file, disk, check, before>>

\* ... and the databases that were entered, with their tables.  What fails is logged.
UndoDatabase(d) ==
  /\ st.step = "undo" /\ st.list = {} /\ d \in st.made /\ st' = [st EXCEPT !.made = @ \ {d}]
  /\ \/ DropDatabase(d) /\ UNCHANGED faults
     \/ DropDatabaseFails(d) /\ Fault
  /\ UNCHANGED <<backends, file, disk, check, before>>

UndoEnd ==
  /\ st.step = "undo" /\ st.list = {} /\ st.made = {} /\ Ends("attach", "error")
  /\ UNCHANGED <<backends, file, router, left, disk, check, before, faults>>

ShowDatabases ==
  /\ st.step = "databases"
  /\ \/ Fault /\ Undo /\ UNCHANGED check
     \/ /\ st' = [step |-> "each", todo |-> DOMAIN Has, known |-> Known,
                  db |-> None, tables |-> {}, made |-> {}, list |-> {}]
        /\ UNCHANGED <<backends, file, router, left, disk, check, before, faults>>

\* The databases the router did not know when the handler asked are created.
EnterDatabase(d) ==
  /\ st.step = "each" /\ st.db = None /\ d \in st.todo /\ d \notin st.known
  /\ \/ Fault /\ Undo /\ UNCHANGED check
     \/ /\ disk' = disk \cup {d} /\ UNCHANGED <<backends, file, check, before, faults>>
        /\ IF router[d] = None
           THEN Enter(d, Empty) /\ st' = [st EXCEPT !.db = d, !.made = @ \cup {d}]
           ELSE st' = [st EXCEPT !.step = "fail"] /\ UNCHANGED <<router, left>>

KnownDatabase(d) ==
  /\ st.step = "each" /\ st.db = None /\ d \in st.todo /\ d \in st.known
  /\ st' = [st EXCEPT !.db = d]
  /\ UNCHANGED <<backends, file, router, left, disk, check, before, faults>>

\* The router refuses what the handler enters.
Fail == st.step = "fail" /\ Undo /\ UNCHANGED <<check, faults>>

\* createAttachCheckDatabase: its error is not looked at.
ShowTables ==
  /\ st.step = "each" /\ st.db # None /\ st.db \in st.todo
  /\ \/ Fault /\ Undo /\ UNCHANGED check
     \/ /\ st' = [st EXCEPT !.tables = Has[st.db], !.todo = @ \ {st.db}]
        /\ \/ check' = (IF check = None THEN {} ELSE check) /\ UNCHANGED faults
           \/ Fault /\ UNCHANGED check
        /\ UNCHANGED <<backends, file, router, left, disk, before>>

\* checkTableValid
Valid(t) == check # None /\ t \notin check

\* CreateNonPartTable
EnterTable(t) ==
  /\ st.step = "each" /\ st.db # None /\ st.db \notin st.todo /\ t \in st.tables
  /\ \/ Fault /\ Undo /\ UNCHANGED check
     \/ ~Valid(t) /\ Undo /\ UNCHANGED <<check, faults>>
     \/ /\ Valid(t) /\ check' = check \cup {t}
        /\ IF router[st.db] = None \/ t \in Tables(st.db)
           THEN st' = [st EXCEPT !.step = "fail"] /\ UNCHANGED <<router, left>>
           ELSE /\ Enter(st.db, Added(router, st.db, t, Server)[st.db])
                /\ st' = [st EXCEPT !.tables = @ \ {t}, !.list = @ \cup {<<st.db, t>>}]
        /\ UNCHANGED <<backends, file, disk, before, faults>>

\* dropAttachCheckDatabase: its error is not looked at.
DropCheck == \/ check' = None /\ UNCHANGED faults
             \/ Fault /\ UNCHANGED check

EndDatabase ==
  /\ st.step = "each" /\ st.db # None /\ st.db \notin st.todo /\ st.tables = {}
  /\ DropCheck /\ st' = [st EXCEPT !.db = None]
  /\ UNCHANGED <<backends, file, router, left, disk, before>>

\* FlushConfig panics when it cannot write backend.json, and nothing is undone.
Finish ==
  /\ st.step = "each" /\ st.db = None /\ st.todo = {}
  /\ \/ file' = backends /\ DropCheck /\ Ends("attach", "ok")
     \/ Fault /\ Ends("attach", "panic") /\ UNCHANGED <<file, check>>
  /\ UNCHANGED <<backends, router, left, disk, before>>

-----------------------------------------------------------------------------
\* detachHandler.  The databases of the detached backend: those of Server, or all
\* of a normal backend.

OnBackend(n) == IF n = Server THEN DOMAIN Has ELSE disk

Detach(n) ==
  /\ st.step = "idle" /\ n \in backends /\ before' = router
  /\ \/ /\ st' = [step |-> "detach", name |-> n, todo |-> OnBackend(n) \cap Known, db |-> None,
                  rest |-> {}, tables |-> [d \in Databases |-> Tables(d)], count |-> 0]
        /\ UNCHANGED faults
     \/ Fault /\ Ends("detach", "error")
  /\ UNCHANGED <<backends, file, router, left, disk, check>>

\* Of the tables the handler has listed, those on the backend ...
DetachDatabase(d) ==
  LET mine == {t \in st.tables[d] \cap Tables(d) : router[d][t] = st.name} IN
  /\ st.step = "detach" /\ st.db = None /\ d \in st.todo
  /\ st' = [st EXCEPT !.db = d, !.todo = @ \ {d}, !.rest = mine, !.count = Cardinality(mine)]
  /\ UNCHANGED <<backends, file, router, left, disk, check, before, faults>>

\* ... leave the router one by one; an error ends the handler, with no undo.
DetachTable(t) ==
  /\ st.step = "detach" /\ st.db # None /\ t \in st.rest
  /\ \/ DropTable(st.db, t) /\ st' = [st EXCEPT !.rest = @ \ {t}] /\ UNCHANGED faults
     \/ DropTableFails(st.db, t) /\ Fault /\ Ends("detach", "error")
  /\ UNCHANGED <<backends, file, disk, check, before>>

\* A database that had no others is dropped on the normal backends.
DetachDrop ==
  LET all == st.count = Cardinality(st.tables[st.db]) IN
  /\ st.step = "detach" /\ st.db # None /\ st.rest = {}
  /\ \/ /\ disk' = (IF all THEN disk \ {st.db} ELSE disk)
        /\ st' = [st EXCEPT !.db = None] /\ UNCHANGED faults
     \/ all /\ Fault /\ Ends("detach", "error") /\ UNCHANGED disk
  /\ UNCHANGED <<backends, file, router, left, check, before>>

\* The databases without tables are listed ...
DetachList ==
  /\ st.step = "detach" /\ st.db = None /\ st.todo = {}
  /\ st' = [step |-> "empty", name |-> st.name, todo |-> {d \in Known : Tables(d) = {}}]
  /\ UNCHANGED <<backends, file, router, left, disk, check, before, faults>>

\* ... and leave the router.
DetachEmpty(d) ==
  /\ st.step = "empty" /\ d \in st.todo
  /\ \/ DropDatabase(d) /\ st' = [st EXCEPT !.todo = @ \ {d}] /\ UNCHANGED faults
     \/ DropDatabaseFails(d) /\ Fault /\ Ends("detach", "error")
  /\ UNCHANGED <<backends, file, disk, check, before>>

\* The backend leaves the scatter, and FlushConfig writes the others.
DetachEnd ==
  /\ st.step = "empty" /\ st.todo = {} /\ backends' = backends \ {st.name}
  /\ \/ file' = backends' /\ Ends("detach", "ok") /\ UNCHANGED faults
     \/ Fault /\ Ends("detach", "panic") /\ UNCHANGED file
  /\ UNCHANGED <<router, left, disk, check, before>>

Next == \/ Start \/ ShowDatabases \/ Fail \/ ShowTables \/ EndDatabase \/ Finish \/ UndoEnd
        \/ DetachDrop \/ DetachList \/ DetachEnd
        \/ \E d \in Databases : \/ CreateDatabase(d) \/ EnterDatabase(d) \/ KnownDatabase(d) \/ UndoDatabase(d)
                                \/ DetachDatabase(d) \/ DetachEmpty(d)
                                \/ \E t \in Own[d] : CreateTable(d, t)
        \/ \E t \in UNION {Has[d] : d \in DOMAIN Has} : EnterTable(t) \/ \E d \in Databases : UndoTable(<<d, t>>)
        \/ \E t \in {"own"} \cup UNION {Own[d] : d \in Databases} : DetachTable(t)
        \/ \E n \in Detaches : Detach(n)

Spec == Init /\ [][Next]_vars

-----------------------------------------------------------------------------
AttachTypeOK == /\ st.step \in {"idle", "databases", "each", "fail", "undo", "detach", "empty"}
                /\ backends \subseteq {Normal, Server} /\ file \subseteq {Normal, Server}
                /\ \A e \in left : e[1] \in Databases
                /\ \A d \in Databases : router[d] # None => \A t \in Tables(d) : router[d][t] \in {Normal, Server}

\* When no attach is going on, every table the router knows is on a backend the
\* scatter knows, whatever failed (addAttachHandler, detachHandler).
RoutedToKnown == st.step = "idle" => \A d \in Known : \A t \in Tables(d) : router[d][t] \in backends

\* A failed attach that no client ran into leaves router and scatter as they were,
\* whichever steps of the undo itself fail: they forget the table first.
FailedUndone ==
  st.step = "idle" /\ st.kind = "attach" /\ st.answer = "error" /\ before # None =>
    router = before /\ Server \notin backends

\* The router with the tables of the server, and without them.
WithServer(r) ==
  [d \in Databases |->
     IF d \notin DOMAIN Has THEN r[d]
     ELSE LET own == IF r[d] = None THEN Empty ELSE r[d]
          IN [t \in DOMAIN own \cup Has[d] |-> IF t \in Has[d] THEN Server ELSE own[t]]]
WithoutServer(r) ==
  [d \in Databases |->
     LET kept == {t \in (IF r[d] = None THEN {} ELSE DOMAIN r[d]) : r[d][t] # Server}
     IN IF kept = {} THEN None ELSE [t \in kept |-> r[d][t]]]

\* An attach or a detach that reports success has entered, or taken out, every table
\* of the server and nothing else, and backend.json says so; when the write of that
\* file panics, the router and the scatter have all of the change.
DoneWhole ==
  st.step = "idle" /\ st.answer \in {"ok", "panic"} /\ before # None =>
    /\ router = (IF st.kind = "attach" THEN WithServer(before) ELSE WithoutServer(before))
    /\ (Server \in backends) = (st.kind = "attach")
    /\ st.answer = "ok" => file = backends

\* A detach that fails leaves the router as it was.
\* NOT KEPT by the code: see "Known disagreements" in the README.
DetachUndone ==
  st.step = "idle" /\ st.kind = "detach" /\ st.answer = "error" /\ before # None => router = before

\* What the handlers have taken out of the router does not come back with a restart.
\* NOT KEPT by the code: see "Known disagreements" in the README.
NothingLeft == st.step = "idle" => left = {}

\* Attach and detach never change where a table of the normal backends is.
OwnKept == [][\A d \in Databases : \A t \in Tables(d) :
                router[d][t] = Normal => router'[d] # None /\ t \in DOMAIN router'[d] /\ router'[d][t] = Normal]_vars

\* A database leaves the router only if it leaves the normal backends, or is one
\* that the attach had entered.
DroppedOnBoth == [][st.step = "empty" => \A d \in Known : router'[d] = None => d \notin disk']_vars

\* The router has no table of the normal backends in a database they do not have.
RoutedOnDisk == \A d \in Known \ disk : \A t \in Tables(d) : router[d][t] # Normal

=============================================================================
