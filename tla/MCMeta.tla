------------------------------- MODULE MCMeta -------------------------------
(***************************************************************************)
(* What the proxy knows of the databases, and what changes it: DDL         *)
(* statements (Ddl: one session, failures, sessions that race, tables      *)
(* created at the same time, databases with failures), the keys of a table *)
(* (TableKeys), partitions (Partition), the files of the router            *)
(* (RouterMeta: crashes, renames, every fault), attached servers (Attach:  *)
(* alone and beside clients) and the copies at the other proxies (Syncer:  *)
(* crashes and lost messages, three proxies, operations that overlap).     *)
(***************************************************************************)
EXTENDS TableKeys, TLC

CONSTANTS r1, r2, t1, t2, t3, b1, b2, n1, n2, n3, Torn

\* TableKeys
ThreeColumns == 1..3
TwoParts == (0 :> 0) @@ (1 :> 1)

\* Ddl: statements on the tables a and b.
S(act, tabs, to, ifx) == [act |-> act, tabs |-> tabs, to |-> to, ifx |-> ifx, txn |-> FALSE]
InTxn(st) == [st EXCEPT !.txn = TRUE]
OnTable(act, tabs) == {S(act, <<t>>, t, x) : t \in tabs, x \in BOOLEAN}
OfDatabase == {S(act, <<"a">>, "a", x) : act \in {"createdb", "dropdb"}, x \in BOOLEAN}
Alter == S("alter", <<"a">>, "a", FALSE)
Create == S("create", <<"a">>, "a", FALSE)
CreateDrop(tabs) == OnTable("create", tabs) \cup OnTable("drop", tabs) \cup {Alter}
Renames == {S("rename", <<t>>, u, FALSE) : t, u \in {"a", "b"}}
DropBoth == S("drop", <<"a", "b">>, "a", FALSE)
AllDdl == OfDatabase \cup CreateDrop({"a", "b"}) \cup Renames \cup {DropBoth}
WithDrops == CreateDrop({"a", "b"}) \cup {DropBoth, InTxn(Create)}
Creates == OnTable("create", {"a", "b"}) \cup {Alter, InTxn(Create)}

\* Partition, with 24 slots instead of 4096; "012" is an octal number.
JumpHash(n) == (n * 5 + 2) % 24
JumpHashString(t) == IF t = "10" THEN 7 ELSE 20
ParseInt(t) == IF t = "012" THEN 10 ELSE IF t = "010" THEN 8 ELSE 10
Lit(k, t, v) == [kind |-> k, text |-> t, value |-> v]
Literals == {Lit("int", "10", 10), Lit("int", "010", 10), Lit("str", "10", 10),
             Lit("str", "a", 0), Lit("float", "8.5", 8)}
ListDefs == {<<>>, <<<<"10", 1>>, <<"a", 2>>>>, <<<<"10", 1>>, <<"10", 1>>, <<"a", 1>>>>,
             <<<<"10", 1>>, <<"10", 2>>>>, <<<<"10", 2>>, <<"010", 1>>, <<"8.5", 2>>>>}

\* Attach
OnServer == ("d1" :> {"a", "b"}) @@ ("d2" :> {"a"})
OnNormal == ("d1" :> {"a"}) @@ ("d2" :> {"c"}) @@ ("d3" :> {"c"})

VARIABLE part   \* which one runs
VARIABLES db, routed, dbOn, phys, ses, stmts, faults, method, nums, num,
          def, conf, segments, pc, found, up, ro_db, mem, dir, file, op,
          pending, reload, acked, ops, ro_faults, backends, at_file, router,
          left, disk, check, st, before, at_faults, ar_backends, ar_file,
          ar_router, ar_left, ar_disk, ar_check, ar_st, ar_before, ar_faults,
          sy_disk, sy_mem, sy_op, sync, mu, sy_acked, now, crashes, lost,
          checks

OneSession == INSTANCE Ddl WITH
  Sessions <- {"s1"}, Backends <- {"b1", "b2"}, Tables <- {"a", "b"},
  Statements <- AllDdl, BadNames <- {}, MaxStmts <- 5, MaxFaults <- 0
Failing == INSTANCE Ddl WITH
  Sessions <- {"s1"}, Backends <- {"b1", "b2"}, Tables <- {"a", "b"},
  Statements <- WithDrops, BadNames <- {}, MaxStmts <- 4, MaxFaults <- 2
Racing == INSTANCE Ddl WITH
  Sessions <- {"s1", "s2", "s3"}, Backends <- {"b1", "b2"}, Tables <- {"a"},
  Statements <- CreateDrop({"a"}), BadNames <- {}, MaxStmts <- 3,
  MaxFaults <- 0
Creating == INSTANCE Ddl WITH
  Sessions <- {"s1", "s2"}, Backends <- {"b1", "b2"}, Tables <- {"a", "b"},
  Statements <- Creates, BadNames <- {}, MaxStmts <- 4, MaxFaults <- 0
OnDatabases == INSTANCE Ddl WITH
  Sessions <- {"s1"}, Backends <- {"b1", "b2"}, Tables <- {"a"},
  Statements <- OfDatabase, BadNames <- {}, MaxStmts <- 5, MaxFaults <- 2
Parts == INSTANCE Partition WITH
  Slots <- 24, Blocks <- 4, MaxBackends <- 25, PartitionNums <- {2, 3, 6}
Router == INSTANCE RouterMeta WITH
  Tables <- {t1, t2}, Backends <- {b1, b2}, BadNames <- {},
  Unbuildable <- FALSE, Faults <- {"open", "mkdir", "crash"}, MaxFaults <- 2,
  Calls <- {"create", "drop", "shift", "database"}, MaxOps <- 7,
  db <- ro_db, faults <- ro_faults
Renaming == INSTANCE RouterMeta WITH
  Tables <- {t1, t2, t3}, Backends <- {b1, b2}, BadNames <- {},
  Unbuildable <- FALSE, Faults <- {"crash"}, MaxFaults <- 2,
  Calls <- {"create", "drop", "rename", "shift"}, MaxOps <- 6, db <- ro_db,
  faults <- ro_faults
RenamesFail == INSTANCE RouterMeta WITH
  Tables <- {t1, t2, t3}, Backends <- {b1}, BadNames <- {t3},
  Unbuildable <- FALSE, Faults <- {"open", "crash"}, MaxFaults <- 2,
  Calls <- {"create", "drop", "rename"}, MaxOps <- 6, db <- ro_db,
  faults <- ro_faults
Faulty == INSTANCE RouterMeta WITH
  Tables <- {t1, t2}, Backends <- {b1, b2}, BadNames <- {t2},
  Unbuildable <- TRUE,
  Faults <- {"open", "write", "remove", "mkdir", "rmdir", "version", "crash"},
  MaxFaults <- 2,
  Calls <- {"create", "drop", "rename", "shift", "database", "reload"},
  MaxOps <- 5, db <- ro_db, faults <- ro_faults
Attached == INSTANCE Attach WITH
  Normal <- "normal", Server <- "server", Has <- OnServer, Own <- OnNormal,
  Detaches <- {"server"}, KeepEmpty <- TRUE, Races <- FALSE, MaxFaults <- 2,
  file <- at_file, faults <- at_faults
AttachRacing == INSTANCE Attach WITH
  Normal <- "normal", Server <- "server", Has <- OnServer, Own <- OnNormal,
  Detaches <- {"server"}, KeepEmpty <- TRUE, Races <- TRUE, MaxFaults <- 1,
  backends <- ar_backends, file <- ar_file, router <- ar_router,
  left <- ar_left, disk <- ar_disk, check <- ar_check, st <- ar_st, before <- ar_before,
  faults <- ar_faults
Sync == INSTANCE Syncer WITH
  Nodes <- {n1, n2}, Tables <- {"t1", "t2"}, Backs <- {"b1"},
  InitTabs <- {"t1"}, Skew <- [n \in {n1, n2} |-> 0],
  Calls <- {"create", "drop", "backend"}, Overlaps <- {},
  CrashAt <- {"idle", "sync"}, MaxOps <- 3, MaxCrashes <- 1, MaxLost <- 1,
  MaxChecks <- 1, disk <- sy_disk, mem <- sy_mem, op <- sy_op,
  acked <- sy_acked
SyncThree == INSTANCE Syncer WITH
  Nodes <- {n1, n2, n3}, Tables <- {"t1"}, Backs <- {}, InitTabs <- {},
  Skew <- [n \in {n1, n2, n3} |-> 0],
  Calls <- {"create", "peer"}, Overlaps <- {}, CrashAt <- {},
  MaxOps <- 2, MaxCrashes <- 0, MaxLost <- 0, MaxChecks <- 0,
  disk <- sy_disk, mem <- sy_mem, op <- sy_op, acked <- sy_acked
SyncRace == INSTANCE Syncer WITH
  Nodes <- {n1, n2}, Tables <- {"t1"}, Backs <- {"b1"}, InitTabs <- {"t1"},
  Skew <- [n \in {n1, n2} |-> 0], Calls <- {"create", "drop", "backend"},
  Overlaps <- {"writers", "walk", "version"}, CrashAt <- {}, MaxOps <- 2,
  MaxCrashes <- 0, MaxLost <- 0, MaxChecks <- 0, disk <- sy_disk,
  mem <- sy_mem, op <- sy_op, acked <- sy_acked

ddVars == <<db, routed, dbOn, phys, ses, stmts, faults>>
paVars == <<method, nums, num, def, conf, segments, pc, found>>
roVars == <<up, ro_db, mem, dir, file, op, pending, reload, acked, ops,
            ro_faults>>
atVars == <<backends, at_file, router, left, disk, check, st, before, at_faults>>
arVars == <<ar_backends, ar_file, ar_router, ar_left, ar_disk, ar_check, ar_st,
            ar_before, ar_faults>>
syVars == <<sy_disk, sy_mem, sy_op, sync, mu, sy_acked, now, crashes, lost,
            checks>>

ASSUME /\ Parts!PartitionAssumption /\ Router!RouterAssumption
       /\ Renaming!RouterAssumption /\ Faulty!RouterAssumption
       /\ RenamesFail!RouterAssumption
       /\ Attached!AttachAssumption /\ AttachRacing!AttachAssumption
       /\ Sync!SyncerAssumption /\ SyncThree!SyncerAssumption
       /\ SyncRace!SyncerAssumption

DdOff == db = 0 /\ routed = 0 /\ dbOn = 0 /\ phys = 0 /\ ses = 0 /\
         stmts = 0 /\ faults = 0
PaOff == method = 0 /\ nums = 0 /\ num = 0 /\ def = 0 /\ conf = 0 /\
         segments = 0 /\ pc = 0 /\ found = 0

MCInit ==
  /\ part \in {"keys", "ddl", "ddlFaults", "ddlRace", "ddlCreates",
               "databases", "partition", "router", "renames", "renamesFail",
               "everyFault",
               "attach", "attachRace", "sync", "syncThree", "syncRace"}
  /\ KeysInit
  /\ \/ part = "ddl" /\ OneSession!Init
     \/ part = "ddlFaults" /\ Failing!Init
     \/ part = "ddlRace" /\ Racing!Init
     \/ part = "ddlCreates" /\ Creating!Init
     \/ part = "databases" /\ OnDatabases!Init
     \/ part \notin {"ddl", "ddlFaults", "ddlRace", "ddlCreates", "databases"} /\ DdOff
  /\ \/ part = "partition" /\ Parts!Init
     \/ part \notin {"partition"} /\ PaOff
  /\ \/ part = "router" /\ Router!Init
     \/ part = "renames" /\ Renaming!Init
     \/ part = "renamesFail" /\ RenamesFail!Init
     \/ part = "everyFault" /\ Faulty!Init
     \/ part \notin {"router", "renames", "renamesFail", "everyFault"} /\ Router!Init
  /\ Attached!Init
  /\ AttachRacing!Init
  /\ \/ part = "sync" /\ Sync!Init
     \/ part = "syncThree" /\ SyncThree!Init
     \/ part = "syncRace" /\ SyncRace!Init
     \/ part \notin {"sync", "syncThree", "syncRace"} /\ Sync!Init

KeysStep ==
  /\ part = "keys" /\ KeysNext
  /\ UNCHANGED <<part, ddVars, paVars, roVars, atVars, arVars, syVars>>
DdlStep ==
  /\ part = "ddl" /\ OneSession!Next
  /\ UNCHANGED <<part, keysVars, paVars, roVars, atVars, arVars, syVars>>
DdlFaultsStep ==
  /\ part = "ddlFaults" /\ Failing!Next
  /\ UNCHANGED <<part, keysVars, paVars, roVars, atVars, arVars, syVars>>
DdlRaceStep ==
  /\ part = "ddlRace" /\ Racing!Next
  /\ UNCHANGED <<part, keysVars, paVars, roVars, atVars, arVars, syVars>>
DdlCreatesStep ==
  /\ part = "ddlCreates" /\ Creating!Next
  /\ UNCHANGED <<part, keysVars, paVars, roVars, atVars, arVars, syVars>>
DatabasesStep ==
  /\ part = "databases" /\ OnDatabases!Next
  /\ UNCHANGED <<part, keysVars, paVars, roVars, atVars, arVars, syVars>>
PartitionStep ==
  /\ part = "partition" /\ Parts!Next
  /\ UNCHANGED <<part, keysVars, ddVars, roVars, atVars, arVars, syVars>>
RouterStep ==
  /\ part = "router" /\ Router!Next
  /\ UNCHANGED <<part, keysVars, ddVars, paVars, atVars, arVars, syVars>>
RenamesStep ==
  /\ part = "renames" /\ Renaming!Next
  /\ UNCHANGED <<part, keysVars, ddVars, paVars, atVars, arVars, syVars>>
RenamesFailStep ==
  /\ part = "renamesFail" /\ RenamesFail!Next
  /\ UNCHANGED <<part, keysVars, ddVars, paVars, atVars, arVars, syVars>>
EveryFaultStep ==
  /\ part = "everyFault" /\ Faulty!Next
  /\ UNCHANGED <<part, keysVars, ddVars, paVars, atVars, arVars, syVars>>
AttachStep ==
  /\ part = "attach" /\ Attached!Next
  /\ UNCHANGED <<part, keysVars, ddVars, paVars, roVars, arVars, syVars>>
AttachRaceStep ==
  /\ part = "attachRace" /\ AttachRacing!Next
  /\ UNCHANGED <<part, keysVars, ddVars, paVars, roVars, atVars, syVars>>
SyncStep ==
  /\ part = "sync" /\ Sync!Next
  /\ UNCHANGED <<part, keysVars, ddVars, paVars, roVars, atVars, arVars>>
SyncThreeStep ==
  /\ part = "syncThree" /\ SyncThree!Next
  /\ UNCHANGED <<part, keysVars, ddVars, paVars, roVars, atVars, arVars>>
SyncRaceStep ==
  /\ part = "syncRace" /\ SyncRace!Next
  /\ UNCHANGED <<part, keysVars, ddVars, paVars, roVars, atVars, arVars>>

MCNext == KeysStep \/ DdlStep \/ DdlFaultsStep \/ DdlRaceStep \/
          DdlCreatesStep \/ DatabasesStep \/ PartitionStep \/ RouterStep \/
          RenamesStep \/ RenamesFailStep \/ EveryFaultStep \/ AttachStep \/ AttachRaceStep \/
          SyncStep \/ SyncThreeStep \/ SyncRaceStep

MCvars == <<part, keysVars, ddVars, paVars, roVars, atVars, arVars, syVars>>
MCSpec == MCInit /\ [][MCNext]_MCvars

-----------------------------------------------------------------------------
\* The types of the components that run.
MetaTypeOK == /\ part = "keys" => KeysTypeOK
              /\ part = "ddlFaults" => Failing!DdlTypeOK
              /\ part = "partition" => Parts!PartitionTypeOK
              /\ part = "router" => Router!RouterTypeOK
              /\ part = "renames" => Renaming!RouterTypeOK
              /\ part = "everyFault" => Faulty!RouterTypeOK
              /\ part = "attach" => Attached!AttachTypeOK
              /\ part = "attachRace" => AttachRacing!AttachTypeOK
              /\ part = "sync" => Sync!SyncTypeOK
              /\ part = "syncThree" => SyncThree!SyncTypeOK
              /\ part = "syncRace" => SyncRace!SyncTypeOK

\* With no statement under way, a table that the router knows has its segment
\* on every backend: handleDDL never leaves a name that answers no query.
NoGhosts == /\ part = "ddl" => OneSession!NoGhosts
            /\ part = "ddlFaults" => Failing!NoGhosts
            /\ part = "ddlRace" => Racing!NoGhosts
            /\ part = "ddlCreates" => Creating!NoGhosts

\* With no statement under way, a backend holds no table that the router does
\* not know: what handleDDL forgets is really gone, and the name is free.
NoOrphans == /\ part = "ddl" => OneSession!NoOrphans
             /\ part = "ddlCreates" => Creating!NoOrphans

\* A statement that reports success did all of its work: every table it names
\* is in the router and on every backend, or in neither (ddl.go:181-410).
OkIsComplete == /\ part = "ddl" => OneSession!OkIsComplete
                /\ part = "ddlFaults" => Failing!OkIsComplete

\* Whatever failed before, CREATE TABLE IF NOT EXISTS and DROP DATABASE IF
\* EXISTS can be repeated until they succeed.
IfRepeats == /\ part = "ddl" => OneSession!IfRepeats
             /\ part = "ddlFaults" => Failing!IfRepeats
             /\ part = "databases" => OnDatabases!IfRepeats

\* A database that the router has forgotten holds no data on a backend that
\* answered: DROP DATABASE forgets it only after every backend dropped it.
DropDBLast == part = "databases" => OnDatabases!DropDBLast

\* When each backend has room for a table, CREATE TABLE ... HASH gives every
\* slot to exactly one table and every backend at least its share of the
\* slots.
HashCoversSlots == part = "partition" => Parts!HashCoversSlots

\* A lookup of one value reads the one segment that an insert of the same
\* literal writes; a lookup of several values reads every segment that holds
\* one of them.
LookupFindsInserted == part = "partition" => Parts!LookupFindsInserted

\* Every value of a LIST definition has one partition, on the backend it
\* names.
ListCovers == part = "partition" => Parts!ListCovers

\* A table whose operation succeeded is on disk as it was acknowledged,
\* whatever crash came in between, until the next operation on it.
AckedOnDisk == /\ part = "router" => Router!AckedOnDisk
               /\ part = "renames" => Renaming!AckedOnDisk
               /\ part = "renamesFail" => RenamesFail!AckedOnDisk

\* Between two operations the router serves what it acknowledged, also after
\* a rule change (RefreshTable) and a restart (LoadConfig).
AckedServed == /\ part = "router" => Router!AckedServed
               /\ part = "renames" => Renaming!AckedServed
               /\ part = "renamesFail" => RenamesFail!AckedServed

\* Between two operations the memory is what a restart would load.
RestartSame == /\ part = "router" => Router!RestartSame
               /\ part = "renames" => Renaming!RestartSame

\* A failed attach that no client ran into leaves router and scatter as they
\* were, whichever steps of the undo itself fail (addAttachHandler).
FailedUndone == /\ part = "attach" => Attached!FailedUndone
                /\ part = "attachRace" => AttachRacing!FailedUndone

\* An attach or a detach that reports success has entered, or taken out, every
\* table of the server and nothing else, and backend.json says so.
DoneWhole == /\ part = "attach" => Attached!DoneWhole
             /\ part = "attachRace" => AttachRacing!DoneWhole

\* The router has no table of the normal backends in a database they do not
\* have.
RoutedOnDisk == part = "attach" => Attached!RoutedOnDisk

\* Attach and detach never change where a table of the normal backends is.
OwnKept == Attached!OwnKept

\* A database leaves the router only if it leaves the normal backends, or is
\* one that the attach had entered.
DroppedOnBoth == Attached!DroppedOnBoth

\* Two proxies with the same version have the same tables and backends: the
\* version tells whether they have to synchronize (check, UpdateVersion,
\* MetaRebuild).
SameVersionSameMeta == /\ part = "sync" => Sync!SameVersionSameMeta
                       /\ part = "syncThree" => SyncThree!SameVersionSameMeta

\* A proxy serves what its metadir says, whatever its checker and its clients
\* did (createTable, DropTable, FlushConfig, MetaReload).
ServesMetadir == /\ part = "sync" => Sync!ServesMetadir
                 /\ part = "syncThree" => SyncThree!ServesMetadir
                 /\ part = "syncRace" => SyncRace!ServesMetadir

\* The proxy that the others copy has every acknowledged operation and
\* nothing else: no operation is undone by the synchronization
\* (UpdateVersion, check).
AckedOnTop == /\ part = "sync" => Sync!AckedOnTop
              /\ part = "syncThree" => SyncThree!AckedOnTop

\* When no attach is going on, every table the router knows is on a backend
\* the scatter knows, whatever failed (addAttachHandler, detachHandler).
RoutedToKnown == /\ part = "attach" => Attached!RoutedToKnown
                 /\ part = "attachRace" => AttachRacing!RoutedToKnown

\* Between two statements the router and the backends have the same tables, a
\* statement that reports success has done all of its work, and with IF EXISTS
\* or IF NOT EXISTS one that failed half-way can be repeated (handleDDL).
DdlAgrees ==
  /\ MetaTypeOK
  /\ NoGhosts /\ NoOrphans /\ OkIsComplete
  /\ IfRepeats /\ DropDBLast

\* The partitions cover all values, each once, and a lookup finds what an
\* insert of the same literal wrote (HashUniform, ListUniform, Lookup).
PartitionsCover == HashCoversSlots /\ ListCovers /\ LookupFindsInserted

\* What the router acknowledged it serves, and would serve after a restart,
\* whatever crash, failing open or failing mkdir came between the memory and the
\* files, a rename that fails included (createTable, DropTable, RenameTable).
RouterKeepsAcked == AckedOnDisk /\ AckedServed /\ RestartSame

\* An attach is done or undone as a whole, a detach that reports success is done
\* as a whole, and neither touches the tables of the other backends
\* (addAttachHandler, detachHandler).
AttachWhole ==
  /\ [](RoutedToKnown /\ FailedUndone /\ DoneWhole /\ RoutedOnDisk)
  /\ OwnKept /\ DroppedOnBoth

\* Proxies with one version have one metadata, serve it, and the newest has
\* every acknowledged operation: none is undone by the synchronization.
PeersAgree == SameVersionSameMeta /\ ServesMetadir /\ AckedOnTop

\* The proxies are interchangeable.
Symmetric == Permutations({n1, n2})

=============================================================================
