----------------------------- MODULE RouterMeta -----------------------------
(***************************************************************************)
(* The router of one proxy (router/frm.go, router.go, api.go): the schemas *)
(* in memory, the files under metadir, and the operations that change both *)
(* under the lock of the router.  The process may die between two steps,   *)
(* and the file system may fail.                                           *)
(***************************************************************************)
EXTENDS Naturals, FiniteSets

CONSTANTS Tables, Backends,
          BadNames,    \* tables the router refuses by name (too long, ' ' or '/')
          Unbuildable, \* whether Build of a new table may fail
          Faults,      \* kinds of fault: "open", "write", "remove", "mkdir", "rmdir",
                       \* "version", "crash"
          MaxFaults,
          Calls,       \* operations that are called: "create", "drop", "rename", "shift",
                       \* "database", "reload"
          MaxOps,
          None, Torn   \* Torn: a file cut off by a crash or a short write

RouterAssumption ==
  /\ BadNames \subseteq Tables /\ Unbuildable \in BOOLEAN
  /\ Calls \subseteq {"create", "drop", "rename", "shift", "database", "reload"}
  /\ Faults \subseteq {"open", "write", "remove", "mkdir", "rmdir", "version", "crash"}
  /\ MaxFaults \in Nat /\ MaxOps \in Nat /\ None # Torn

VARIABLES
  up,        \* the proxy runs
  db, mem,   \* Schemas: the database, and its tables: [conf, built] or None
  dir, file, \* metadir/db, and its files: a conf, Torn or None
  op,        \* the operation that holds the lock
  pending,   \* the table PartitionRuleShift has to refresh, or None
  reload,    \* ReLoad is between clear and LoadConfig
  acked,     \* table -> the configuration of the last successful operation
  ops, faults

vars == <<up, db, mem, dir, file, op, pending, reload, acked, ops, faults>>

\* parts: the table after which the tables of the partitions are named.
Conf  == [name : Tables, parts : Tables, backend : Backends]
Entry == [conf : Conf, built : Conf \cup {None}]
Idle  == [kind |-> "idle", step |-> "none", t |-> None, from |-> None, conf |-> None, old |-> None]

RouterTypeOK ==
  /\ {up, db, dir, reload} \subseteq BOOLEAN
  /\ mem \in [Tables -> Entry \cup {None}] /\ file \in [Tables -> Conf \cup {None, Torn}]
  /\ op \in [kind : {"idle", "create", "drop", "shift", "createdb", "dropdb"},
             step : {"none", "open", "write", "version", "next", "remove", "mkdir", "rmdir"},
             t : Tables \cup {None}, from : Tables \cup {None}, conf : Conf \cup {None},
             old : Conf \cup {None}]
  /\ pending \in Tables \cup {None} /\ acked \in [Tables -> Conf \cup {None}]
  /\ ops \in 0..MaxOps /\ faults \in 0..MaxFaults

NoTables == [t \in Tables |-> None]

Init ==
  /\ up = TRUE /\ db = TRUE /\ dir = TRUE /\ mem = NoTables /\ file = NoTables
  /\ op = Idle /\ pending = None /\ reload = FALSE /\ acked = NoTables /\ ops = 0 /\ faults = 0

Fault(k) == k \in Faults /\ faults < MaxFaults /\ faults' = faults + 1

\* An operation takes the lock.
Lock(c) == c \in Calls /\ up /\ op = Idle /\ ops < MaxOps /\ ops' = ops + 1

Op(k, s, t, c) == [Idle EXCEPT !.kind = k, !.step = s, !.t = t, !.conf = c]

----------------------------------------------------------------------------
(* Memory first.                                                           *)

\* createTable: addTable, then the file.
CreateTable(t, b) ==
  LET c == [name |-> t, parts |-> t, backend |-> b] IN
  /\ Lock("create") /\ t \notin BadNames /\ db /\ mem[t] = None
  /\ mem' = [mem EXCEPT ![t] = [conf |-> c, built |-> c]]
  /\ op' = Op("create", "open", t, c)
  /\ UNCHANGED <<up, db, dir, file, pending, reload, acked, faults>>

\* addTable returns the error of Build; the table stays without a partition.
CreateTableUnbuilt(t, b) ==
  /\ Unbuildable /\ Lock("create") /\ t \notin BadNames /\ db /\ mem[t] = None
  /\ mem' = [mem EXCEPT ![t] = [conf |-> [name |-> t, parts |-> t, backend |-> b], built |-> None]]
  /\ UNCHANGED <<up, db, dir, file, op, pending, reload, acked, faults>>

DropTable(t) ==
  /\ Lock("drop") /\ mem[t] # None
  /\ mem' = [mem EXCEPT ![t] = None] /\ op' = Op("drop", "remove", t, None)
  /\ UNCHANGED <<up, db, dir, file, pending, reload, acked, faults>>

\* getRenameTableConfig changes the configuration of the old table in place (the
\* names of the partitions where they hold the old name), then createTable checks
\* the new name.
RenameTable(f, t) ==
  /\ Lock("rename") /\ mem[f] # None /\ mem[t] = None
  /\ LET c == [mem[f].conf EXCEPT !.name = t, !.parts = IF @ = f THEN t ELSE @]
     IN IF t \in BadNames
        THEN mem' = [mem EXCEPT ![f].conf = c] /\ UNCHANGED op
        ELSE /\ mem' = [mem EXCEPT ![f].conf = c, ![t] = [conf |-> c, built |-> c]]
             /\ op' = [Op("create", "open", t, c) EXCEPT !.from = f]
  /\ UNCHANGED <<up, db, dir, file, pending, reload, acked, faults>>

\* changeTheRuleBackend, under the read lock.
ChangeTheRuleBackend(t, b) ==
  /\ Lock("shift") /\ pending = None /\ mem[t] # None /\ mem[t].conf.backend # b
  /\ mem' = [mem EXCEPT ![t].conf.backend = b]
  /\ op' = [Op("shift", "open", t, [mem[t].conf EXCEPT !.backend = b]) EXCEPT !.old = mem[t].conf]
  /\ UNCHANGED <<up, db, dir, file, pending, reload, acked, faults>>

CreateDatabase ==
  /\ Lock("database") /\ ~db /\ db' = TRUE /\ mem' = NoTables /\ op' = Op("createdb", "mkdir", None, None)
  /\ UNCHANGED <<up, dir, file, pending, reload, acked, faults>>

DropDatabase ==
  /\ Lock("database") /\ db /\ db' = FALSE /\ mem' = NoTables /\ op' = Op("dropdb", "rmdir", None, None)
  /\ UNCHANGED <<up, dir, file, pending, reload, acked, faults>>

----------------------------------------------------------------------------
(* Then the disk.                                                          *)

\* WriteFile truncates the file ...
OpenFile ==
  /\ up /\ op.step = "open"
  /\ file' = [file EXCEPT ![op.t] = Torn] /\ op' = [op EXCEPT !.step = "write"]
  /\ UNCHANGED <<up, db, mem, dir, pending, reload, acked, ops, faults>>

\* ... and fills it.
WriteFile ==
  /\ up /\ op.step = "write"
  /\ file' = [file EXCEPT ![op.t] = op.conf] /\ op' = [op EXCEPT !.step = "version"]
  /\ UNCHANGED <<up, db, mem, dir, pending, reload, acked, ops, faults>>

\* Mutant: the change in memory is not undone.
UndoNothing == UNCHANGED mem

\* The memory is put back: removeTable, or the old backend.
Undo ==
  mem' = IF op.kind = "create" THEN [mem EXCEPT ![op.t] = None]
         ELSE IF mem[op.t] = None THEN mem ELSE [mem EXCEPT ![op.t].conf = op.old]

WriteFails ==
  /\ up
  /\ \/ op.step = "open" /\ Fault("open")
     \/ op.step = "write" /\ Fault("write")
  /\ Undo /\ op' = Idle
  /\ UNCHANGED <<up, db, dir, file, pending, reload, acked, ops>>

RemoveFile ==
  /\ up /\ op.step = "remove" /\ file[op.t] # None
  /\ file' = [file EXCEPT ![op.t] = None] /\ op' = [op EXCEPT !.step = "version"]
  /\ UNCHANGED <<up, db, mem, dir, pending, reload, acked, ops, faults>>

RemoveFails ==
  /\ up /\ op.step = "remove"
  /\ op' = Idle
  /\ (file[op.t] = None /\ UNCHANGED faults) \/ Fault("remove")
  /\ acked' = [acked EXCEPT ![op.t] = None]
  /\ UNCHANGED <<up, db, mem, dir, file, pending, reload, ops>>

MkDir ==
  /\ up /\ op.step = "mkdir" /\ dir' = TRUE /\ op' = [op EXCEPT !.step = "version"]
  /\ UNCHANGED <<up, db, mem, file, pending, reload, acked, ops, faults>>

\* The database leaves the memory again.
MkDirFails ==
  /\ up /\ op.step = "mkdir" /\ ~dir /\ Fault("mkdir") /\ db' = FALSE /\ op' = Idle
  /\ UNCHANGED <<up, mem, dir, file, pending, reload, acked, ops>>

RemoveAll ==
  /\ up /\ op.step = "rmdir" /\ dir' = FALSE /\ file' = NoTables
  /\ op' = [op EXCEPT !.step = "version"]
  /\ UNCHANGED <<up, db, mem, pending, reload, acked, ops, faults>>

\* RemoveAll has removed some of the files.
RemoveAllFails ==
  /\ up /\ op.step = "rmdir" /\ Fault("rmdir") /\ op' = Idle /\ acked' = NoTables
  /\ \E F \in SUBSET Tables : file' = [t \in Tables |-> IF t \in F THEN None ELSE file[t]]
  /\ UNCHANGED <<up, db, mem, dir, pending, reload, ops>>

\* What the caller was told.
Acknowledge ==
  acked' = CASE op.kind = "drop"                 -> [acked EXCEPT ![op.t] = None]
             [] op.kind \in {"create", "shift"}  -> [acked EXCEPT ![op.t] = op.conf]
             [] op.kind = "dropdb"               -> NoTables
             [] OTHER                            -> acked

\* UpdateVersion ends an operation; a rename goes on to drop the old table, and
\* a rule change gives the lock back before the refresh.
UpdateVersion ==
  /\ up /\ op.step = "version" /\ Acknowledge
  /\ op' = IF op.from # None THEN [op EXCEPT !.step = "next"] ELSE Idle
  /\ pending' = IF op.kind = "shift" THEN op.t ELSE pending
  /\ UNCHANGED <<up, db, mem, dir, file, reload, ops, faults>>

\* log.Panicf; the session recovers and the lock is released.
UpdateVersionFails ==
  /\ up /\ op.step = "version" /\ Fault("version") /\ op' = Idle
  /\ Acknowledge /\ pending' = IF op.kind = "shift" THEN None ELSE pending
  /\ UNCHANGED <<up, db, mem, dir, file, reload, ops>>

\* RenameTable drops the old table.
RenameDrops ==
  /\ up /\ op.step = "next"
  /\ IF mem[op.from] = None THEN op' = Idle /\ UNCHANGED mem
     ELSE mem' = [mem EXCEPT ![op.from] = None] /\ op' = Op("drop", "remove", op.from, None)
  /\ UNCHANGED <<up, db, dir, file, pending, reload, acked, ops, faults>>

----------------------------------------------------------------------------
(* Loading.                                                                *)

Load(c) == [conf |-> c, built |-> c]

\* RefreshTable: the table leaves the memory and is read again, under the name
\* that the file gives it; an error is a panic.
RefreshTable ==
  /\ up /\ pending # None /\ op = Idle /\ pending' = None
  /\ LET c == file[pending]
     IN mem' = IF mem[pending] = None THEN mem
               ELSE IF c \in {None, Torn} THEN [mem EXCEPT ![pending] = None]
               ELSE IF c.name # pending /\ mem[c.name] # None THEN [mem EXCEPT ![pending] = None]
               ELSE [mem EXCEPT ![pending] = None, ![c.name] = Load(c)]
  /\ UNCHANGED <<up, db, dir, file, op, reload, acked, ops, faults>>

Files == {t \in Tables : file[t] # None}

\* LoadConfig succeeds when all files parse and no two have the same table.
LoadOK ==
  /\ \A t \in Files : file[t] # Torn
  /\ \A s, t \in Files : s # t => file[s].name # file[t].name

\* LoadConfig reads the files of F; the ones after an error are not read.
LoadConfig(F) ==
  /\ db' = dir
  /\ mem' = [n \in Tables |->
               LET from == {t \in F : file[t] # Torn /\ file[t].name = n}
               IN IF from = {} THEN None ELSE Load(file[CHOOSE t \in from : TRUE])]

\* ReLoad clears the cache without the lock ...
ReLoadClear ==
  /\ "reload" \in Calls /\ up /\ ~reload /\ ops < MaxOps /\ ops' = ops + 1
  /\ db' = FALSE /\ mem' = NoTables /\ reload' = TRUE
  /\ UNCHANGED <<up, dir, file, op, pending, acked, faults>>

\* ... and LoadConfig takes it.
ReLoad ==
  /\ up /\ reload /\ op = Idle /\ reload' = FALSE
  /\ IF LoadOK THEN LoadConfig(Files) ELSE \E F \in SUBSET Files : F # Files /\ LoadConfig(F)
  /\ UNCHANGED <<up, dir, file, op, pending, acked, ops, faults>>

Crash ==
  /\ up /\ Fault("crash") /\ up' = FALSE
  /\ db' = FALSE /\ mem' = NoTables /\ op' = Idle /\ pending' = None /\ reload' = FALSE
  /\ acked' = IF op.kind = "dropdb" THEN NoTables
              ELSE [t \in Tables |-> IF t \in {op.t, op.from} THEN None ELSE acked[t]]
  /\ UNCHANGED <<dir, file, ops>>

\* Proxy.Start panics when LoadConfig fails.
Restart ==
  /\ ~up /\ LoadOK /\ LoadConfig(Files) /\ up' = TRUE
  /\ UNCHANGED <<dir, file, op, pending, reload, acked, ops, faults>>

----------------------------------------------------------------------------

Next ==
  \/ \E t \in Tables, b \in Backends :
       CreateTable(t, b) \/ CreateTableUnbuilt(t, b) \/ ChangeTheRuleBackend(t, b)
  \/ \E t \in Tables : DropTable(t) \/ \E f \in Tables : RenameTable(f, t)
  \/ CreateDatabase \/ DropDatabase
  \/ OpenFile \/ WriteFile \/ WriteFails \/ RemoveFile \/ RemoveFails
  \/ MkDir \/ MkDirFails \/ RemoveAll \/ RemoveAllFails
  \/ UpdateVersion \/ UpdateVersionFails \/ RenameDrops
  \/ RefreshTable \/ ReLoadClear \/ ReLoad \/ Crash \/ Restart

Spec == Init /\ [][Next]_vars

----------------------------------------------------------------------------

Quiet == up /\ op = Idle /\ pending = None /\ ~reload

\* A table whose operation succeeded is on disk as it was acknowledged, whatever
\* crash came in between, until the next operation on it.
AckedOnDisk ==
  \A t \in Tables :
    acked[t] # None /\ t \notin {op.t, op.from} /\ op.kind # "dropdb" /\ db =>
      file[t] = acked[t]

\* Between two operations the router serves what it acknowledged, also after a
\* rule change (RefreshTable) and a restart (LoadConfig).
AckedServed ==
  Quiet /\ db => \A t \in Tables : acked[t] # None => mem[t] # None /\ mem[t].built = acked[t]

\* Between two operations the memory is what a restart would load.
RestartSame ==
  Quiet => /\ db = dir
           /\ \A t \in Tables : IF mem[t] = None THEN file[t] = None
                                ELSE file[t] = mem[t].conf /\ mem[t].built = mem[t].conf

\* "DropTable used to remove a table from router and remove the schema file from
\* disk": a dropped table does not come back with a restart.
\* NOT KEPT by the code: see "Known disagreements" in the README.
DropIsForGood == Quiet => \A t \in Tables : mem[t] = None => file[t] = None

\* RenameTable that fails leaves the configuration of the old table as it was.
\* NOT KEPT by the code: see "Known disagreements" in the README.
RenameAllOrNothing ==
  Quiet => \A t \in Tables : mem[t] # None => mem[t].conf.name = t

\* A table is served by partitions that have its name.
\* NOT KEPT by the code: see "Known disagreements" in the README.
PartsNamed == Quiet => \A t \in Tables : mem[t] # None => mem[t].built.parts = t

\* A table that is loaded and on disk is found by every lookup during a reload.
\* NOT KEPT by the code: see "Known disagreements" in the README.
NoVanish == up /\ op = Idle => \A t \in Tables : acked[t] # None /\ file[t] # None => mem[t] # None

\* "LoadConfig used to load all schemas stored in metadir": a restart succeeds.
\* NOT KEPT by the code: see "Known disagreements" in the README.
RestartLoads == ~up => LoadOK

\* A CREATE TABLE that fails leaves nothing behind.
\* NOT KEPT by the code: see "Known disagreements" in the README.
CreateAllOrNothing == Quiet => \A t \in Tables : mem[t] # None => file[t] # None
=============================================================================
