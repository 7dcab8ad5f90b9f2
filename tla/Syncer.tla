------------------------------- MODULE Syncer -------------------------------
(***************************************************************************)
(* The metadata of a cluster of proxies (src/syncer): every proxy keeps    *)
(* its tables and backends in metadir with a version, the UnixNano of its  *)
(* last change; every proxy polls its peers and, when one is ahead of it,  *)
(* replaces its metadir by a copy and reloads it.  One database; a table   *)
(* is its file.                                                            *)
(***************************************************************************)
EXTENDS Integers, Sequences, FiniteSets

CONSTANTS
  Nodes, Tables, Backs, InitTabs, None,
  Skew,                \* node -> how far its clock is ahead
  Calls,               \* "create", "drop", "backend", "database", "peer"
  Overlaps,            \* what may overlap: "writers" (an operation starts before the last
                       \* one has reached every proxy), "walk" (an operation and a copy
                       \* of the same metadir), "version" (the checker reads a version
                       \* that is being written)
  CrashAt,             \* where a proxy may die: "idle", "sync", "rebuild", "ddl"
  MaxOps, MaxCrashes, MaxLost, MaxChecks

SyncerAssumption ==
  /\ InitTabs \subseteq Tables /\ Skew \in [Nodes -> Nat]
  /\ Calls \subseteq {"create", "drop", "backend", "database", "peer"}
  /\ Overlaps \subseteq {"writers", "walk", "version"}
  /\ CrashAt \subseteq {"idle", "sync", "rebuild", "ddl"}
  /\ {MaxOps, MaxCrashes, MaxLost, MaxChecks} \subseteq Nat

VARIABLES
  disk,   \* node -> [dir, db, tabs, back, peers, ver]: metadir
  mem,    \* node -> [up, db, tabs, back, peers]: Router, Scatter, Peer
  op,     \* node -> the DDL statement or request in progress [kind, f, step]
  sync,   \* node -> check(): [step, todo, max, from, at, meta]
  mu,     \* node -> who holds Syncer.mu: None, "rebuild", "check" or the node that copies
  acked,  \* [tabs, back]: the outcome of the operations that were acknowledged
  now, crashes, lost, checks

vars == <<disk, mem, op, sync, mu, acked, now, crashes, lost, checks>>

NoOp   == [kind |-> "idle", f |-> None, step |-> "none"]
NoMeta == [dir |-> FALSE, db |-> FALSE, tabs |-> {}, back |-> None, peers |-> None, ver |-> 0]
NoSync == [step |-> "idle", todo |-> {}, max |-> 0, from |-> None, at |-> None, meta |-> NoMeta]
Down   == [up |-> FALSE, db |-> FALSE, tabs |-> {}, back |-> {}, peers |-> {}]

\* The files of metadir by name: the walk meets backend.json, then the database,
\* then peers.json and version.json.
After(file) == [dir |-> "back", back |-> "tabs", tabs |-> "peers", peers |-> "ver", ver |-> "end"][file]

SyncTypeOK ==
  /\ disk \in [Nodes -> [dir : BOOLEAN, db : BOOLEAN, tabs : SUBSET Tables,
                         back : SUBSET Backs \cup {None}, peers : SUBSET Nodes \cup {None}, ver : Nat]]
  /\ mem \in [Nodes -> [up : BOOLEAN, db : BOOLEAN, tabs : SUBSET Tables,
                        back : SUBSET Backs, peers : SUBSET Nodes]]
  /\ \A n \in Nodes : /\ disk[n].tabs # {} => disk[n].db
                      /\ disk[n].db => disk[n].dir
                      /\ mem[n].tabs # {} => mem[n].db
                      /\ mu[n] = "rebuild" <=> sync[n].step \in {"write", "scatter", "router", "peer"}
                      /\ ~mem[n].up => op[n] = NoOp /\ sync[n] = NoSync /\ mu[n] = None

Init ==
  /\ disk = [n \in Nodes |-> [dir |-> TRUE, db |-> InitTabs # {}, tabs |-> InitTabs, back |-> {},
                              peers |-> Nodes, ver |-> 1]]
  /\ mem = [n \in Nodes |-> [up |-> TRUE, db |-> InitTabs # {}, tabs |-> InitTabs, back |-> {},
                             peers |-> Nodes]]
  /\ op = [n \in Nodes |-> NoOp] /\ sync = [n \in Nodes |-> NoSync] /\ mu = [n \in Nodes |-> None]
  /\ acked = [tabs |-> InitTabs, back |-> {}]
  /\ now = 1 /\ crashes = 0 /\ lost = 0 /\ checks = 0

\* The process is gone: with it the request, the checker, the copies made for others.
Dies(n) ==
  /\ mem' = [mem EXCEPT ![n] = Down]
  /\ op' = [op EXCEPT ![n] = NoOp]
  /\ sync' = [m \in Nodes |-> IF m = n \/ (sync[m].step = "walk" /\ sync[m].from = n) THEN NoSync ELSE sync[m]]
  /\ mu' = [m \in Nodes |-> IF m = n \/ mu[m] = n THEN None ELSE mu[m]]

-----------------------------------------------------------------------------
(* Operations.  Router.mu is held from the first step to the last.         *)

Quiet == \A m \in Nodes : /\ op[m] = NoOp
                          /\ mem[m].up /\ sync[m].step \in {"idle", "poll"}
                          /\ \A k \in Nodes : disk[m].ver = disk[k].ver

Starts(n, call) ==
  /\ call \in Calls /\ mem[n].up /\ op[n] = NoOp /\ now <= MaxOps
  /\ "writers" \in Overlaps \/ Quiet
  /\ now' = now + 1

Begin(n, call, f, m) ==
  /\ Starts(n, call)
  /\ mem' = [mem EXCEPT ![n] = m]
  /\ op' = [op EXCEPT ![n] = [kind |-> call, f |-> f, step |-> "file"]]
  /\ UNCHANGED <<disk, sync, mu, acked, crashes, lost, checks>>

CreateTable(n, t) == mem[n].db /\ t \notin mem[n].tabs /\ Begin(n, "create", t, [mem[n] EXCEPT !.tabs = @ \cup {t}])
DropTable(n, t) == t \in mem[n].tabs /\ Begin(n, "drop", t, [mem[n] EXCEPT !.tabs = @ \ {t}])
CreateDatabase(n) == ~mem[n].db /\ Begin(n, "database", None, [mem[n] EXCEPT !.db = TRUE])

\* addBackendHandler, removeBackendHandler: Scatter.Add or Remove, and then FlushConfig.
ChangeBackend(n, b) ==
  Begin(n, "backend", b, [mem[n] EXCEPT !.back = IF b \in @ THEN @ \ {b} ELSE @ \cup {b}])

\* A file operation on a metadir that is being rebuilt fails: the router takes a
\* created table out of memory again; a dropped one stays out, and so does what
\* FlushConfig could not write (it panics, and the session or the request recovers).
FileFails(n) ==
  /\ op' = [op EXCEPT ![n] = NoOp]
  /\ mem' = [mem EXCEPT ![n].tabs = IF op[n].kind = "create" THEN @ \ {op[n].f} ELSE @]

Changed(n) ==
  CASE op[n].kind = "create" /\ disk[n].db -> [disk[n] EXCEPT !.tabs = @ \cup {op[n].f}]
    [] op[n].kind = "drop" /\ op[n].f \in disk[n].tabs -> [disk[n] EXCEPT !.tabs = @ \ {op[n].f}]
    [] op[n].kind = "database" -> [disk[n] EXCEPT !.dir = TRUE, !.db = TRUE]
    [] op[n].kind = "backend" /\ disk[n].dir -> [disk[n] EXCEPT !.back = mem[n].back]
    [] OTHER -> NoMeta

\* writeTableFrmData, removeTableFrmData, writeDatabaseFrmData, FlushConfig
WriteFrm(n) ==
  /\ op[n].step = "file"
  /\ IF Changed(n) = NoMeta
     THEN FileFails(n) /\ UNCHANGED disk
     ELSE /\ disk' = [disk EXCEPT ![n] = Changed(n)]
          /\ op' = [op EXCEPT ![n].step = "version"]
          /\ UNCHANGED mem
  /\ UNCHANGED <<sync, mu, acked, now, crashes, lost, checks>>

\* UpdateVersion: WriteFile opens version.json with O_TRUNC, or panics without a
\* metadir ...
TruncateVersion(n) ==
  /\ op[n].step = "version"
  /\ IF disk[n].dir
     THEN disk' = [disk EXCEPT ![n].ver = 0] /\ op' = [op EXCEPT ![n].step = "ver"]
     ELSE op' = [op EXCEPT ![n] = NoOp] /\ UNCHANGED disk
  /\ UNCHANGED <<mem, sync, mu, acked, now, crashes, lost, checks>>

\* ... and writes the time into it ("moved": the open file has gone to the backup).
UpdateVersion(n) ==
  /\ op[n].step \in {"ver", "moved"}
  /\ disk' = IF op[n].step = "ver" THEN [disk EXCEPT ![n].ver = now + Skew[n]] ELSE disk
  /\ op' = [op EXCEPT ![n] = NoOp]
  /\ acked' = [acked EXCEPT !.tabs = IF op[n].kind = "create" THEN @ \cup {op[n].f} ELSE @ \ {op[n].f},
                            !.back = IF op[n].kind # "backend" THEN @
                                     ELSE IF op[n].f \in @ THEN @ \ {op[n].f} ELSE @ \cup {op[n].f}]
  /\ UNCHANGED <<mem, sync, mu, now, crashes, lost, checks>>

\* Peer.Add, Peer.Remove: the list in memory, then the file; no new version.
ChangePeer(n, p) ==
  /\ Starts(n, "peer")
  /\ LET ps == IF p \in mem[n].peers THEN mem[n].peers \ {p} ELSE mem[n].peers \cup {p}
     IN  /\ mem' = [mem EXCEPT ![n].peers = ps]
         /\ disk' = IF disk[n].dir THEN [disk EXCEPT ![n].peers = ps] ELSE disk
  /\ UNCHANGED <<op, sync, mu, acked, crashes, lost, checks>>

-----------------------------------------------------------------------------
(* check().                                                                *)

Step(n, s) == sync' = [sync EXCEPT ![n] = s]
OnlySync == UNCHANGED <<disk, mem, op, acked, now, crashes, checks>>

CheckStart(n) ==
  /\ mem[n].up /\ sync[n].step = "idle"
  /\ Step(n, [NoSync EXCEPT !.step = "poll", !.todo = mem[n].peers \ {n}])
  /\ OnlySync /\ UNCHANGED <<mu, lost>>

\* GET /v1/meta/versions: MetaVersion takes the peer's Syncer.mu.
Poll(n, p) ==
  /\ sync[n].step = "poll" /\ p \in sync[n].todo /\ mem[p].up /\ mu[p] = None
  /\ Step(n, LET s == [sync[n] EXCEPT !.todo = @ \ {p}]
             IN  IF disk[p].ver > s.max THEN [s EXCEPT !.max = disk[p].ver, !.from = p] ELSE s)
  /\ OnlySync /\ UNCHANGED <<mu, lost>>

\* A request fails when the peer is down or, after 5 seconds, when its lock is taken;
\* or (MaxLost) when it is lost.
Unanswered(p) == \/ (~mem[p].up \/ mu[p] # None) /\ UNCHANGED lost
                 \/ lost < MaxLost /\ mem[p].up /\ mu[p] = None /\ lost' = lost + 1

PollFails(n, p) ==
  /\ sync[n].step = "poll" /\ p \in sync[n].todo /\ Unanswered(p)
  /\ Step(n, [sync[n] EXCEPT !.todo = @ \ {p}])
  /\ OnlySync /\ UNCHANGED mu

\* An answer that is no JSON ends the check.
PollGarbled(n, p) ==
  /\ sync[n].step = "poll" /\ p \in sync[n].todo /\ lost < MaxLost /\ lost' = lost + 1
  /\ Step(n, NoSync) /\ OnlySync /\ UNCHANGED mu

\* Mutant: a peer that is one operation ahead is not copied.
DecideLate(n) ==
  /\ sync[n].step = "poll" /\ sync[n].todo = {}
  /\ "version" \in Overlaps \/ op[n].step # "ver"
  /\ Step(n, IF sync[n].max > disk[n].ver + 1 THEN [sync[n] EXCEPT !.step = "fetch"] ELSE NoSync)
  /\ OnlySync /\ UNCHANGED <<mu, lost>>

\* ReadVersion(s.metadir), without the lock.
Decide(n) ==
  /\ sync[n].step = "poll" /\ sync[n].todo = {}
  /\ "version" \in Overlaps \/ op[n].step # "ver"
  /\ Step(n, IF sync[n].max > disk[n].ver THEN [sync[n] EXCEPT !.step = "fetch"] ELSE NoSync)
  /\ OnlySync /\ UNCHANGED <<mu, lost>>

\* GET /v1/meta/metas: MetaJSON walks the peer's metadir under its Syncer.mu.
FetchStart(n) ==
  /\ sync[n].step = "fetch"
  /\ LET p == sync[n].from
     IN  /\ mem[p].up /\ mu[p] = None
         /\ "walk" \in Overlaps \/ op[p] = NoOp
         /\ mu' = [mu EXCEPT ![p] = n]
         /\ Step(n, [sync[n] EXCEPT !.step = "walk", !.at = "back", !.meta.dir = TRUE])
  /\ OnlySync /\ UNCHANGED lost

FetchFails(n) ==
  /\ sync[n].step = "fetch" /\ Unanswered(sync[n].from)
  /\ Step(n, NoSync) /\ OnlySync /\ UNCHANGED mu

\* Mutant: the version is read before the files.
WalkVersionFirst(n) ==
  /\ sync[n].step = "walk"
  /\ LET s == sync[n]
         d == disk[s.from]
     IN  IF s.at = "end"
         THEN mu' = [mu EXCEPT ![s.from] = None] /\ Step(n, [s EXCEPT !.step = "rebuild"])
         ELSE /\ Step(n, [s EXCEPT !.meta = [d EXCEPT !.tabs = {}, !.db = FALSE], !.at = After(@)])
              /\ UNCHANGED mu
  /\ OnlySync /\ UNCHANGED lost

\* Directories are not in the copy: the database is there if it has a table.
Walk(n) ==
  /\ sync[n].step = "walk"
  /\ LET s == sync[n]
         d == disk[s.from]
         m == CASE s.at = "tabs" -> [s.meta EXCEPT !.tabs = d.tabs, !.db = d.tabs # {}]
                [] s.at = "end" -> s.meta
                [] OTHER -> [s.meta EXCEPT ![s.at] = d[s.at]]
     IN  IF s.at = "end"
         THEN mu' = [mu EXCEPT ![s.from] = None] /\ Step(n, [s EXCEPT !.step = "rebuild"])
         ELSE Step(n, [s EXCEPT !.meta = m, !.at = After(@)]) /\ UNCHANGED mu
  /\ OnlySync /\ UNCHANGED lost

\* MetaRebuild: metadir is renamed to a backup ...
Rebuild(n) ==
  /\ sync[n].step = "rebuild" /\ mu[n] = None
  /\ mu' = [mu EXCEPT ![n] = "rebuild"]
  /\ disk' = [disk EXCEPT ![n] = NoMeta]
  /\ op' = [op EXCEPT ![n].step = IF @ = "ver" THEN "moved" ELSE @]
  /\ LET m == sync[n].meta
     IN  Step(n, [sync[n] EXCEPT !.step = "write",
                    !.todo = {f \in {"back", "peers"} : m[f] # None}
                               \cup {f \in {"tabs"} : m.tabs # {}} \cup {"ver"}])
  /\ UNCHANGED <<mem, acked, now, crashes, lost, checks>>

\* ... and the files of the copy are written, in the order of a Go map; the last
\* gives the lock back.
RebuildFile(n, f) ==
  /\ sync[n].step = "write" /\ f \in sync[n].todo
  /\ disk' = [disk EXCEPT ![n] = LET d == [@ EXCEPT !.dir = TRUE, ![f] = sync[n].meta[f]]
                                 IN  IF f = "tabs" THEN [d EXCEPT !.db = TRUE] ELSE d]
  /\ Step(n, [sync[n] EXCEPT !.todo = @ \ {f}, !.step = IF sync[n].todo = {f} THEN "reload" ELSE @])
  /\ mu' = [mu EXCEPT ![n] = IF sync[n].todo = {f} THEN None ELSE @]
  /\ UNCHANGED <<mem, op, acked, now, crashes, lost, checks>>

\* MetaReload takes the lock again.
MetaReload(n) ==
  /\ sync[n].step = "reload" /\ mu[n] = None /\ mu' = [mu EXCEPT ![n] = "rebuild"]
  /\ Step(n, [sync[n] EXCEPT !.step = "scatter"])
  /\ OnlySync /\ UNCHANGED lost

\* Scatter.LoadConfig writes backend.json if there is none,
ReloadScatter(n) ==
  /\ sync[n].step = "scatter"
  /\ ~(op[n].kind = "backend" /\ op[n].step \in {"version", "ver", "moved"})
  /\ LET b == IF disk[n].back = None THEN {} ELSE disk[n].back
     IN  disk' = [disk EXCEPT ![n].back = b] /\ mem' = [mem EXCEPT ![n].back = b]
  /\ Step(n, [sync[n] EXCEPT !.step = "router"])
  /\ UNCHANGED <<op, mu, acked, now, crashes, lost, checks>>

\* Router.LoadConfig takes Router.mu,
ReloadRouter(n) ==
  /\ sync[n].step = "router" /\ op[n].kind \in {"idle", "backend"}
  /\ mem' = [mem EXCEPT ![n].tabs = disk[n].tabs, ![n].db = disk[n].db]
  /\ Step(n, [sync[n] EXCEPT !.step = "peer"])
  /\ UNCHANGED <<disk, op, mu, acked, now, crashes, lost, checks>>

LoadedPeers(n) == IF disk[n].peers = None THEN mem[n].peers \cup {n} ELSE disk[n].peers

\* Peer.LoadConfig keeps the list in memory if there is no file.
ReloadPeer(n) ==
  /\ sync[n].step = "peer"
  /\ mem' = [mem EXCEPT ![n].peers = LoadedPeers(n)]
  /\ Step(n, NoSync) /\ mu' = [mu EXCEPT ![n] = None]
  /\ UNCHANGED <<disk, op, acked, now, crashes, lost, checks>>

-----------------------------------------------------------------------------
\* GET /v1/meta/versioncheck: MetaVersionCheck polls the peers under its own Syncer.mu.
VersionCheck(n) ==
  /\ mem[n].up /\ mu[n] = None /\ checks < MaxChecks /\ checks' = checks + 1
  /\ mu' = [mu EXCEPT ![n] = "check"]
  /\ UNCHANGED <<disk, mem, op, sync, acked, now, crashes, lost>>

\* It comes back at the latest when the requests have timed out.
VersionCheckDone(n) ==
  /\ mu[n] = "check"
  /\ mu' = [mu EXCEPT ![n] = None]
  /\ UNCHANGED <<disk, mem, op, sync, acked, now, crashes, lost, checks>>

Where(n) == IF op[n] # NoOp THEN "ddl"
            ELSE IF sync[n].step = "write" THEN "rebuild"
            ELSE IF sync[n].step \in {"idle", "poll"} THEN "idle" ELSE "sync"

Crash(n) ==
  /\ mem[n].up /\ crashes < MaxCrashes /\ Where(n) \in CrashAt /\ crashes' = crashes + 1
  /\ Dies(n) /\ UNCHANGED <<disk, acked, now, lost, checks>>

\* Proxy.Start: Syncer.Init creates metadir and loads the peers, Router and Scatter load.
Restart(n) ==
  /\ ~mem[n].up
  /\ LET b == IF disk[n].back = None THEN {} ELSE disk[n].back
     IN  /\ disk' = [disk EXCEPT ![n].dir = TRUE, ![n].back = b]
         /\ mem' = [mem EXCEPT ![n] = [up |-> TRUE, db |-> disk[n].db, tabs |-> disk[n].tabs, back |-> b,
                                       peers |-> LoadedPeers(n)]]
  /\ UNCHANGED <<op, sync, mu, acked, now, crashes, lost, checks>>

Operation(n) ==
  \/ \E t \in Tables : CreateTable(n, t) \/ DropTable(n, t)
  \/ \E b \in Backs : ChangeBackend(n, b)
  \/ CreateDatabase(n)
  \/ \E p \in Nodes : ChangePeer(n, p)

Checker(n) ==
  \/ CheckStart(n) \/ Decide(n) \/ FetchStart(n) \/ FetchFails(n) \/ Walk(n)
  \/ \E p \in Nodes : Poll(n, p) \/ PollFails(n, p)
  \/ Rebuild(n) \/ MetaReload(n) \/ ReloadScatter(n) \/ ReloadRouter(n) \/ ReloadPeer(n)
  \/ \E f \in {"back", "tabs", "peers", "ver"} : RebuildFile(n, f)

Next ==
  \E n \in Nodes :
    \/ Operation(n) \/ WriteFrm(n) \/ TruncateVersion(n) \/ UpdateVersion(n)
    \/ Checker(n) \/ \E p \in Nodes : PollGarbled(n, p)
    \/ VersionCheck(n) \/ VersionCheckDone(n)
    \/ Crash(n) \/ Restart(n)

\* An operation, the checker (a ticker) and a restart go on by themselves.
Fairness ==
  \A n \in Nodes : /\ WF_vars(WriteFrm(n) \/ TruncateVersion(n) \/ UpdateVersion(n))
                   /\ WF_vars(Checker(n)) /\ WF_vars(VersionCheckDone(n)) /\ WF_vars(Restart(n))

Spec == Init /\ [][Next]_vars
FairSpec == Spec /\ Fairness

-----------------------------------------------------------------------------
Settled(n) == mem[n].up /\ op[n] = NoOp /\ sync[n].step \in {"idle", "poll", "fetch", "walk", "rebuild"}

\* Two proxies with the same version have the same tables and backends: the version
\* tells whether they have to synchronize (check, UpdateVersion, MetaRebuild).
SameVersionSameMeta ==
  \A n, m \in Nodes :
     Settled(n) /\ Settled(m) /\ disk[n].ver = disk[m].ver /\ disk[n].ver # 0
     => disk[n].tabs = disk[m].tabs /\ disk[n].back = disk[m].back

\* The same for the database itself (CreateDatabase, MetaJSON).
\* NOT KEPT by the code: see "Known disagreements" in the README.
SameVersionSameDatabase ==
  \A n, m \in Nodes :
     Settled(n) /\ Settled(m) /\ disk[n].ver = disk[m].ver => disk[n].db = disk[m].db

\* A proxy serves what its metadir says, whatever its checker and its clients did
\* (createTable, DropTable, FlushConfig, MetaReload).
ServesMetadir ==
  \A n \in Nodes : Settled(n) => /\ mem[n].tabs = disk[n].tabs /\ mem[n].db = disk[n].db
                                 /\ mem[n].back = disk[n].back

\* The proxy that the others copy has every acknowledged operation and nothing
\* else: no operation is undone by the synchronization (UpdateVersion, check).
AckedOnTop ==
  (\A n \in Nodes : op[n] = NoOp) =>
     \A n \in Nodes : (\A m \in Nodes : disk[m].ver <= disk[n].ver) /\ mu[n] # "rebuild"
                      => disk[n].tabs = acked.tabs /\ disk[n].back \in {acked.back, None}

\* Every proxy ends up serving the outcome of the acknowledged operations.
Converges == <>[](\A n \in Nodes : mem[n].up /\ mem[n].tabs = acked.tabs /\ mem[n].back = acked.back)

=============================================================================
