------------------------------- MODULE MCSync -------------------------------
(***************************************************************************)
(* What several proxies and handlers share: the counter behind             *)
(* AUTO_INCREMENT (AutoIncrement), and the metadata that the proxies copy  *)
(* from one another until they agree (Syncer, scheduled fairly).           *)
(***************************************************************************)
EXTENDS AutoIncrement

CONSTANTS None   \* of Syncer

VARIABLE part   \* which one runs
VARIABLES disk, mem, op, sync, mu, acked, now, crashes, lost, checks

Sync == INSTANCE Syncer WITH
  Nodes <- {"n1", "n2"}, Tables <- {"t1"}, Backs <- {"b1"}, InitTabs <- {},
  Skew <- [n \in {"n1", "n2"} |-> 0],
  Calls <- {"create", "drop", "database", "backend"}, Overlaps <- {},
  CrashAt <- {"idle", "sync"}, MaxOps <- 2, MaxCrashes <- 1, MaxLost <- 1,
  MaxChecks <- 2

syVars == <<disk, mem, op, sync, mu, acked, now, crashes, lost, checks>>

ASSUME Sync!SyncerAssumption

MCInit ==
  /\ part \in {"counter", "syncer"}
  /\ AutoInit
  /\ Sync!Init

CounterStep == part = "counter" /\ AutoNext /\ UNCHANGED <<part, syVars>>
SyncerStep == part = "syncer" /\ Sync!Next /\ UNCHANGED <<part, autoVars>>

MCNext == CounterStep \/ SyncerStep

MCvars == <<part, autoVars, syVars>>
MCSpec == MCInit /\ [][MCNext]_MCvars
          /\ Sync!Fairness

-----------------------------------------------------------------------------
\* The types of the components that run.
MCSyncTypeOK == /\ part = "counter" => AutoTypeOK
                /\ part = "syncer" => Sync!SyncTypeOK

\* Every proxy ends up serving the outcome of the acknowledged operations.
Converges == Sync!Converges

\* Every proxy ends up serving the outcome of the acknowledged operations,
\* after crashes and lost messages (MetaVersionCheck, MetaRebuild, MetaReload).
ProxiesConverge == []MCSyncTypeOK /\ Converges

=============================================================================
