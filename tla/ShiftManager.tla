---------------------------- MODULE ShiftManager ----------------------------
(***************************************************************************)
(* plugins/shiftmanager and its users: handlers of NEODB REBALANCE and of  *)
(* the migrate API start a shift and wait for it, NEODB CLEANUP drops left *)
(* over _migrate tables, and Close stops everything.  A shift is the tool  *)
(* of module Shift reduced to what its neighbours see: its _migrate table, *)
(* its readonly phase, its end.                                            *)
(***************************************************************************)
EXTENDS Naturals, FiniteSets

CONSTANTS Handlers,    \* the requests; each creates a shift of its own
          Keys,        \* `db`.`table`_backend, one _migrate table each
          MaxAlived,   \* maxShiftInstancesAlived
          MaxMgrFaults,
          Cleaning,    \* whether NEODB CLEANUP runs
          None

ASSUME ManagerAssumption ==
  /\ MaxAlived \in Nat /\ MaxMgrFaults \in Nat /\ Cleaning \in BOOLEAN
  /\ None \notin Handlers \cup Keys

VARIABLES
  alived,    \* instancesAlived: key -> the handler whose shift it is, or None
  finished,  \* instancesFinished: key -> status
  mu,        \* the handler that holds shiftMgr.mu, or None
  hpc, key,   \* of every handler
  shift,     \* of every handler: the phase of its shift
  migrate,   \* key -> the handler whose shift owns the _migrate table, or None
  readonly,        \* the proxy is readonly
  stopped,   \* handlers whose shift got the stop signal
  cleaner,   \* NEODB CLEANUP: <<step, key>>
  robbed,    \* handlers whose _migrate table was dropped by somebody else
  mgrFaults

mgr  == <<alived, finished, mu>>
mgrVars == <<mgr, hpc, key, shift, migrate, readonly, stopped, cleaner, robbed, mgrFaults>>

\* The two functions below keep None apart from the handlers and the keys.
MgrTypeOK ==
  /\ alived \in [Keys -> Handlers \cup {None}]
  /\ finished \in [Keys -> {"none", "success", "fail"}]
  /\ mu \in Handlers \cup {None}
  /\ hpc \in [Handlers -> {"idle", "start", "starting", "add", "wait", "waiting", "end"}]
  /\ key \in [Handlers -> Keys \cup {None}]
  /\ shift \in [Handlers -> {"none", "copy", "ro", "switched", "done", "fail"}]
  /\ migrate \in [Keys -> Handlers \cup {None}]
  /\ readonly \in BOOLEAN /\ stopped \subseteq Handlers /\ robbed \subseteq Handlers
  /\ cleaner \in {"idle", "status", "drop"} \X (Keys \cup {None})
  /\ mgrFaults \in 0..MaxMgrFaults

MgrInit ==
  /\ alived = [k \in Keys |-> None] /\ finished = [k \in Keys |-> "none"] /\ mu = None
  /\ hpc = [h \in Handlers |-> "idle"] /\ key = [h \in Handlers |-> None]
  /\ shift = [h \in Handlers |-> "none"] /\ migrate = [k \in Keys |-> None]
  /\ readonly = FALSE /\ stopped = {} /\ cleaner = <<"idle", None>> /\ robbed = {} /\ mgrFaults = 0

HandlerGoto(h, a, b) == hpc[h] = a /\ hpc' = [hpc EXCEPT ![h] = b]
ShiftTo(h, a, b) == shift[h] = a /\ shift' = [shift EXCEPT ![h] = b]
MgrFault == mgrFaults < MaxMgrFaults /\ mgrFaults' = mgrFaults + 1

Alived == {k \in Keys : alived[k] # None}

----------------------------------------------------------------------------
(* A handler.                                                              *)

\* Refused while the proxy is readonly.
Request(h, k) ==
  /\ ~readonly /\ HandlerGoto(h, "idle", "start") /\ key' = [key EXCEPT ![h] = k]
  /\ UNCHANGED <<mgr, shift, migrate, readonly, stopped, cleaner, robbed, mgrFaults>>

\* StartShiftInstance: the lock is held while the shift starts.
StartShiftInstance(h) ==
  /\ hpc[h] = "start" /\ mu = None
  /\ IF alived[key[h]] # None
     THEN HandlerGoto(h, "start", "end") /\ UNCHANGED mu
     ELSE HandlerGoto(h, "start", "starting") /\ mu' = h
  /\ UNCHANGED <<alived, finished, key, shift, migrate, readonly, stopped, cleaner, robbed, mgrFaults>>

\* shift.Start creates the _migrate table and starts the goroutines.
Started(h) ==
  /\ HandlerGoto(h, "starting", "add") /\ migrate[key[h]] = None
  /\ migrate' = [migrate EXCEPT ![key[h]] = h] /\ ShiftTo(h, "none", "copy")
  /\ UNCHANGED <<mgr, key, readonly, stopped, cleaner, robbed, mgrFaults>>

\* The table exists already, or something else is wrong.
StartInstanceFails(h) ==
  /\ HandlerGoto(h, "starting", "end") /\ mu' = None
  /\ (migrate[key[h]] # None /\ UNCHANGED mgrFaults) \/ MgrFault
  /\ UNCHANGED <<alived, finished, key, shift, migrate, readonly, stopped, cleaner, robbed>>

\* Mutant: a refused instance is not reported.
AddAnAlivedInstanceNoError(h) ==
  /\ mu' = None
  /\ HandlerGoto(h, "add", "wait")
  /\ alived' = IF Cardinality(Alived) < MaxAlived THEN [alived EXCEPT ![key[h]] = h] ELSE alived
  /\ UNCHANGED <<finished, key, shift, migrate, readonly, stopped, cleaner, robbed, mgrFaults>>

\* addAnAlivedInstance: at the limit the running shift is left to itself.
AddAnAlivedInstance(h) ==
  /\ mu' = None
  /\ IF Cardinality(Alived) < MaxAlived
     THEN HandlerGoto(h, "add", "wait") /\ alived' = [alived EXCEPT ![key[h]] = h]
     ELSE HandlerGoto(h, "add", "end") /\ UNCHANGED alived
  /\ UNCHANGED <<finished, key, shift, migrate, readonly, stopped, cleaner, robbed, mgrFaults>>

\* WaitInstanceFinish: the error return does not unlock.
WaitInstanceFinish(h) ==
  /\ hpc[h] = "wait" /\ mu = None
  /\ LET found == alived[key[h]] # None IN
     /\ HandlerGoto(h, "wait", IF found THEN "waiting" ELSE "end")
     /\ mu' = IF found THEN None ELSE h
  /\ UNCHANGED <<alived, finished, key, shift, migrate, readonly, stopped, cleaner, robbed, mgrFaults>>

\* updateFinishedInstance, when WaitFinish of the shift has returned.
UpdateFinishedInstance(h) ==
  /\ mu = None /\ shift[h] \in {"done", "fail"} /\ HandlerGoto(h, "waiting", "end")
  /\ finished' = [finished EXCEPT ![key[h]] = IF shift[h] = "done" THEN "success" ELSE "fail"]
  /\ alived' = [alived EXCEPT ![key[h]] = None]
  /\ UNCHANGED <<mu, key, shift, migrate, readonly, stopped, cleaner, robbed, mgrFaults>>

----------------------------------------------------------------------------
(* A shift.                                                                *)

\* The cut-over makes the proxy readonly.
CutOver(h) ==
  /\ ShiftTo(h, "copy", "ro") /\ h \notin robbed /\ readonly' = TRUE
  /\ UNCHANGED <<mgr, hpc, key, migrate, stopped, cleaner, robbed, mgrFaults>>

\* It renames the table, changes the rule and makes the proxy writable.
Switch(h) ==
  /\ ShiftTo(h, "ro", "switched") /\ h \notin robbed /\ migrate[key[h]] = h
  /\ migrate' = [migrate EXCEPT ![key[h]] = None] /\ readonly' = FALSE
  /\ UNCHANGED <<mgr, hpc, key, stopped, cleaner, robbed, mgrFaults>>

\* WaitFinish takes the end of the cut-over; its Cleanup makes the proxy
\* writable again.
ShiftCloses(h) ==
  /\ hpc[h] = "waiting" /\ ShiftTo(h, "switched", "done") /\ readonly' = FALSE
  /\ UNCHANGED <<mgr, hpc, key, migrate, stopped, cleaner, robbed, mgrFaults>>

\* An error or the stop signal; Cleanup drops the table and resets readonly.
ShiftFails(h) ==
  /\ hpc[h] = "waiting" /\ shift[h] \in {"copy", "ro"}
  /\ shift' = [shift EXCEPT ![h] = "fail"] /\ readonly' = FALSE
  /\ (h \in stopped \cup robbed /\ UNCHANGED mgrFaults) \/ (h \notin stopped \cup robbed /\ MgrFault)
  /\ migrate' = [migrate EXCEPT ![key[h]] = IF @ = h THEN None ELSE @]
  /\ UNCHANGED <<mgr, hpc, key, stopped, cleaner, robbed>>

----------------------------------------------------------------------------
(* NEODB CLEANUP and the shutdown: neither takes the lock.                 *)

\* A _migrate table on a backend that the router does not know.
CleanupFinds(k) ==
  /\ Cleaning /\ ~readonly /\ cleaner[1] = "idle" /\ migrate[k] # None /\ cleaner' = <<"status", k>>
  /\ UNCHANGED <<mgr, hpc, key, shift, migrate, readonly, stopped, robbed, mgrFaults>>

\* GetStatus says whether it is being migrated.
CleanupGetStatus ==
  /\ cleaner[1] = "status"
  /\ cleaner' = IF alived[cleaner[2]] # None THEN <<"idle", None>> ELSE <<"drop", cleaner[2]>>
  /\ UNCHANGED <<mgr, hpc, key, shift, migrate, readonly, stopped, robbed, mgrFaults>>

CleanupDrops ==
  /\ cleaner[1] = "drop" /\ cleaner' = <<"idle", None>>
  /\ LET h == migrate[cleaner[2]] IN
     robbed' = IF h # None /\ shift[h] \in {"copy", "ro"} THEN robbed \cup {h} ELSE robbed
  /\ migrate' = [migrate EXCEPT ![cleaner[2]] = None]
  /\ UNCHANGED <<mgr, hpc, key, shift, readonly, stopped, mgrFaults>>

\* StopAllInstance.
StopAllInstance ==
  /\ stopped = {} /\ Alived # {}
  /\ stopped' = {alived[k] : k \in Alived}
  /\ UNCHANGED <<mgr, hpc, key, shift, migrate, readonly, cleaner, robbed, mgrFaults>>

----------------------------------------------------------------------------

Handle(h) == \/ StartShiftInstance(h) \/ Started(h) \/ StartInstanceFails(h) \/ AddAnAlivedInstance(h)
             \/ WaitInstanceFinish(h) \/ UpdateFinishedInstance(h)

RunShift(h) == CutOver(h) \/ Switch(h) \/ ShiftCloses(h) \/ ShiftFails(h)

MgrNext ==
  \/ \E h \in Handlers : Handle(h) \/ RunShift(h) \/ \E k \in Keys : Request(h, k)
  \/ \E k \in Keys : CleanupFinds(k)
  \/ CleanupGetStatus \/ CleanupDrops \/ StopAllInstance

MgrSpec == MgrInit /\ [][MgrNext]_mgrVars

\* The mutex is fair to its waiters, and a shift makes progress.
MgrFairness == \A h \in Handlers : SF_mgrVars(Handle(h)) /\ WF_mgrVars(RunShift(h))
MgrFairSpec == MgrSpec /\ MgrFairness

----------------------------------------------------------------------------

\* No more than maxShiftInstancesAlived instances are registered, each under
\* the key its own handler asked for, while that handler waits for it.
RegisteredOnce ==
  /\ Cardinality(Alived) <= MaxAlived
  /\ \A k \in Alived : key[alived[k]] = k /\ hpc[alived[k]] \in {"wait", "waiting"}

\* No handler returns with the lock of the manager held (WaitInstanceFinish).
LockReleased == mu # None => hpc[mu] \in {"starting", "add"}

\* A handler that waits for its shift gets its result.
WaitReturns == \A h \in Handlers : (hpc[h] = "wait") ~> (hpc[h] = "end")

\* "Limit max 10 shift instances".
\* NOT KEPT by the code: see "Known disagreements" in the README.
LimitHolds ==
  Cardinality({h \in Handlers : shift[h] \in {"copy", "ro"} /\ h \notin robbed}) <= MaxAlived

\* NEODB CLEANUP leaves the table of a running shift alone ("check whether
\* migrating").
\* NOT KEPT by the code: see "Known disagreements" in the README.
MigratingKept == robbed = {}

\* The rule of a table changes while the proxy is readonly, whatever the other
\* shifts do.
\* NOT KEPT by the code: see "Known disagreements" in the README.
SwitchedUnderReadOnly ==
  [][\A h \in Handlers : shift[h] = "ro" /\ shift'[h] = "switched" => readonly]_mgrVars
=============================================================================
