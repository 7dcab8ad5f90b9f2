------------------------------- MODULE MCLocks ------------------------------
(***************************************************************************)
(* The mutexes, semaphores and limits that goroutines wait for, side by    *)
(* side, each scheduled fairly: the locks of the scatter and of xacheck    *)
(* (ScatterClose), the pool of the shift tool (ShiftPool), the throttle    *)
(* (Throttle) and the manager of the shifts (ShiftManager).                *)
(***************************************************************************)

CONSTANTS u1, u2, k1, nobody

VARIABLE part   \* which one runs
VARIABLES pc, readers, writer, queue, xcmu, retrys, done, backends, ticks,
          idle, slots, nilled, sp_pc, gets, faults, limit, rate, mu, th_pc,
          behind, sets, queries, alived, finished, mg_mu, mg_pc, key, shift,
          migrate, ro, stopped, cleaner, robbed, mg_faults

Scatter == INSTANCE ScatterClose WITH
  Sessions <- {"s1", "s2"}, Admins <- {"a1"}, MaxTicks <- 2
SPool == INSTANCE ShiftPool WITH
  Users <- {u1, u2}, Cap <- 2, MaxGets <- 3, MaxSPoolFaults <- 1,
  conns <- idle, upc <- sp_pc, spoolFaults <- faults
Limiter == INSTANCE Throttle WITH
  Clients <- {u1, u2}, Admin <- nobody, Width <- 65536,
  Positions <- {0, 3, 9, 12}, CfgBehinds <- 4, LimitsMin <- 2,
  LimitsMax <- 4, AdminLimits <- {2, 4}, MaxSets <- 3, Rotates <- FALSE,
  MaxAcquires <- 3, thMu <- mu, cpc <- th_pc, acquires <- queries
Mgr == INSTANCE ShiftManager WITH
  Handlers <- {u1, u2}, Keys <- {k1}, MaxAlived <- 1, MaxMgrFaults <- 1,
  Cleaning <- TRUE, None <- nobody, mu <- mg_mu, hpc <- mg_pc,
  readonly <- ro, mgrFaults <- mg_faults

scVars == <<pc, readers, writer, queue, xcmu, retrys, done, backends, ticks>>
spVars == <<idle, slots, nilled, sp_pc, gets, faults>>
thVars == <<limit, rate, mu, th_pc, behind, sets, queries>>
mgVars == <<alived, finished, mg_mu, mg_pc, key, shift, migrate, ro, stopped,
            cleaner, robbed, mg_faults>>

ASSUME /\ Scatter!ScatterCloseAssumption /\ SPool!ShiftPoolAssumption
       /\ Limiter!ThrottleAssumption /\ Mgr!ManagerAssumption

MCInit ==
  /\ part \in {"scatter", "spool", "throttle", "mgr"}
  /\ Scatter!Init
  /\ SPool!SPoolInit
  /\ Limiter!ThrottleInit
  /\ Mgr!MgrInit

ScatterStep == part = "scatter" /\ Scatter!Next /\ UNCHANGED <<part, spVars, thVars, mgVars>>
SpoolStep == part = "spool" /\ SPool!SPoolNext /\ UNCHANGED <<part, scVars, thVars, mgVars>>
ThrottleStep == part = "throttle" /\ Limiter!ThrottleNext /\ UNCHANGED <<part, scVars, spVars, mgVars>>
MgrStep == part = "mgr" /\ Mgr!MgrNext /\ UNCHANGED <<part, scVars, spVars, thVars>>

MCNext == ScatterStep \/ SpoolStep \/ ThrottleStep \/ MgrStep

MCvars == <<part, scVars, spVars, thVars, mgVars>>
MCSpec == MCInit /\ [][MCNext]_MCvars
          /\ Scatter!Fairness
          /\ SPool!SPoolFairness
          /\ Limiter!ThrottleFairness
          /\ Mgr!MgrFairness

-----------------------------------------------------------------------------
\* The types of the components that run.
LocksTypeOK == /\ part = "scatter" => Scatter!ScatterTypeOK
               /\ part = "spool" => SPool!ShiftPoolTypeOK
               /\ part = "throttle" => Limiter!ThrottleTypeOK
               /\ part = "mgr" => Mgr!MgrTypeOK

\* After Close the goroutine of xacheck runs no more: it retries nothing on
\* pools that are closed.
ClosedIsQuiet == part = "scatter" => Scatter!ClosedIsQuiet

\* A Close that is called when there is no commit to retry returns
\* (Scatter.Close, XaCheck.Close).
CloseReturns == Scatter!CloseReturns

\* An administrator who waits for the scatter's lock gets it, unless the
\* scatter closes.
AdminGetsLock == Scatter!AdminGetsLock

\* Every Get returns, with a connection or with nil, unless all slots of the
\* semaphore have been lost to failed Gets and to a closed pool.
GetReturns == SPool!GetReturns

\* A query that waits for the throttle runs, unless the limit is lifted
\* meanwhile, when it runs or its session fails.
QueryRuns == Limiter!QueryRuns /\ Limiter!QueryLeaves

\* A handler that waits for its shift gets its result.
WaitReturns == Mgr!WaitReturns

\* Close ends, nothing of xacheck runs after it, and an administrator who
\* wants the same lock is not kept waiting (Scatter.Close, XaCheck.Close).
CloseEnds == CloseReturns /\ AdminGetsLock /\ []ClosedIsQuiet

\* Nobody waits for ever in a shift: not for the limiter it sets on the proxy,
\* nor for its result, nor for a connection of its pool while one slot of it is
\* left (Throttle.Acquire, WaitInstanceFinish, Pool.Get).
ShiftWaitsEnd == []LocksTypeOK /\ GetReturns /\ QueryRuns /\ WaitReturns

=============================================================================
