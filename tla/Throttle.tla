----------------------------- MODULE Throttle -----------------------------
(***************************************************************************)
(* xbase.Throttle, which every query of the proxy acquires, and the limits *)
(* the shift tool and the administrator set through the throttle API.      *)
(* Positions and limits are scaled down: a position wraps at Width where   *)
(* the code's uint32 wraps at 2^32.                                        *)
(***************************************************************************)
EXTENDS Naturals

CONSTANTS Clients, Admin,
          Width,      \* positions are in 0..Width-1
          Positions,  \* the binlog positions that occur
          CfgBehinds, \* cfg.Behinds
          LimitsMin, LimitsMax,  \* neodb_limits_min, neodb_limits_max
          AdminLimits,           \* limits an administrator sets
          Rotates,    \* whether master and synced position may be of different files
          MaxSets, MaxAcquires

ASSUME ThrottleAssumption ==
  /\ Width \in Nat \ {0} /\ CfgBehinds \in Nat /\ LimitsMin \in Nat /\ LimitsMax \in Nat
  /\ MaxSets \in Nat /\ MaxAcquires \in Nat /\ Rotates \in BOOLEAN
  /\ Positions \subseteq 0..Width-1 /\ AdminLimits \subseteq Nat /\ Admin \notin Clients

VARIABLES
  limit,     \* throttle.limit, read without the lock
  rate,      \* the limiter: its limit and the grants of the current interval
  thMu,        \* the client that holds throttle.mu, or Admin for nobody
  cpc,        \* where each client is
  behind,    \* history: how far behind the shift is that set the limit, or 0
  sets, acquires

throttleVars == <<limit, rate, thMu, cpc, behind, sets, acquires>>

ThrottleTypeOK ==
  /\ limit \in Nat /\ rate \in [limit : Nat, used : Nat]
  /\ thMu \in Clients \cup {Admin}
  /\ cpc \in [Clients -> {"idle", "lock", "wait", "run", "panic"}]
  /\ behind \in 0..Width-1 /\ sets \in 0..MaxSets /\ acquires \in 0..MaxAcquires

ThrottleInit ==
  /\ limit = 0 /\ rate = [limit |-> 0, used |-> 0] /\ thMu = Admin
  /\ cpc = [c \in Clients |-> "idle"] /\ behind = 0 /\ sets = 0 /\ acquires = 0

----------------------------------------------------------------------------
(* Acquire: the limit is read before the lock is taken.                    *)

Acquire(c) ==
  /\ cpc[c] = "idle" /\ acquires < MaxAcquires /\ acquires' = acquires + 1
  /\ cpc' = [cpc EXCEPT ![c] = IF limit <= 0 THEN "run" ELSE "lock"]
  /\ UNCHANGED <<limit, rate, thMu, behind, sets>>

Lock(c) ==
  /\ cpc[c] = "lock" /\ thMu = Admin /\ thMu' = c
  /\ cpc' = [cpc EXCEPT ![c] = "wait"]
  /\ UNCHANGED <<limit, rate, behind, sets, acquires>>

\* Mutant: the mutex is kept while waiting.
WaitKeepsLock(c) ==
  /\ cpc[c] = "wait" /\ rate.used < rate.limit
  /\ cpc' = [cpc EXCEPT ![c] = "run"] /\ rate' = [rate EXCEPT !.used = @ + 1]
  /\ UNCHANGED <<limit, thMu, behind, sets, acquires>>

\* rate.Wait: a limiter of limit 0 has no first grant to look at, and the
\* deferred Unlock releases the lock when the handler of the session panics.
Wait(c) ==
  /\ cpc[c] = "wait" /\ (rate.used < rate.limit \/ rate.limit = 0)
  /\ thMu' = Admin
  /\ IF rate.limit = 0
     THEN cpc' = [cpc EXCEPT ![c] = "panic"] /\ UNCHANGED rate
     ELSE cpc' = [cpc EXCEPT ![c] = "run"] /\ rate' = [rate EXCEPT !.used = @ + 1]
  /\ UNCHANGED <<limit, behind, sets, acquires>>

\* Release does nothing.
Release(c) ==
  /\ cpc[c] = "run" /\ cpc' = [cpc EXCEPT ![c] = "idle"]
  /\ UNCHANGED <<limit, rate, thMu, behind, sets, acquires>>

\* The interval of the limiter is over.
Second ==
  /\ rate.used > 0 /\ rate' = [rate EXCEPT !.used = 0]
  /\ UNCHANGED <<limit, thMu, cpc, behind, sets, acquires>>

----------------------------------------------------------------------------
(* Set and its callers.                                                    *)

Set(l) ==
  /\ thMu = Admin /\ sets < MaxSets /\ sets' = sets + 1
  /\ limit' = l /\ rate' = [limit |-> l, used |-> 0]
  /\ UNCHANGED <<thMu, cpc, acquires>>

\* setNeoDBThrottle with factor (CfgBehinds + 1) / (behinds + 1).
Limits(behinds) ==
  LET l == (LimitsMax * (CfgBehinds + 1)) \div (behinds + 1)
  IN  IF l # 0 /\ l < LimitsMin THEN LimitsMin ELSE l

\* The distance between two positions of one binlog file, as the code takes it.
Distance(master, synced) == (master + Width - synced) % Width

\* The files differ, or the shift is too far behind.
ShiftThrottle(master, synced, sameFile) ==
  /\ sameFile \/ Rotates
  /\ sameFile => master >= synced /\ Distance(master, synced) > CfgBehinds
  /\ Set(Limits(Distance(master, synced))) /\ behind' = Distance(master, synced)

\* setNeoDBThrottle(0) of the cut-over and of Cleanup.
ShiftUnlimit == limit # 0 /\ Set(0) /\ behind' = 0

AdminSet(l) == Set(l) /\ behind' = 0

ThrottleNext ==
  \/ \E c \in Clients : Acquire(c) \/ Lock(c) \/ Wait(c) \/ Release(c)
  \/ Second
  \/ \E m, s \in Positions, f \in BOOLEAN : ShiftThrottle(m, s, f)
  \/ ShiftUnlimit
  \/ \E l \in AdminLimits : AdminSet(l)

ThrottleSpec == ThrottleInit /\ [][ThrottleNext]_throttleVars

ThrottleFairness ==
  /\ WF_throttleVars(Second)
  /\ \A c \in Clients : SF_throttleVars(Lock(c)) /\ SF_throttleVars(Wait(c)) /\ WF_throttleVars(Release(c))
ThrottleFairSpec == ThrottleSpec /\ ThrottleFairness

----------------------------------------------------------------------------

\* No interval sees more queries pass the limiter than its limit allows.
WithinLimit == rate.used <= rate.limit

\* A query that acquired under a limit that was lifted runs ("limits =0 means
\* unlimits"): no session dies in the limiter.
\* NOT KEPT by the code: see "Known disagreements" in the README.
UnlimitedRuns == \A c \in Clients : cpc[c] # "panic"

\* While the shift is behind, the proxy is throttled, never unlimited, as long
\* as limits_max * factor is one query a second at least.
BehindIsThrottled ==
  behind > 0 /\ behind < LimitsMax * (CfgBehinds + 1) => limit > 0

\* A query that waits for the throttle does not wait for ever: it runs, or, if the
\* limit is lifted under it, its session fails (UnlimitedRuns).
QueryLeaves == \A c \in Clients : (cpc[c] \in {"lock", "wait"}) ~> (cpc[c] \in {"run", "panic"})

\* A query that waits for the throttle runs, unless the limit is lifted meanwhile.
QueryRuns == \A c \in Clients : (cpc[c] \in {"lock", "wait"}) ~> (cpc[c] = "run" \/ rate.limit = 0)
=============================================================================
