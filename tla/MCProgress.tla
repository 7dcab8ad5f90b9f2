----------------------------- MODULE MCProgress -----------------------------
(***************************************************************************)
(* Goroutines that wait for one another and have to end, side by side and  *)
(* scheduled fairly: the producers and the consumer of a stream            *)
(* (StreamFetch; with backends that fail as a second instance), the        *)
(* goroutines of a shift (Shift: undisturbed, and with a stop or a         *)
(* failure), a query with its deadline goroutine (ConnPool), and           *)
(* statements that wait for the rows of one another (DmlLocks).            *)
(***************************************************************************)
EXTENDS StreamFetch

TwoQuerys == 1..2
Uneven == <<2, 3>>

\* The shift of NEODB REBALANCE.
Config == [flavor |-> "mysql", cleanup |-> TRUE, rebalance |-> FALSE,
           checksum |-> TRUE, behinds |-> 1]

VARIABLE part   \* which one runs
VARIABLES br_main, br_shard, br_left, br_prod, br_cons, br_rows, br_stop,
          br_out, br_recycled, cfg, fpos, spos, bad, inflight, ro, throttled,
          rule, fromTab, toTab, roPos, allDone, canalOK, closed, sh_stop,
          pos, kpc, bpc, wpc, rpc, faults, st_fpos, st_spos, st_bad,
          st_inflight, st_ro, st_throttled, st_rule, st_fromTab, st_toTab,
          st_roPos, st_allDone, st_canalOK, st_closed, st_stop, st_pos,
          st_kpc, st_bpc, st_wpc, st_rpc, st_faults, chan, idle, drv,
          lastErr, killed, pc, hold, late, blamed, gauge, panic, dials,
          queries, cp_faults, queue, holder, failed, done

Broken == INSTANCE StreamFetch WITH
  RowsOf <- [q \in Querys |-> 2], FetchFails <- TRUE, Breaks <- TRUE,
  ChanSize <- 1, main <- br_main, shard <- br_shard, left <- br_left,
  prod <- br_prod, cons <- br_cons, rows <- br_rows, stop <- br_stop,
  out <- br_out, recycled <- br_recycled
Moving == INSTANCE Shift WITH
  Configs <- {Config}, MaxWrites <- 3, MaxShiftFaults <- 0,
  MayStop <- FALSE, stop <- sh_stop, shiftFaults <- faults
Stopping == INSTANCE Shift WITH
  Configs <- {Config}, MaxWrites <- 1, MaxShiftFaults <- 1,
  MayStop <- TRUE,
  fpos <- st_fpos, spos <- st_spos, bad <- st_bad, inflight <- st_inflight,
  ro <- st_ro, throttled <- st_throttled, rule <- st_rule,
  fromTab <- st_fromTab, toTab <- st_toTab, roPos <- st_roPos,
  allDone <- st_allDone, canalOK <- st_canalOK, closed <- st_closed,
  stop <- st_stop, pos <- st_pos, kpc <- st_kpc, bpc <- st_bpc,
  wpc <- st_wpc, rpc <- st_rpc, shiftFaults <- st_faults
Pool == INSTANCE ConnPool WITH
  Callers <- {"u"}, MaxConnections <- 1, MaxDials <- 3, MaxQueries <- 2,
  MaxFaults <- 1, faults <- cp_faults
Locks == INSTANCE DmlLocks WITH
  Clients <- {"c1", "c2"}, Backends <- {"b1", "b2"}, Parts <- 1..2,
  BackendOf <- <<"b1", "b2">>, Wants <- [c \in {"c1", "c2"} |-> {1, 2}],
  Inserters <- {"c1"}, Nobody <- "none"

brVars == <<br_main, br_shard, br_left, br_prod, br_cons, br_rows, br_stop,
            br_out, br_recycled>>
shVars == <<cfg, fpos, spos, bad, inflight, ro, throttled, rule, fromTab, toTab,
            roPos, allDone, canalOK, closed, sh_stop, pos, kpc, bpc, wpc, rpc,
            faults>>
stVars == <<cfg, st_fpos, st_spos, st_bad, st_inflight, st_ro, st_throttled,
            st_rule, st_fromTab, st_toTab, st_roPos, st_allDone, st_canalOK,
            st_closed, st_stop, st_pos, st_kpc, st_bpc, st_wpc, st_rpc,
            st_faults>>
cpVars == <<chan, idle, drv, lastErr, killed, pc, hold, late, blamed, gauge,
            panic, dials, queries, cp_faults>>
dlVars == <<queue, holder, failed, done>>

ASSUME /\ Broken!StreamAssumption /\ Moving!ShiftAssumption
       /\ Stopping!ShiftAssumption /\ Pool!PoolAssumption
       /\ Locks!DmlLocksAssumption

\* A stream that has returned.
Over == /\ main = [step |-> "returned", next |-> 1, answer |-> "none"]
        /\ shard = [q \in Querys |-> "none"] /\ left = RowsOf
        /\ prod = [q \in Querys |-> "none"] /\ cons = "none"
        /\ rows = [n |-> 0, finished |-> 0, closed |-> FALSE] /\ stop = FALSE
        /\ out = [buffer |-> 0, sent |-> 0] /\ recycled = FALSE
BrokenOver == /\ br_main = [step |-> "returned", next |-> 1, answer |-> "none"]
        /\ br_shard = [q \in Querys |-> "none"] /\ br_left = [q \in Querys |-> 2]
        /\ br_prod = [q \in Querys |-> "none"] /\ br_cons = "none"
        /\ br_rows = [n |-> 0, finished |-> 0, closed |-> FALSE] /\ br_stop = FALSE
        /\ br_out = [buffer |-> 0, sent |-> 0] /\ br_recycled = FALSE
\* Statements that have their answers.
AllDone == /\ queue = [c \in {"c1", "c2"} |-> [b \in {"b1", "b2"} |-> <<>>]]
           /\ holder = <<"none", "none">> /\ failed = [c \in {"c1", "c2"} |-> FALSE] /\ done = {"c1", "c2"}

MCInit ==
  /\ part \in {"stream", "broken", "shift", "stopped", "pool", "locks"}
  /\ \/ part = "stream" /\ StreamInit
     \/ part \notin {"stream"} /\ Over
  /\ \/ part = "broken" /\ Broken!StreamInit
     \/ part \notin {"broken"} /\ BrokenOver
  /\ Moving!ShiftInit
  /\ Stopping!ShiftInit
  /\ Pool!Init
  /\ \/ part = "locks" /\ Locks!LocksInit
     \/ part \notin {"locks"} /\ AllDone

StreamStep ==
  /\ part = "stream" /\ StreamNext
  /\ UNCHANGED <<part, brVars, shVars, stVars, cpVars, dlVars>>
BrokenStep ==
  /\ part = "broken" /\ Broken!StreamNext
  /\ UNCHANGED <<part, streamVars, shVars, stVars, cpVars, dlVars>>
ShiftStep ==
  /\ part = "shift" /\ Moving!ShiftNext
  /\ UNCHANGED <<part, streamVars, brVars, stVars, cpVars, dlVars>>
StoppedStep ==
  /\ part = "stopped" /\ Stopping!ShiftNext
  /\ UNCHANGED <<part, streamVars, brVars, shVars, cpVars, dlVars>>
PoolStep ==
  /\ part = "pool" /\ Pool!Next
  /\ UNCHANGED <<part, streamVars, brVars, shVars, stVars, dlVars>>
LocksStep ==
  /\ part = "locks" /\ Locks!LocksNext
  /\ UNCHANGED <<part, streamVars, brVars, shVars, stVars, cpVars>>

MCNext == StreamStep \/ BrokenStep \/ ShiftStep \/ StoppedStep \/ PoolStep
          \/ LocksStep

MCvars == <<part, streamVars, brVars, shVars, stVars, cpVars, dlVars>>
MCSpec == MCInit /\ [][MCNext]_MCvars
          /\ StreamFairness
          /\ Broken!StreamFairness
          /\ Moving!ShiftFairness
          /\ Stopping!ShiftFairness
          /\ Pool!Fairness
          /\ Locks!LocksFairness

-----------------------------------------------------------------------------
\* The types of the components that run.
ProgressTypeOK == /\ part = "stream" => StreamTypeOK
                  /\ part = "broken" => Broken!StreamTypeOK
                  /\ part = "shift" => Moving!ShiftTypeOK
                  /\ part = "stopped" => Stopping!ShiftTypeOK
                  /\ part = "pool" => Pool!PoolTypeOK
                  /\ part = "locks" => Locks!DmlLocksTypeOK

\* A shift that was started and that nobody stops ends with WaitFinish
\* returning.
ShiftEnds == Moving!ShiftEnds

\* After WaitFinish the proxy takes writes again.
WritesResume == Moving!WritesResume

\* After WaitFinish the behinds checker ends.
BehindsEnds == Moving!BehindsEnds

\* A stop signal, an error or the end of the cut-over makes WaitFinish
\* return, unless the process dies first.
StopReturns == Stopping!StopReturns

\* ExecuteWithLimits returns, although the deadline goroutine it waits for
\* needs a connection of the same pool, which may be empty, closed or unable
\* to dial.
ExecuteEnds == Pool!ExecuteEnds

\* Every statement gets an answer, if need be the one of the timeout.
AllAnswered == Locks!AllAnswered

\* A streamed SELECT returns, whatever its client and its backends do, and
\* one that reports no error has sent every row.
StreamsComplete == []ProgressTypeOK /\ []FinishedIsComplete /\ StreamReturns

\* A shift ends, stopped or not, with its goroutines, and then the proxy
\* takes writes again.
ShiftsEnd == ShiftEnds /\ StopReturns /\ BehindsEnds /\ WritesResume

\* Every query is answered: one whose deadline goroutine needs a connection of
\* the same pool, and those that wait for the rows of one another.
QueriesEnd == ExecuteEnds /\ AllAnswered

=============================================================================
