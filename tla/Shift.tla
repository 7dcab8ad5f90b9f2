------------------------------- MODULE Shift -------------------------------
(***************************************************************************)
(* One run of tools/shift/shift: a table moves from the backend From to    *)
(* the backend To while the proxy goes on serving it.  Four goroutines     *)
(* share the Shift object: the canal (dump, then binlog events), the       *)
(* behinds checker, which runs the cut-over setNeoDB, WaitFinish, which    *)
(* closes everything, and the receiver WaitFinish starts on a stop signal. *)
(* The channels err and done are unbuffered: a send is one step with the   *)
(* receive that takes it.                                                  *)
(*                                                                         *)
(* Rows are counted: fpos writes are in the binlog of From, the first spos *)
(* of them were handled by the canal, and bad holds those among them that  *)
(* did not reach the To table.                                             *)
(***************************************************************************)
EXTENDS Naturals, FiniteSets

CONSTANTS Configs,    \* the configurations a shift may be started with
          MaxWrites,  \* bound on the writes of the clients
          MaxShiftFaults,  \* bound on failing calls and connections
          MayStop     \* whether SetStopSignal may be called

\* ToFlavor is "neodb" for a reshard, the MySQL flavours behave alike.
ShiftConfig == [flavor : {"mysql", "neodb"}, cleanup : BOOLEAN, rebalance : BOOLEAN,
                checksum : BOOLEAN, behinds : Nat]

ASSUME ShiftAssumption ==
  /\ Configs \subseteq ShiftConfig /\ MayStop \in BOOLEAN
  /\ MaxWrites \in Nat /\ MaxShiftFaults \in Nat

VARIABLES
  cfg,                  \* shift.cfg
  fpos, spos, bad,      \* the rows, see above
  inflight,             \* a write that passed the readonly check, not executed
  ro, throttled, rule,  \* the proxy: readonly, throttle, backend of the table
  fromTab, toTab,       \* the tables on the backends
  roPos,                \* history: fpos when the cut-over set readonly
  allDone, canalOK,     \* shift.allDone, shift.atomicBool
  closed,               \* closeTchan, canal and pools are closed
  stop,                 \* stopSignal is closed
  pos,                  \* the position setNeoDB waits for
  kpc, bpc, wpc, rpc,   \* canal, behinds checker, WaitFinish, stop receiver
  shiftFaults

rows  == <<fpos, spos, bad, inflight>>
proxy == <<ro, throttled, rule>>
tabs  == <<fromTab, toTab>>
flags == <<allDone, canalOK, closed, stop>>
pcs   == <<kpc, bpc, wpc, rpc>>
shiftVars == <<cfg, rows, proxy, tabs, roPos, flags, pos, pcs, shiftFaults>>

CanalPcs   == {"idle", "dump", "sync", "row", "nil", "exit", "send", "end", "panic"}
BehindsPcs == {"idle", "dumping", "loop", "check", "pos", "throttle", "s1", "w1", "s2",
               "s3", "w3", "s4", "s5", "s6", "s7", "s8", "s9", "set", "send", "end"}
WaiterPcs  == {"start", "wait", "close", "c1", "c2", "c3", "ret"}
ReceiverPcs == {"none", "recv", "end"}
Rules      == {"from", "to"}
FromTabs   == {"table", "cleanup", "dropped"}
ToTabs     == {"none", "migrate", "table", "dropped"}

ShiftTypeOK ==
  /\ cfg \in Configs
  /\ fpos \in 0..MaxWrites /\ spos \in 0..MaxWrites /\ bad \subseteq 1..MaxWrites
  /\ roPos \in 0..MaxWrites /\ pos \in 0..MaxWrites
  /\ inflight \in BOOLEAN /\ ro \in BOOLEAN /\ throttled \in BOOLEAN
  /\ allDone \in BOOLEAN /\ canalOK \in BOOLEAN /\ closed \in BOOLEAN /\ stop \in BOOLEAN
  /\ rule \in Rules /\ fromTab \in FromTabs /\ toTab \in ToTabs
  /\ kpc \in CanalPcs /\ bpc \in BehindsPcs /\ wpc \in WaiterPcs /\ rpc \in ReceiverPcs
  /\ shiftFaults \in 0..MaxShiftFaults

ShiftInit ==
  /\ cfg \in Configs
  /\ fpos = 0 /\ spos = 0 /\ bad = {} /\ inflight = FALSE
  /\ ro = FALSE /\ throttled = FALSE /\ rule = "from"
  /\ fromTab = "table" /\ toTab = "none" /\ roPos = 0
  /\ allDone = FALSE /\ canalOK = TRUE /\ closed = FALSE /\ stop = FALSE
  /\ pos = 0 /\ shiftFaults = 0
  /\ kpc = "idle" /\ bpc = "idle" /\ wpc = "start" /\ rpc = "none"

Running == kpc # "panic"

ShiftFault == shiftFaults < MaxShiftFaults /\ shiftFaults' = shiftFaults + 1

----------------------------------------------------------------------------
(* Clients of the proxy.  A write is admitted by the readonly test of      *)
(* ComQuery and reaches the backend later.                                 *)

WriteAdmitted ==
  /\ ~ro /\ ~inflight /\ rule = "from" /\ fpos < MaxWrites
  /\ inflight' = TRUE
  /\ UNCHANGED <<cfg, fpos, spos, bad, proxy, tabs, roPos, flags, pos, pcs, shiftFaults>>

\* The write fails when its table is gone.
WriteExecuted ==
  /\ inflight /\ inflight' = FALSE
  /\ fpos' = IF fromTab = "table" THEN fpos + 1 ELSE fpos
  /\ UNCHANGED <<cfg, spos, bad, proxy, tabs, roPos, flags, pos, pcs, shiftFaults>>

----------------------------------------------------------------------------
(* Start.                                                                  *)

\* The table the MySQL flavours fill is renamed at the end of the cut-over.
ToTableMade == IF cfg.flavor = "neodb" THEN "table" ELSE "migrate"

Start ==
  /\ wpc = "start" /\ wpc' = "wait"
  /\ toTab' = ToTableMade
  /\ kpc' = "dump" /\ bpc' = "dumping"
  /\ UNCHANGED <<cfg, rows, proxy, fromTab, roPos, flags, pos, rpc, shiftFaults>>

\* Connections, the table or the canal cannot be had: nothing is undone.
StartFails ==
  /\ wpc = "start" /\ ShiftFault /\ wpc' = "ret"
  /\ toTab' \in {toTab, ToTableMade}
  /\ UNCHANGED <<cfg, rows, proxy, fromTab, roPos, flags, pos, kpc, bpc, rpc>>

----------------------------------------------------------------------------
(* The canal goroutine.                                                    *)

Dumped ==
  /\ kpc = "dump" /\ kpc' = "sync" /\ spos' = fpos
  /\ UNCHANGED <<cfg, fpos, bad, inflight, proxy, tabs, roPos, flags, pos, bpc, wpc, rpc, shiftFaults>>

\* toPool.Get gives a connection and the statement succeeds.
OnRow ==
  /\ kpc = "sync" /\ spos < fpos /\ ~closed /\ toTab \in {"migrate", "table"}
  /\ spos' = spos + 1
  /\ UNCHANGED <<cfg, fpos, bad, inflight, proxy, tabs, roPos, flags, pos, pcs, shiftFaults>>

\* The statement fails: execute blocks in shift.err <- err.
OnRowFails ==
  /\ kpc = "sync" /\ spos < fpos /\ ShiftFault /\ kpc' = "row"
  /\ UNCHANGED <<cfg, rows, proxy, tabs, roPos, flags, pos, bpc, wpc, rpc>>

\* toPool.Get returns nil: the pool is closed or the reconnect failed.
OnRowNoConn ==
  /\ kpc = "sync" /\ spos < fpos /\ kpc' = "nil"
  /\ \/ closed /\ UNCHANGED shiftFaults
     \/ ~closed /\ ShiftFault
  /\ UNCHANGED <<cfg, rows, proxy, tabs, roPos, flags, pos, bpc, wpc, rpc>>

\* canal.Run returns an error: the dump or the replication connection broke,
\* the table was altered, an XA ROLLBACK was read, or the canal was closed.
CanalFails ==
  /\ kpc \in {"dump", "sync"} /\ kpc' = "exit"
  /\ \/ closed /\ kpc = "sync" /\ UNCHANGED shiftFaults
     \/ ~closed /\ ShiftFault
  /\ UNCHANGED <<cfg, rows, proxy, tabs, roPos, flags, pos, bpc, wpc, rpc>>

\* canal.Run returns nil when the cancelled context is what it saw first.
CanalCancelled ==
  /\ kpc = "sync" /\ closed /\ kpc' = "end"
  /\ UNCHANGED <<cfg, rows, proxy, tabs, roPos, flags, pos, bpc, wpc, rpc, shiftFaults>>

CanalExit ==
  /\ kpc = "exit"
  /\ kpc' = IF allDone THEN "end" ELSE "send"
  /\ canalOK' = (canalOK /\ allDone)
  /\ UNCHANGED <<cfg, rows, proxy, tabs, roPos, allDone, closed, stop, pos, bpc, wpc, rpc, shiftFaults>>

----------------------------------------------------------------------------
(* The error channel.  What the sender does next: the canal that lost a    *)
(* row goes on with the next one, the one without a connection uses nil.   *)

SenderGoesOn ==
  \/ /\ kpc = "row" /\ kpc' = "sync"
     /\ spos' = spos + 1 /\ bad' = bad \cup {spos + 1} /\ UNCHANGED bpc
  \/ kpc = "nil" /\ kpc' = "panic" /\ UNCHANGED <<spos, bad, bpc>>
  \/ kpc = "send" /\ kpc' = "end" /\ UNCHANGED <<spos, bad, bpc>>
  \/ bpc = "send" /\ bpc' = "loop" /\ UNCHANGED <<spos, bad, kpc>>

WaitFinishErr ==
  /\ wpc = "wait" /\ wpc' = "close" /\ SenderGoesOn
  /\ UNCHANGED <<cfg, fpos, inflight, proxy, tabs, roPos, flags, pos, rpc, shiftFaults>>

ReceiverErr ==
  /\ rpc = "recv" /\ rpc' = "end" /\ SenderGoesOn
  /\ UNCHANGED <<cfg, fpos, inflight, proxy, tabs, roPos, flags, pos, wpc, shiftFaults>>

----------------------------------------------------------------------------
(* The behinds checker.                                                    *)

CheckerGoto(a, b) == bpc = a /\ bpc' = b /\ UNCHANGED <<kpc, wpc, rpc>>

WaitDumpDone ==
  /\ kpc # "dump" /\ CheckerGoto("dumping", "loop")
  /\ UNCHANGED <<cfg, rows, proxy, tabs, roPos, flags, pos, shiftFaults>>

\* A tick that is in the ticker's channel is taken after close as well.
Tick ==
  /\ CheckerGoto("loop", "check")
  /\ UNCHANGED <<cfg, rows, proxy, tabs, roPos, flags, pos, shiftFaults>>

LoopCloses ==
  /\ closed /\ CheckerGoto("loop", "end")
  /\ UNCHANGED <<cfg, rows, proxy, tabs, roPos, flags, pos, shiftFaults>>

\* Each break leaves the select, not the loop.
Check ==
  /\ CheckerGoto("check", IF allDone \/ ~canalOK THEN "loop" ELSE "pos")
  /\ UNCHANGED <<cfg, rows, proxy, tabs, roPos, flags, pos, shiftFaults>>

\* masterPosition and the distance to the synced position.
Behind ==
  /\ ~closed
  /\ CheckerGoto("pos", IF fpos - spos <= cfg.behinds THEN "s1" ELSE "throttle")
  /\ UNCHANGED <<cfg, rows, proxy, tabs, roPos, flags, pos, shiftFaults>>

SetThrottle ==
  /\ CheckerGoto("throttle", "loop") /\ throttled' = TRUE
  /\ UNCHANGED <<cfg, rows, ro, rule, tabs, roPos, flags, pos, shiftFaults>>

\* setNeoDB, steps 1 and 3: read the master position and wait for it.
MasterPos(s, w) ==
  /\ ~closed /\ CheckerGoto(s, w) /\ pos' = fpos
  /\ UNCHANGED <<cfg, rows, proxy, tabs, roPos, flags, shiftFaults>>

WaitUntilPos(w, next) ==
  /\ spos >= pos /\ CheckerGoto(w, next)
  /\ UNCHANGED <<cfg, rows, proxy, tabs, roPos, flags, pos, shiftFaults>>

Wait1 == MasterPos("s1", "w1")
Waited1 == WaitUntilPos("w1", "s2")

\* Step 2.
ReadOnlyOn ==
  /\ CheckerGoto("s2", "s3") /\ ro' = TRUE /\ roPos' = fpos
  /\ UNCHANGED <<cfg, rows, throttled, rule, tabs, flags, pos, shiftFaults>>

Wait3 == MasterPos("s3", "w3")
Waited3 == WaitUntilPos("w3", "s4")

\* Mutant: the checksums are not compared.
ChecksumTableSkip ==
  /\ CheckerGoto("s4", "s5")
  /\ UNCHANGED <<cfg, rows, proxy, tabs, roPos, flags, pos, shiftFaults>>

\* Step 4.  The two checksums agree once the To table holds every row.
ChecksumTable ==
  /\ ~cfg.checksum \/ (~closed /\ bad = {} /\ spos = fpos)
  /\ CheckerGoto("s4", "s5")
  /\ UNCHANGED <<cfg, rows, proxy, tabs, roPos, flags, pos, shiftFaults>>

\* Step 5.
RenameToTable ==
  /\ CheckerGoto("s5", "s6")
  /\ IF cfg.flavor = "neodb" THEN UNCHANGED toTab
     ELSE ~closed /\ toTab = "migrate" /\ toTab' = "table"
  /\ UNCHANGED <<cfg, rows, proxy, fromTab, roPos, flags, pos, shiftFaults>>

\* Step 6.
SetNeoDBRule ==
  /\ CheckerGoto("s6", "s7")
  /\ rule' = IF cfg.flavor = "neodb" THEN rule ELSE "to"
  /\ UNCHANGED <<cfg, rows, ro, throttled, tabs, roPos, flags, pos, shiftFaults>>

\* Step 7.
ReadOnlyOff ==
  /\ CheckerGoto("s7", "s8") /\ ro' = FALSE
  /\ UNCHANGED <<cfg, rows, throttled, rule, tabs, roPos, flags, pos, shiftFaults>>

\* Step 8.
ThrottleOff ==
  /\ CheckerGoto("s8", "s9") /\ throttled' = FALSE
  /\ UNCHANGED <<cfg, rows, ro, rule, tabs, roPos, flags, pos, shiftFaults>>

\* Step 9: shift.done <- true, then allDone.
SendDone ==
  /\ bpc = "s9" /\ wpc = "wait" /\ bpc' = "set" /\ wpc' = "close"
  /\ UNCHANGED <<cfg, rows, proxy, tabs, roPos, flags, pos, kpc, rpc, shiftFaults>>

SetAllDone ==
  /\ CheckerGoto("set", "loop") /\ allDone' = TRUE
  /\ UNCHANGED <<cfg, rows, proxy, tabs, roPos, canalOK, closed, stop, pos, shiftFaults>>

\* What makes each step fail without a fault of its own.
Hopeless ==
  \/ bpc \in {"pos", "s1", "s3"} /\ closed
  \/ bpc \in {"w1", "w3"} /\ spos < pos /\ kpc \in {"exit", "send", "end"}
  \/ bpc = "s4" /\ cfg.checksum /\ (closed \/ bad # {} \/ (spos < fpos /\ kpc \in {"exit", "send", "end"}))
  \/ bpc = "s5" /\ cfg.flavor # "neodb" /\ (closed \/ toTab # "migrate")

\* A call fails: its effect on the proxy may still have happened.
BehindsFails ==
  /\ bpc' = "send" /\ UNCHANGED <<kpc, wpc, rpc>>
  /\ \/ Hopeless /\ UNCHANGED <<proxy, shiftFaults>>
     \/ /\ bpc \in {"pos", "throttle", "s1", "w1", "s2", "s3", "w3", "s4", "s5", "s6", "s7", "s8"}
        /\ bpc = "s4" => cfg.checksum
        /\ bpc \in {"s5", "s6"} => cfg.flavor # "neodb"
        /\ ShiftFault
        /\ \/ UNCHANGED proxy
           \/ bpc = "s2" /\ ro' = TRUE /\ UNCHANGED <<throttled, rule>>
           \/ bpc = "s6" /\ rule' = "to" /\ UNCHANGED <<throttled, ro>>
  /\ UNCHANGED <<cfg, rows, tabs, roPos, flags, pos>>

----------------------------------------------------------------------------
(* WaitFinish and close.                                                   *)

SetStopSignal ==
  /\ MayStop /\ ~stop /\ wpc # "start" /\ stop' = TRUE
  /\ UNCHANGED <<cfg, rows, proxy, tabs, roPos, allDone, canalOK, closed, pos, pcs, shiftFaults>>

\* Mutant: WaitFinish does not listen to the stop.
WaitFinishNoStop ==
  /\ wpc = "wait" /\ stop /\ rpc = "none" /\ rpc' = "recv"
  /\ UNCHANGED <<cfg, rows, proxy, tabs, roPos, flags, pos, kpc, bpc, wpc, shiftFaults>>

WaitFinishStop ==
  /\ wpc = "wait" /\ stop /\ wpc' = "close" /\ rpc' = "recv"
  /\ UNCHANGED <<cfg, rows, proxy, tabs, roPos, flags, pos, kpc, bpc, shiftFaults>>

Then(a, b) == wpc = a /\ wpc' = b /\ UNCHANGED <<kpc, bpc, rpc>>

\* The ticker, closeTchan, the canal and the pools.
CloseShift ==
  /\ Then("close", "c1") /\ closed' = TRUE
  /\ UNCHANGED <<cfg, rows, proxy, tabs, roPos, allDone, canalOK, stop, pos, shiftFaults>>

CleanupThrottle ==
  /\ Then("c1", "c2") /\ throttled' = FALSE
  /\ UNCHANGED <<cfg, rows, ro, rule, tabs, roPos, flags, pos, shiftFaults>>

CleanupReadOnly ==
  /\ Then("c2", "c3") /\ ro' = FALSE
  /\ UNCHANGED <<cfg, rows, throttled, rule, tabs, roPos, flags, pos, shiftFaults>>

Dropped(t) == IF t \in {"migrate", "table"} THEN "dropped" ELSE t

CleanupTables ==
  /\ Then("c3", "ret")
  /\ fromTab' = IF cfg.cleanup /\ allDone THEN "dropped"
                ELSE IF ~cfg.cleanup /\ cfg.rebalance /\ allDone /\ cfg.flavor # "neodb" THEN "cleanup"
                ELSE fromTab
  /\ toTab' = IF cfg.cleanup /\ ~allDone THEN Dropped(toTab) ELSE toTab
  /\ UNCHANGED <<cfg, rows, proxy, roPos, flags, pos, shiftFaults>>

CloseFails ==
  /\ wpc \in {"c1", "c2", "c3"} /\ ShiftFault
  /\ wpc' = "ret" /\ UNCHANGED <<kpc, bpc, rpc>>
  /\ UNCHANGED <<cfg, rows, proxy, tabs, roPos, flags, pos>>

----------------------------------------------------------------------------

ClientSteps == WriteAdmitted \/ WriteExecuted

Canal == \/ Dumped \/ OnRow \/ OnRowFails \/ OnRowNoConn
         \/ CanalFails \/ CanalCancelled \/ CanalExit

BehindsChecker ==
  \/ WaitDumpDone \/ Tick \/ LoopCloses \/ Check \/ Behind \/ SetThrottle
  \/ Wait1 \/ Waited1 \/ ReadOnlyOn \/ Wait3 \/ Waited3 \/ ChecksumTable
  \/ RenameToTable \/ SetNeoDBRule \/ ReadOnlyOff \/ ThrottleOff
  \/ SendDone \/ SetAllDone \/ BehindsFails

Waiter == \/ WaitFinishErr \/ WaitFinishStop
          \/ CloseShift \/ CleanupThrottle \/ CleanupReadOnly \/ CleanupTables \/ CloseFails

ShiftNext == Running /\ (Start \/ StartFails \/ ClientSteps \/ Canal \/ BehindsChecker \/ Waiter
                    \/ ReceiverErr \/ SetStopSignal)

ShiftSpec == ShiftInit /\ [][ShiftNext]_shiftVars

\* Every goroutine that can run does, an admitted write is executed, and the
\* select does not pass over the closed closeTchan for ever.
ShiftFairness ==
  /\ WF_shiftVars(Running /\ WriteExecuted)
  /\ WF_shiftVars(Running /\ Canal) /\ WF_shiftVars(Running /\ Waiter)
  /\ WF_shiftVars(Running /\ BehindsChecker) /\ WF_shiftVars(Running /\ ReceiverErr)
  /\ SF_shiftVars(Running /\ LoopCloses)
ShiftFairSpec == ShiftSpec /\ ShiftFairness

----------------------------------------------------------------------------
(* Properties.                                                             *)

\* A write that was in the binlog before the cut-over made the proxy readonly
\* (setNeoDB, step 2) is in the To table, unharmed, when clients are
\* routed there: step 3 waits for it and the checksum of step 4 compares it.
SwitchKeepsWrites ==
  [][rule' # rule => spos >= roPos /\ (cfg.checksum => bad \cap 1..roPos = {})]_shiftVars

\* Cleanup touches the From table only after the To table took its place with
\* every row of before the readonly step (cleanupFrom and renameFromTable run
\* after success).
FromKept ==
  fromTab # "table" =>
    /\ allDone /\ toTab = "table" /\ (cfg.flavor = "neodb" \/ rule = "to")
    /\ spos >= roPos /\ (cfg.checksum => bad \cap 1..roPos = {})

\* The table the clients are routed to exists.  With the cleanup option the code
\* keeps less (RoutedAlways): a shift taken for failed drops the table clients are
\* routed to, but then the From table is still there and WaitFinish has returned,
\* so that no cleanup of either flavour ever drops both.
RoutedTableExists ==
  /\ rule = "from" => fromTab = "table" \/ cfg.flavor = "neodb"
  /\ rule = "to" => \/ toTab = "table"
                    \/ cfg.cleanup /\ toTab = "dropped" /\ fromTab = "table" /\ wpc = "ret"

\* "Or cleanup the to tables who half shifted": never the table clients use.
\* NOT KEPT by the code: see "Known disagreements" in the README.
RoutedAlways == rule = "to" => toTab = "table"

\* The To table is dropped by a failed shift only, never by one whose cut-over
\* reached the end (cleanupTo).
\* NOT KEPT by the code: see "Known disagreements" in the README.
DropToOnlyFailed ==
  toTab = "dropped" => ~allDone /\ bpc # "set"

\* Clients change over to the To table while the proxy is readonly.
\* NOT KEPT by the code: see "Known disagreements" in the README.
SwitchedReadOnly == [][rule' # rule => ro]_shiftVars

\* From and To hold the same rows when the rule changes (ChecksumTable).
\* NOT KEPT by the code: see "Known disagreements" in the README.
SwitchConsistent == [][rule' # rule => bad = {} /\ spos = fpos]_shiftVars

\* Whatever happened, close is run: the process does not die in a goroutine
\* of the shift before it.
\* NOT KEPT by the code: see "Known disagreements" in the README.
CloseRuns == kpc = "panic" => wpc = "ret"

\* A stop signal, an error or the end of the cut-over makes WaitFinish return,
\* unless the process dies first.
StopReturns ==
  (stop \/ bpc \in {"send", "s9"} \/ kpc = "send") ~> (wpc = "ret" \/ ~Running)

\* A shift that was started and that nobody stops ends with WaitFinish returning.
ShiftEnds == (wpc = "wait") ~> (wpc = "ret")

\* After WaitFinish the proxy takes writes again.
WritesResume == (wpc = "ret") ~> [](~ro)

\* After WaitFinish the behinds checker ends.
BehindsEnds == (wpc = "ret") ~> (bpc \in {"end", "idle"})

\* After WaitFinish the goroutine that runs the canal ends.
\* NOT KEPT by the code: see "Known disagreements" in the README.
CanalEnds == (wpc = "ret") ~> (kpc \in {"end", "idle"})
=============================================================================
