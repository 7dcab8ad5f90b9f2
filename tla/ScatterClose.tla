----------------------------- MODULE ScatterClose ---------------------------
(***************************************************************************)
(* The locks of the scatter and of xacheck: the goroutine that retries     *)
(* commits, sessions that ask for the backends, administrators that change *)
(* them, and Close, which waits for the goroutine.  The scatter's lock is  *)
(* a sync.RWMutex: a writer that waits keeps new readers out.              *)
(***************************************************************************)
EXTENDS Integers, FiniteSets

CONSTANTS Sessions, Admins, MaxTicks

ScatterCloseAssumption == MaxTicks \in Nat

VARIABLES pc,       \* goroutine -> control point
          readers, writer, queue,  \* scatter.mu: holders and waiting writers
          xcmu,     \* holder of xc.mu, or "none"
          retrys,   \* there are logged commits
          done,     \* xc.done is closed
          backends, \* the scatter has backends
          ticks

vars == <<pc, readers, writer, queue, xcmu, retrys, done, backends, ticks>>

Procs == Sessions \cup Admins \cup {"xacheck", "closer"}

Init == /\ pc = [p \in Procs |-> "idle"]
        /\ readers = {} /\ writer = "none" /\ queue = {} /\ xcmu = "none"
        /\ retrys = FALSE /\ done = FALSE /\ backends = TRUE /\ ticks = 0

Goto(p, l) == pc' = [pc EXCEPT ![p] = l]
At(p, l) == pc[p] = l

-----------------------------------------------------------------------------
RLock(p, from, to) == /\ At(p, from) /\ writer = "none" /\ queue = {}
                      /\ readers' = readers \cup {p} /\ Goto(p, to)
                      /\ UNCHANGED <<writer, queue, xcmu, retrys, done, backends, ticks>>
RUnlock(p, from, to) == /\ At(p, from) /\ readers' = readers \ {p} /\ Goto(p, to)
                        /\ UNCHANGED <<writer, queue, xcmu, retrys, done, backends, ticks>>
AskLock(p, from, to) == /\ At(p, from) /\ queue' = queue \cup {p} /\ Goto(p, to)
                        /\ UNCHANGED <<readers, writer, xcmu, retrys, done, backends, ticks>>
Lock(p, from, to) == /\ At(p, from) /\ writer = "none" /\ readers = {}
                     /\ writer' = p /\ queue' = queue \ {p} /\ Goto(p, to)
                     /\ UNCHANGED <<readers, xcmu, retrys, done, backends, ticks>>

-----------------------------------------------------------------------------
\* Sessions: Backends, PoolzClone in CreateTransaction; WriteXaCommitErrLog.  The
\* proxy closes the sessions before the scatter.
SessionRead(s) == RLock(s, "idle", "reads") \/ RUnlock(s, "reads", "idle")

WriteXaCommitErrLog(s) ==
  /\ At(s, "idle") /\ xcmu = "none" /\ ~done /\ ~retrys
  /\ At("closer", "idle") /\ retrys' = TRUE
  /\ UNCHANGED <<pc, readers, writer, queue, xcmu, done, backends, ticks>>

\* Add, Remove, FlushConfig, LoadConfig
AdminChange(a) == /\ \/ At("closer", "idle") /\ AskLock(a, "idle", "waits")
                     \/ Lock(a, "waits", "writes")
                     \/ /\ At(a, "writes") /\ writer' = "none" /\ Goto(a, "idle")
                        /\ UNCHANGED <<readers, queue, xcmu, retrys, done, backends, ticks>>

-----------------------------------------------------------------------------
\* xaCommitCheck: a tick or the end.
Tick == /\ At("xacheck", "idle") /\ ticks < MaxTicks /\ ticks' = ticks + 1
        /\ Goto("xacheck", "tick")
        /\ UNCHANGED <<readers, writer, queue, xcmu, retrys, done, backends>>
TickLock == /\ At("xacheck", "tick") /\ xcmu = "none" /\ xcmu' = "xacheck"
            /\ Goto("xacheck", IF retrys THEN "allBackends" ELSE "retried")
            /\ UNCHANGED <<readers, writer, queue, retrys, done, backends, ticks>>
\* Mutant: the read lock is kept.
AllBackendsKept == \/ RLock("xacheck", "allBackends", "listed")
                   \/ /\ At("xacheck", "listed") /\ ~backends /\ Goto("xacheck", "retried")
                      /\ UNCHANGED <<readers, writer, queue, xcmu, retrys, done, backends, ticks>>
                   \/ /\ At("xacheck", "listed") /\ backends /\ Goto("xacheck", "create")
                      /\ UNCHANGED <<readers, writer, queue, xcmu, retrys, done, backends, ticks>>

\* commitRetryBackends: AllBackends, then CreateTransaction.
AllBackends == \/ RLock("xacheck", "allBackends", "listed")
               \/ /\ At("xacheck", "listed") /\ readers' = readers \ {"xacheck"}
                  /\ Goto("xacheck", IF backends THEN "create" ELSE "retried")
                  /\ UNCHANGED <<writer, queue, xcmu, retrys, done, backends, ticks>>
CreateTransaction == RLock("xacheck", "create", "cloned") \/ RUnlock("xacheck", "cloned", "commit")
\* The backends are asked and commit, or do not.
CommitRetry(ok) == /\ At("xacheck", "commit") /\ retrys' = (retrys /\ ~ok)
                   /\ Goto("xacheck", "retried")
                   /\ UNCHANGED <<readers, writer, queue, xcmu, done, backends, ticks>>
TickUnlock == /\ At("xacheck", "retried") /\ xcmu' = "none" /\ Goto("xacheck", "idle")
              /\ UNCHANGED <<readers, writer, queue, retrys, done, backends, ticks>>
XaCheckEnds == /\ At("xacheck", "idle") /\ done /\ Goto("xacheck", "ended")
               /\ UNCHANGED <<readers, writer, queue, xcmu, retrys, done, backends, ticks>>

-----------------------------------------------------------------------------
\* Close: clear, close(xc.done), wg.Wait.
CloseAsk == AskLock("closer", "idle", "waits")
CloseLock == Lock("closer", "waits", "clear")
Clear == /\ At("closer", "clear") /\ backends' = FALSE /\ done' = TRUE /\ Goto("closer", "wait")
         /\ UNCHANGED <<readers, writer, queue, xcmu, retrys, ticks>>
CloseEnd == /\ At("closer", "wait") /\ At("xacheck", "ended")
            /\ writer' = "none" /\ Goto("closer", "closed")
            /\ UNCHANGED <<readers, queue, xcmu, retrys, done, backends, ticks>>

XaCheck == TickLock \/ AllBackends \/ CreateTransaction \/ TickUnlock \/ XaCheckEnds
           \/ \E ok \in BOOLEAN : CommitRetry(ok)
Closer == CloseLock \/ Clear \/ CloseEnd

Next == \/ Tick \/ XaCheck \/ CloseAsk \/ Closer
        \/ \E s \in Sessions : SessionRead(s) \/ WriteXaCommitErrLog(s)
        \/ \E a \in Admins : AdminChange(a)

Spec == Init /\ [][Next]_vars

\* Goroutines that have begun go on, and a waiting lock is got in the end.
Fairness ==
  /\ WF_vars(XaCheck) /\ SF_vars(Closer)
  /\ \A s \in Sessions : WF_vars(~At(s, "idle") /\ SessionRead(s))
  /\ \A a \in Admins : SF_vars(~At(a, "idle") /\ AdminChange(a))
FairSpec == Spec /\ Fairness

-----------------------------------------------------------------------------
ScatterTypeOK == /\ writer # "none" => readers = {}
                 /\ \A p \in queue : At(p, "waits")
                 /\ xcmu = "xacheck" <=> pc["xacheck"] \in {"allBackends", "listed", "create", "cloned", "commit", "retried"}

\* After Close the goroutine of xacheck runs no more: it retries nothing on pools
\* that are closed.
ClosedIsQuiet == At("closer", "closed") => At("xacheck", "ended")

\* A Close that is called when there is no commit to retry returns (Scatter.Close,
\* XaCheck.Close).
CloseReturns == (At("closer", "waits") /\ ~retrys) ~> At("closer", "closed")

\* A Close that has been called returns.
\* NOT KEPT by the code: see "Known disagreements" in the README.
CloseAlwaysReturns == At("closer", "waits") ~> At("closer", "closed")

\* An administrator who waits for the scatter's lock gets it, unless the scatter closes.
AdminGetsLock == \A a \in Admins : At(a, "waits") ~> (At(a, "writes") \/ ~At("closer", "idle"))

=============================================================================
