------------------------------ MODULE ConnPool ------------------------------
(***************************************************************************)
(* One pool of backend connections: backend/pool.go keeps the idle ones in *)
(* a bounded channel, backend/connection.go runs a query under a deadline  *)
(* whose goroutine kills the connection through another one of the same    *)
(* pool.  A caller and its deadline goroutine are two processes that both  *)
(* take connections; Close runs beside them.                               *)
(*                                                                         *)
(* Time is abstracted to the three cases Get tells apart: a connection     *)
(* idle for at most a second, for longer, and for longer than maxIdleTime. *)
(***************************************************************************)
EXTENDS Naturals, Sequences, FiniteSets

CONSTANTS
  Callers,         \* goroutines that take a connection and run a query on it
  MaxConnections,  \* conf.MaxConnections, the capacity of the channel
  MaxDials,        \* bound: connections the backend ever accepts
  MaxQueries,      \* bound: queries in all
  MaxFaults        \* bound: connections the network or the backend breaks

ASSUME PoolAssumption ==
  MaxConnections \in Nat /\ MaxDials \in Nat /\ MaxQueries \in Nat /\ MaxFaults \in Nat

Conns  == 1 .. MaxDials
NoConn == 0
Procs  == Callers \X {"main", "killer"}
Main(u)   == <<u, "main">>
Killer(u) == <<u, "killer">>

VARIABLES
  chan,     \* p.connections: open, closing (closed, being drained) or nil
  idle,     \* its content
  drv,      \* the driver's connection: broken is closed by the server unnoticed
  lastErr,  \* connections with c.lastErr # nil
  killed,   \* connections with c.killed set
  pc, hold, \* where a process is and the connection it has
  late,     \* callers whose deadline fired during their current query
  blamed,   \* callers told "timeout exceeded"
  gauge,    \* monitor's backendConnectionNum
  panic,    \* a send on a closed channel
  dials, queries, faults

vars == <<chan, idle, drv, lastErr, killed, pc, hold, late, blamed, gauge,
          panic, dials, queries, faults>>

Init ==
  /\ chan = "open" /\ idle = <<>>
  /\ drv = [c \in Conns |-> "none"]
  /\ lastErr = {} /\ killed = {}
  /\ pc = [p \in Procs |-> "idle"]
  /\ hold = [p \in Procs |-> NoConn]
  /\ late = {} /\ blamed = {}
  /\ gauge = 0 /\ panic = FALSE
  /\ dials = 0 /\ queries = 0 /\ faults = 0

At(p, l) == pc' = [pc EXCEPT ![p] = l]
Take(p, c) == hold' = [hold EXCEPT ![p] = c]

-----------------------------------------------------------------------------
(* Pool.Get. *)

\* getConns: reads the channel under the read lock, which Close excludes.
getConns(p) ==
  /\ chan # "closing"
  /\ At(p, IF chan = "open" THEN "recv" ELSE "closed")
  /\ UNCHANGED <<chan, idle, drv, lastErr, killed, hold, blamed, gauge, panic,
                 dials, queries, faults>>

Get(u) == pc[Main(u)] = "idle" /\ queries < MaxQueries /\ getConns(Main(u))
          /\ UNCHANGED late

\* Both callers of Get give up on an error.
GetFails(p) ==
  /\ pc[p] = "closed"
  /\ At(p, "idle")
  /\ UNCHANGED <<chan, idle, drv, lastErr, killed, hold, late, blamed, gauge,
                 panic, dials, queries, faults>>

\* reconnect: a new connection, or the dial's error; d is the table of drivers
\* and g the gauge after what Get did with the connection it found.
reconnect(p, d, g) ==
  \/ /\ dials < MaxDials
     /\ dials' = dials + 1
     /\ drv' = [d EXCEPT ![dials + 1] = "open"]
     /\ gauge' = g + 1
     /\ Take(p, dials + 1) /\ At(p, "held")
     /\ UNCHANGED faults
  \/ /\ dials = MaxDials \/ faults < MaxFaults
     /\ faults' = IF dials = MaxDials THEN faults ELSE faults + 1
     /\ drv' = d /\ gauge' = g
     /\ At(p, "idle")
     /\ UNCHANGED <<dials, hold>>

\* Mutant: the connection stays in the channel.
PoppedNot == idle

Popped == Tail(idle)

\* The receive of Get, from an open channel or from one Close is draining.
Hit(p) ==
  LET c == Head(idle) IN
  /\ pc[p] = "recv" /\ idle # <<>>
  /\ idle' = Popped
  /\ \/ \* idle for at most a second: handed out as it is
        /\ Take(p, c) /\ At(p, "held")
        /\ UNCHANGED <<drv, gauge, dials, faults>>
     \/ \* longer: the ping works
        /\ drv[c] = "open"
        /\ Take(p, c) /\ At(p, "held")
        /\ UNCHANGED <<drv, gauge, dials, faults>>
     \/ \* longer: the ping fails, which cleans up the driver
        /\ drv[c] # "open"
        /\ reconnect(p, [drv EXCEPT ![c] = "closed"], gauge)
     \/ \* longer than maxIdleTime
        reconnect(p, [drv EXCEPT ![c] = "closed"], gauge - 1)
  /\ UNCHANGED <<chan, lastErr, killed, late, blamed, panic, queries>>

Miss(p) ==
  /\ pc[p] = "recv" /\ idle = <<>>
  /\ \/ chan = "open" /\ reconnect(p, drv, gauge)
     \/ /\ chan # "open" /\ At(p, "idle")
        /\ UNCHANGED <<drv, gauge, dials, hold, faults>>
  /\ UNCHANGED <<chan, idle, lastErr, killed, late, blamed, panic, queries>>

-----------------------------------------------------------------------------
(* Pool.put and Pool.Close. *)

\* Mutant: put does not take the mutex.
LockedNever == FALSE

\* p.mu, which Close holds from the close of the channel to its end.
Locked == chan = "closing"

Full == Len(idle) = MaxConnections

\* Recycle, then put: a connection whose driver is known to be closed is
\* dropped; so is one that returns to a closed pool, with its driver open.
Recycle(p) ==
  LET c == hold[p] IN
  /\ pc[p] = "put"
  /\ ~Locked \/ drv[c] = "closed"
  /\ \/ drv[c] = "closed" /\ UNCHANGED <<idle, drv, lastErr, gauge, panic>>
     \/ drv[c] # "closed" /\ chan = "closed"
        /\ UNCHANGED <<idle, drv, lastErr, gauge, panic>>
     \/ /\ drv[c] # "closed" /\ chan # "closed" /\ ~Full
        /\ idle' = Append(idle, c)
        /\ panic' = (panic \/ chan = "closing")
        /\ UNCHANGED <<drv, lastErr, gauge>>
     \/ /\ drv[c] # "closed" /\ chan # "closed" /\ Full
        /\ drv' = [drv EXCEPT ![c] = "closed"]
        /\ lastErr' = lastErr \cup {c}
        /\ gauge' = gauge - 1
        /\ UNCHANGED <<idle, panic>>
  /\ Take(p, NoConn) /\ At(p, "idle")
  /\ UNCHANGED <<chan, killed, late, blamed, dials, queries, faults>>

\* connection.Close, by Finish: this connection's query failed, or one of
\* another connection of the transaction.
CloseConn(u) ==
  LET p == Main(u)
      c == hold[p]
  IN
  /\ pc[p] \in {"ready", "failed"}
  /\ drv' = [drv EXCEPT ![c] = "closed"]
  /\ lastErr' = lastErr \cup {c}
  /\ gauge' = gauge - 1
  /\ Take(p, NoConn) /\ At(p, "idle")
  /\ UNCHANGED <<chan, idle, killed, late, blamed, panic, dials, queries, faults>>

\* Pool.Close: close the channel, close what is left in it, set it to nil.
Close ==
  /\ chan = "open"
  /\ chan' = "closing"
  /\ UNCHANGED <<idle, drv, lastErr, killed, pc, hold, late, blamed, gauge,
                 panic, dials, queries, faults>>

CloseDrain ==
  /\ chan = "closing" /\ idle # <<>>
  /\ drv' = [drv EXCEPT ![Head(idle)] = "closed"]
  /\ lastErr' = lastErr \cup {Head(idle)}
  /\ gauge' = gauge - 1
  /\ idle' = Tail(idle)
  /\ UNCHANGED <<chan, killed, pc, hold, late, blamed, panic, dials, queries,
                 faults>>

Drained == idle = <<>>

CloseEnd ==
  /\ chan = "closing" /\ Drained
  /\ chan' = "closed"
  /\ UNCHANGED <<idle, drv, lastErr, killed, pc, hold, late, blamed, gauge,
                 panic, dials, queries, faults>>

-----------------------------------------------------------------------------
(* connection.ExecuteWithLimits and its deadline goroutine. *)

\* Inside ExecuteWithLimits.
InQuery == {"exec", "wait", "waitErr"}

\* setDeadline starts the goroutine; the query is sent.
ExecuteWithLimits(u) ==
  /\ pc[Main(u)] = "held" /\ queries < MaxQueries
  /\ queries' = queries + 1
  /\ pc' = [pc EXCEPT ![Main(u)] = "exec", ![Killer(u)] = "armed"]
  /\ late' = late \ {u} /\ blamed' = blamed \ {u}
  /\ UNCHANGED <<chan, idle, drv, lastErr, killed, hold, gauge, panic, dials,
                 faults>>

\* FetchAllWithFunc returns: rows; an error packet or the memory limit, with
\* the connection still good; or a broken connection, which is cleaned up.
FetchOk(u, c) ==
  /\ drv[c] = "open"
  /\ UNCHANGED <<drv, lastErr, blamed, faults>>

FetchError(u, c) ==
  /\ drv[c] = "open" /\ faults < MaxFaults
  /\ faults' = faults + 1
  /\ lastErr' = lastErr \cup {c}
  /\ blamed' = IF c \in killed THEN blamed \cup {u} ELSE blamed
  /\ UNCHANGED drv

FetchBroken(u, c) ==
  /\ drv[c] # "open"
  /\ drv' = [drv EXCEPT ![c] = "closed"]
  /\ lastErr' = lastErr \cup {c}
  /\ blamed' = IF c \in killed THEN blamed \cup {u} ELSE blamed
  /\ UNCHANGED faults

QueryReturns(u) ==
  /\ pc[Main(u)] = "exec"
  /\ \/ FetchOk(u, hold[Main(u)]) /\ At(Main(u), "wait")
     \/ /\ FetchError(u, hold[Main(u)]) \/ FetchBroken(u, hold[Main(u)])
        /\ At(Main(u), "waitErr")
  /\ UNCHANGED <<chan, idle, killed, hold, late, gauge, panic, dials, queries>>

\* ctx.Done: the goroutine marks the connection and calls Kill, whose first
\* step is pool.Get.
DeadlineFires(u) ==
  /\ pc[Killer(u)] = "armed" /\ pc[Main(u)] \in InQuery
  /\ killed' = killed \cup {hold[Main(u)]}
  /\ late' = late \cup {u}
  /\ At(Killer(u), "fired")
  /\ UNCHANGED <<chan, idle, drv, lastErr, hold, blamed, gauge, panic, dials,
                 queries, faults>>

KillGet(u) == pc[Killer(u)] = "fired" /\ getConns(Killer(u)) /\ UNCHANGED late

\* Kill: "KILL id" on the other connection, then the deferred Recycle, also
\* after an error.
KillSent(u) ==
  LET k == hold[Killer(u)]
      c == hold[Main(u)]
  IN
  /\ pc[Killer(u)] = "held"
  /\ At(Killer(u), "put")
  /\ \/ /\ drv[k] = "open" /\ drv[c] = "open"
        /\ drv' = [drv EXCEPT ![c] = "broken"]
        /\ UNCHANGED lastErr
     \/ \* unknown thread id: the server has closed it already
        /\ drv[k] = "open" /\ drv[c] # "open"
        /\ lastErr' = lastErr \cup {k}
        /\ UNCHANGED drv
     \/ /\ drv[k] # "open"
        /\ drv' = [drv EXCEPT ![k] = "closed"]
        /\ lastErr' = lastErr \cup {k}
  /\ UNCHANGED <<chan, idle, killed, hold, late, blamed, gauge, panic, dials,
                 queries, faults>>

\* Mutants: ExecuteWithLimits closes done and does not wait for the goroutine;
\* it waits before it closes done, so that only the deadline ends the wait.
KillerDoneUnwaited(u) == TRUE
\* wg.Wait: the goroutine has returned (or, not yet fired, sees done closed).
KillerDone(u) == pc[Killer(u)] \in {"idle", "armed"}

\* close(done); wg.Wait().
ExecuteReturns(u) ==
  /\ pc[Main(u)] \in {"wait", "waitErr"} /\ KillerDone(u)
  /\ pc' = [pc EXCEPT ![Main(u)] = IF @ = "wait" THEN "ready" ELSE "failed",
                      ![Killer(u)] = IF @ = "armed" THEN "idle" ELSE @]
  /\ UNCHANGED <<chan, idle, drv, lastErr, killed, hold, late, blamed, gauge,
                 panic, dials, queries, faults>>

\* The query worked: Finish recycles the connection, or the transaction runs
\* its next query on it.
Reuse(u) ==
  /\ pc[Main(u)] = "ready"
  /\ \E l \in {"put", "held"} : At(Main(u), l)
  /\ UNCHANGED <<chan, idle, drv, lastErr, killed, hold, late, blamed, gauge,
                 panic, dials, queries, faults>>

\* A transaction that took the connection and sent nothing recycles it.
Unused(u) ==
  /\ pc[Main(u)] = "held" /\ At(Main(u), "put")
  /\ UNCHANGED <<chan, idle, drv, lastErr, killed, hold, late, blamed, gauge,
                 panic, dials, queries, faults>>

\* The backend restarts or the network drops a connection.
ConnLost(c) ==
  /\ faults < MaxFaults /\ drv[c] = "open"
  /\ faults' = faults + 1
  /\ drv' = [drv EXCEPT ![c] = "broken"]
  /\ UNCHANGED <<chan, idle, lastErr, killed, pc, hold, late, blamed, gauge,
                 panic, dials, queries>>

ProcStep(p) == Hit(p) \/ Miss(p) \/ GetFails(p) \/ Recycle(p)

ExecStep(u) ==
  QueryReturns(u) \/ KillGet(u) \/ KillSent(u) \/ ExecuteReturns(u)

CallerStep(u) ==
  \/ Get(u) \/ ExecuteWithLimits(u) \/ DeadlineFires(u) \/ CloseConn(u)
  \/ Reuse(u) \/ Unused(u) \/ ExecStep(u)

Next ==
  \/ \E p \in Procs : ProcStep(p)
  \/ \E u \in Callers : CallerStep(u)
  \/ Close \/ CloseDrain \/ CloseEnd
  \/ \E c \in Conns : ConnLost(c)

Spec == Init /\ [][Next]_vars

\* A dial and a query are answered or time out, and the Go scheduler runs the
\* deadline goroutine; nothing is assumed of the callers' own choices.
Fairness ==
  /\ WF_vars(CloseDrain) /\ WF_vars(CloseEnd)
  /\ \A p \in Procs : WF_vars(ProcStep(p))
  /\ \A u \in Callers :
       /\ WF_vars(QueryReturns(u)) /\ WF_vars(KillGet(u))
       /\ WF_vars(KillSent(u)) /\ WF_vars(ExecuteReturns(u))
FairSpec == Spec /\ Fairness

-----------------------------------------------------------------------------
(* Properties. *)

\* The variables have their types and the channel its capacity.
PoolTypeOK ==
  /\ chan \in {"open", "closing", "closed"}
  /\ idle \in Seq(Conns) /\ Len(idle) <= MaxConnections
  /\ drv \in [Conns -> {"none", "open", "broken", "closed"}]
  /\ hold \in [Procs -> Conns \cup {NoConn}]
  /\ \A u \in Callers : pc[Main(u)] \in {"idle", "recv", "closed", "held",
                                         "exec", "wait", "waitErr", "ready",
                                         "failed", "put"}
  /\ \A u \in Callers : pc[Killer(u)] \in {"idle", "armed", "fired", "recv",
                                           "closed", "held", "put"}

\* Between Get and Recycle or Close a connection belongs to one goroutine: it
\* is never in the channel twice, nor in it and held, nor held by two.
SingleOwner ==
  /\ \A p, q \in Procs : p # q /\ hold[p] = hold[q] => hold[p] = NoConn
  /\ \A i, j \in DOMAIN idle : i # j => idle[i] # idle[j]
  /\ \A p \in Procs, i \in DOMAIN idle : hold[p] # idle[i]

\* put never sends on the channel that Close has closed, which would panic, nor
\* on a full one, and once Close has returned no connection is left in it,
\* although callers take and return connections all along (Pool.put, Close).
PoolCloses ==
  ~panic /\ Len(idle) <= MaxConnections /\ (chan = "closed" => idle = <<>>)

\* The KILL of a deadline reaches the connection while the caller whose query
\* it is about still has it: ExecuteWithLimits waits for the goroutine, so
\* that no later owner of the connection is killed in its place.
KillHitsOwnQuery ==
  [][\A u \in Callers : pc[Killer(u)] = "held" /\ pc'[Killer(u)] = "put" =>
       pc[Main(u)] \in InQuery /\ hold[Main(u)] \in killed]_vars

\* ExecuteWithLimits returns, although the deadline goroutine it waits for
\* needs a connection of the same pool, which may be empty, closed or unable
\* to dial.
ExecuteEnds ==
  \A u \in Callers : (pc[Main(u)] = "exec") ~> (pc[Main(u)] \in {"ready", "failed"})

\* backend/connection.go:63, of lastErr: "If lastErr is not nil, this
\* connection should be closed."
\* NOT KEPT by the code: see "Known disagreements" in the README.
PooledHasNoError == \A i \in DOMAIN idle : idle[i] \notin lastErr

\* backend/scatter.go:102: "Close used to clean the pools connections."  When
\* the pool is closed and nobody holds a connection, none is open.
\* NOT KEPT by the code: see "Known disagreements" in the README.
CloseCleans ==
  (chan = "closed" /\ \A p \in Procs : pc[p] = "idle") =>
    \A c \in Conns : drv[c] # "open"

\* proxy/execute.go:130: "if timeout > 0, the query will be interrupted if the
\* timeout(in millisecond) is exceeded": only such a query is reported so.
\* NOT KEPT by the code: see "Known disagreements" in the README.
TimeoutReportsOwn == blamed \subseteq late

\* monitor/monitor.go:37: "backend connection Number".
\* NOT KEPT by the code: see "Known disagreements" in the README.
GaugeExact == gauge = Cardinality({c \in Conns : drv[c] \in {"open", "broken"}})

=============================================================================
