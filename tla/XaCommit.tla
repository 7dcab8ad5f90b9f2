------------------------------ MODULE XaCommit ------------------------------
(***************************************************************************)
(* The distributed transaction of the proxy: backend/txn.go drives the XA  *)
(* rounds of backend/xa.go over the backends, under the commit lock of     *)
(* backend/txnmgr.go, and backend/xacheck.go logs a commit or rollback     *)
(* that failed and retries it.  Single-statement transactions follow       *)
(* proxy/execute.go, multi-statement ones proxy/multistmt_txn.go.          *)
(*                                                                         *)
(* A round sends one command to every shard in parallel (an errgroup) and  *)
(* waits for all of them: todo[t] holds the shards whose goroutine has not *)
(* returned, failed the transactions with a shard that returned an error.  *)
(***************************************************************************)
EXTENDS Integers, MysqlXa

CONSTANTS
  Txns,           \* write transactions
  Multi,          \* the ones that run between BEGIN and COMMIT
  Backends,       \* scatter's backends
  Legs,           \* the read rounds of one SELECT: two for a join or union
  XaMaxRetry,     \* xaMaxRetryNum, attempts at XA COMMIT / XA ROLLBACK
  XaCheckRetrys,  \* conf.XaCheckRetrys, passes before an entry is given up
  MaxCmds,        \* bound: client commands inside one multi-statement txn
  MaxFaults,      \* bound: network and server faults
  MaxCrashes,     \* bound: crashes of the proxy
  NoTxn           \* "nobody": not a transaction

ASSUME XaAssumption ==
  /\ Multi \subseteq Txns
  /\ XaMaxRetry \in Nat \ {0}
  /\ XaCheckRetrys \in Nat
  /\ MaxCmds \in Nat /\ MaxFaults \in Nat /\ MaxCrashes \in Nat
  /\ NoTxn \notin Txns

VARIABLES
  pc,        \* where the session's goroutine is
  goal,      \* what the rounds after XA END lead to
  todo,      \* shards of the current round that have not answered
  failed,    \* transactions with a shard of the current round in error
  errors,    \* transactions with txn.errors > 0
  part,      \* backends of the statement (txn.req.Querys)
  conn,      \* txn.twopcConnections
  branch,    \* the XA branch on each backend
  tries,     \* attempts made by a commit/rollback shard
  applied,   \* how many of the current statement's queries each backend ran
  halfStmt,  \* transactions with a statement that ran in part and failed in part
  cmds,      \* client commands so far
  reply,     \* last answer to COMMIT, ROLLBACK or the single statement
  writer,    \* holder of the commit lock
  rpc, rtodo, saw,                        \* the SELECT: one entry per leg
  retrys, file, torn, timesout,           \* xacheck's map and its files
  xpc, xpass, xcur, xneed, xleft, xbad,   \* the xacheck goroutine
  up, faults, crashes

sessVars == <<goal, part, applied, halfStmt, cmds, reply>>
readVars == <<rpc, rtodo, saw>>
logVars  == <<retrys, file, torn, timesout>>
chkVars  == <<xpc, xpass, xcur, xneed, xleft, xbad>>
vars == <<pc, goal, todo, failed, errors, part, conn, branch, tries, applied,
          halfStmt, cmds, reply, writer, rpc, rtodo, saw, retrys, file, torn,
          timesout, xpc, xpass, xcur, xneed, xleft, xbad, up, faults, crashes>>

OneTry   == {"xaStart", "xaEnd", "xaPrepare"}
Retrying == {"xaCommit", "xaRollback"}
Phases   == {"idle", "execute", "lock", "writeLog", "flush", "open", "finish",
             "done"} \cup OneTry \cup Retrying

Cmd(p) == CASE p = "xaStart"    -> "start"
            [] p = "xaEnd"      -> "end"
            [] p = "xaPrepare"  -> "prepare"
            [] p = "xaCommit"   -> "commit"
            [] p = "xaRollback" -> "rollback"

NoLog   == [state |-> "none", times |-> 0]
Entries == [state : {"none", "commit", "rollback"}, times : 0 .. XaCheckRetrys]

\* executeXA: the shards an XA command goes to.  A single statement on one
\* backend needs no XA, and then no command is sent and no lock is taken.
Distributed(S) == \E a, b \in S : a # b
XaShards(t) == IF t \in Multi THEN Backends
               ELSE IF Distributed(part[t]) THEN part[t] ELSE {}

-----------------------------------------------------------------------------
(* Rounds. *)

\* NewTxn, NewXaCheck: nothing open, nothing logged.
Init ==
  /\ pc = [t \in Txns |-> "idle"]
  /\ goal = [t \in Txns |-> "none"]
  /\ todo = [t \in Txns |-> {}]
  /\ failed = {}
  /\ errors = {}
  /\ part = [t \in Txns |-> {}]
  /\ conn = [t \in Txns |-> [b \in Backends |-> "none"]]
  /\ branch = [t \in Txns |-> [b \in Backends |-> "none"]]
  /\ tries = [t \in Txns |-> [b \in Backends |-> 0]]
  /\ applied = [t \in Txns |-> [b \in Backends |-> "no"]]
  /\ halfStmt = {}
  /\ cmds = [t \in Txns |-> 0]
  /\ reply = [t \in Txns |-> "none"]
  /\ writer = NoTxn
  /\ rpc = [l \in Legs |-> "idle"]
  /\ rtodo = [l \in Legs |-> {}]
  /\ saw = [l \in Legs |-> [b \in Backends |-> {}]]
  /\ retrys = [t \in Txns |-> NoLog]
  /\ file = [t \in Txns |-> NoLog]
  /\ torn = FALSE
  /\ timesout = {}
  /\ xpc = "sleep" /\ xpass = {} /\ xcur = NoTxn
  /\ xneed = {} /\ xleft = {} /\ xbad = FALSE
  /\ up = TRUE /\ faults = 0 /\ crashes = 0

\* eg.Go for every shard.
Round(t, phase, shards) ==
  /\ pc' = [pc EXCEPT ![t] = phase]
  /\ todo' = [todo EXCEPT ![t] = shards]
  /\ failed' = failed \ {t}

Goto(t, phase) == pc' = [pc EXCEPT ![t] = phase] /\ UNCHANGED <<todo, failed>>

\* Mutant: a later answer overwrites the error of an earlier one.
ReturnsLast(t, b, err) ==
  /\ todo' = [todo EXCEPT ![t] = @ \ {b}]
  /\ failed' = IF err THEN failed \cup {t} ELSE failed \ {t}

\* A shard's goroutine returns, with an error or without.
Returns(t, b, err) ==
  /\ todo' = [todo EXCEPT ![t] = @ \ {b}]
  /\ failed' = IF err THEN failed \cup {t} ELSE failed

SetShard(t, b, c, s) ==
  /\ conn' = [conn EXCEPT ![t][b] = c]
  /\ branch' = [branch EXCEPT ![t][b] = s]

\* Mutant: the error is not counted.
incErrorsNot(t) == UNCHANGED errors

\* txn.incErrors, when the round failed on some shard.
incErrors(t) == errors' = errors \cup ({t} \cap failed)

Fault == faults < MaxFaults /\ faults' = faults + 1

\* twopcConnection: the stored connection, or a new one from the pool.
Fetched(c) == IF c = "none" THEN "fresh" ELSE c

\* The branch when a connection in state c is closed or lost.
Dropped(c, s) == IF c = "own" THEN Disconnected(s) ELSE s

-----------------------------------------------------------------------------
(* The single-attempt rounds: XA START, XA END, XA PREPARE. *)

\* ExecuteSingleStmtTxnTwoPC up to xaStart: the planner names the backends.
BeginSingle(t) ==
  /\ up /\ pc[t] = "idle" /\ t \notin Multi
  /\ \E S \in (SUBSET Backends) \ {{}} :
       /\ part' = [part EXCEPT ![t] = S]
       /\ Round(t, "xaStart", IF Distributed(S) THEN S ELSE {})
  /\ UNCHANGED <<goal, errors, conn, branch, tries, applied, halfStmt, cmds,
                 reply, writer, readVars, logVars, chkVars, up, faults, crashes>>

\* ExecuteBegin: BeginScatter starts a branch on every backend.
BeginMulti(t) ==
  /\ up /\ pc[t] = "idle" /\ t \in Multi
  /\ Round(t, "xaStart", Backends)
  /\ UNCHANGED <<sessVars, errors, conn, branch, tries, writer, readVars,
                 logVars, chkVars, up, faults, crashes>>

\* oneShard for START, END and PREPARE: one attempt on the stored connection.
XaAccepted(t, b, cmd, c, s) ==
  /\ Accepts(cmd, c, s)
  /\ SetShard(t, b, IF cmd = "start" THEN "own" ELSE c, After(cmd))
  /\ Returns(t, b, FALSE)
  /\ UNCHANGED faults

XaRejected(t, b, cmd, c, s) ==
  /\ ~Accepts(cmd, c, s)
  /\ SetShard(t, b, c, s)
  /\ Returns(t, b, TRUE)
  /\ UNCHANGED faults

\* The backend refuses the statement, or (as good as that) the pool has no
\* connection to it.
XaRefused(t, b, c, s) ==
  /\ Fault /\ Returns(t, b, TRUE)
  /\ SetShard(t, b, c, s)

\* Mutant: the error of a broken connection is swallowed.
XaBrokenUnseen(t, b, cmd, c, s) ==
  /\ Fault /\ Returns(t, b, FALSE)
  /\ SetShard(t, b, "dead", Dropped(c, s))

\* The connection breaks before or after the backend ran the command.
XaBroken(t, b, cmd, c, s) ==
  /\ Fault /\ Returns(t, b, TRUE)
  /\ \/ SetShard(t, b, "dead", Dropped(c, s))
     \/ Accepts(cmd, c, s) /\ SetShard(t, b, "dead", Disconnected(After(cmd)))

XaShard(t, b) ==
  LET cmd == Cmd(pc[t])
      c == Fetched(conn[t][b])
      s == branch[t][b]
  IN
  /\ pc[t] \in OneTry /\ b \in todo[t]
  /\ \/ XaAccepted(t, b, cmd, c, s)
     \/ XaRejected(t, b, cmd, c, s)
     \/ XaRefused(t, b, c, s)
     \/ XaBroken(t, b, cmd, c, s)
  /\ UNCHANGED <<pc, sessVars, errors, tries, writer, readVars, logVars,
                 chkVars, up, crashes>>

\* Execute after xaStart.  A single-statement transaction whose XA START
\* failed goes to RollbackPhaseOne; ExecuteBegin finishes the transaction.
StartDone(t) ==
  /\ pc[t] = "xaStart" /\ todo[t] = {}
  /\ incErrors(t)
  /\ \/ /\ t \notin Multi /\ t \notin failed
        /\ Round(t, "execute", part[t])
        /\ UNCHANGED <<goal, reply>>
     \/ /\ t \notin Multi /\ t \in failed
        /\ goal' = [goal EXCEPT ![t] = "phaseOne"]
        /\ Round(t, "xaEnd", XaShards(t))
        /\ UNCHANGED reply
     \/ /\ t \in Multi
        /\ Goto(t, IF t \in failed THEN "finish" ELSE "open")
        /\ reply' = [reply EXCEPT ![t] = IF t \in failed THEN "err" ELSE @]
        /\ UNCHANGED goal
  /\ UNCHANGED <<part, applied, halfStmt, cmds, conn, branch, tries, writer,
                 readVars, logVars, chkVars, up, faults, crashes>>

-----------------------------------------------------------------------------
(* The statement itself. *)

\* ExecuteMultiStmtsInTxn: a write to some of the backends.
Statement(t) ==
  /\ up /\ pc[t] = "open" /\ cmds[t] < MaxCmds
  /\ cmds' = [cmds EXCEPT ![t] = @ + 1]
  /\ \E S \in (SUBSET Backends) \ {{}} :
       /\ part' = [part EXCEPT ![t] = S]
       /\ Round(t, "execute", S)
  /\ applied' = [applied EXCEPT ![t] = [b \in Backends |-> "no"]]
  /\ UNCHANGED <<goal, halfStmt, reply, errors, conn, branch, tries, writer,
                 readVars, logVars, chkVars, up, faults, crashes>>

\* Does a connection in state c run a write?  On the branch's own connection
\* the branch must be active; on any other open one the write autocommits.
Runs(c, s) == c = "fresh" \/ (c = "own" /\ s = "active")

\* execute's oneShard: the queries of one backend, one after the other on one
\* connection, up to the first that fails.
ExecOk(t, b, c, s) ==
  /\ Runs(c, s)
  /\ SetShard(t, b, c, s)
  /\ applied' = [applied EXCEPT ![t][b] = "all"]
  /\ Returns(t, b, FALSE)
  /\ UNCHANGED faults

ExecRejected(t, b, c, s) ==
  /\ ~Runs(c, s)
  /\ SetShard(t, b, c, s)
  /\ Returns(t, b, TRUE)
  /\ UNCHANGED <<applied, faults>>

\* A query is refused, and the ones before it stay; or the connection breaks.
ExecFailed(t, b, c, s) ==
  /\ Fault /\ Returns(t, b, TRUE)
  /\ \/ SetShard(t, b, c, s) /\ applied' = applied
     \/ SetShard(t, b, "dead", Dropped(c, s)) /\ applied' = applied
     \/ /\ Runs(c, s)
        /\ SetShard(t, b, c, s)
        /\ applied' = [applied EXCEPT ![t][b] = "some"]
     \/ /\ Runs(c, s)
        /\ SetShard(t, b, "dead", Dropped(c, s))
        /\ \E a \in {"some", "all"} : applied' = [applied EXCEPT ![t][b] = a]

ExecShard(t, b) ==
  LET c == Fetched(conn[t][b])
      s == branch[t][b]
  IN
  /\ pc[t] = "execute" /\ b \in todo[t]
  /\ ExecOk(t, b, c, s) \/ ExecRejected(t, b, c, s) \/ ExecFailed(t, b, c, s)
  /\ UNCHANGED <<pc, goal, part, halfStmt, cmds, reply, errors, tries, writer,
                 readVars, logVars, chkVars, up, crashes>>

HalfApplied(t) ==
  /\ \E b \in part[t] : applied[t][b] # "no"
  /\ \E b \in part[t] : applied[t][b] # "all"

\* Mutant: the statement's error is ignored.
AfterStatementCommit(t) == "commit"

\* What ExecuteSingleStmtTxnTwoPC does after its statement.
AfterStatement(t) == IF t \in failed THEN "phaseOne" ELSE "commit"

\* After executors.Execute: a single statement goes on to Commit or to
\* RollbackPhaseOne; in a multi-statement transaction the client is answered.
ExecDone(t) ==
  /\ pc[t] = "execute" /\ todo[t] = {}
  /\ incErrors(t)
  /\ halfStmt' = IF HalfApplied(t) THEN halfStmt \cup ({t} \cap failed)
                 ELSE halfStmt
  /\ \/ /\ t \in Multi
        /\ Goto(t, "open")
        /\ UNCHANGED goal
     \/ /\ t \notin Multi
        /\ goal' = [goal EXCEPT ![t] = AfterStatement(t)]
        /\ Round(t, "xaEnd", XaShards(t))
  /\ UNCHANGED <<part, applied, cmds, reply, conn, branch, tries, writer,
                 readVars, logVars, chkVars, up, faults, crashes>>

-----------------------------------------------------------------------------
(* Commit, Rollback and RollbackPhaseOne. *)

\* ExecuteCommit and ExecuteRollback: CommitScatter, RollbackScatter.
Command(t, g) ==
  /\ up /\ pc[t] = "open" /\ cmds[t] < MaxCmds
  /\ cmds' = [cmds EXCEPT ![t] = @ + 1]
  /\ goal' = [goal EXCEPT ![t] = g]
  /\ reply' = [reply EXCEPT ![t] = "none"]
  /\ Round(t, "xaEnd", Backends)
  /\ UNCHANGED <<part, applied, halfStmt, errors, conn, branch, tries,
                 writer, readVars, logVars, chkVars, up, faults, crashes>>

\* Commit, Rollback, RollbackPhaseOne after XA END and after XA PREPARE: an
\* error returns at once.  Nothing is rolled back and nothing is logged; a
\* multi-statement transaction stays bound to its session.
EndDone(t) ==
  /\ pc[t] \in {"xaEnd", "xaPrepare"} /\ todo[t] = {}
  /\ incErrors(t)
  /\ \/ /\ t \in failed
        /\ Goto(t, IF t \in Multi THEN "open" ELSE "finish")
        /\ reply' = [reply EXCEPT ![t] = "err"]
     \/ /\ t \notin failed /\ pc[t] = "xaEnd" /\ goal[t] # "phaseOne"
        /\ Round(t, "xaPrepare", XaShards(t))
        /\ UNCHANGED reply
     \/ /\ t \notin failed /\ (pc[t] = "xaPrepare" \/ goal[t] = "phaseOne")
        /\ Goto(t, "lock")
        /\ UNCHANGED reply
  /\ UNCHANGED <<goal, part, applied, halfStmt, cmds, conn, branch, tries,
                 writer, readVars, logVars, chkVars, up, faults, crashes>>

\* Mutant: the commit lock does not exclude readers.
ReadingIgnored == FALSE

Reading == \E l \in Legs : rpc[l] = "reading"

\* CommitLock, then XA COMMIT or XA ROLLBACK to every shard.
CommitLock(t) ==
  /\ pc[t] = "lock"
  /\ \/ XaShards(t) = {} /\ UNCHANGED writer
     \/ XaShards(t) # {} /\ writer = NoTxn /\ ~Reading /\ writer' = t
  /\ Round(t, IF goal[t] = "commit" THEN "xaCommit" ELSE "xaRollback", XaShards(t))
  /\ tries' = [tries EXCEPT ![t] = [b \in Backends |-> 0]]
  /\ UNCHANGED <<sessVars, errors, conn, branch, readVars, logVars, chkVars, up,
                 faults, crashes>>

\* One more attempt of a commit/rollback shard has failed for good or not.
TryAgain(t, b) ==
  /\ tries' = [tries EXCEPT ![t][b] = @ + 1]
  /\ IF tries[t][b] + 1 < XaMaxRetry THEN UNCHANGED <<todo, failed>>
                                     ELSE Returns(t, b, TRUE)

\* oneShard for COMMIT and ROLLBACK: the first attempt uses the stored
\* connection, later ones close it and take a new one (reFetchTwopcConnection).
\* Unknown XID (1397) ends the loop with an error, any other error retries.
RetryAccepted(t, b, cmd, c, s) ==
  /\ Accepts(cmd, c, s)
  /\ SetShard(t, b, c, After(cmd))
  /\ Returns(t, b, FALSE)
  /\ UNCHANGED <<tries, faults>>

RetryUnknownXid(t, b, cmd, c, s) ==
  /\ c # "dead" /\ ~Accepts(cmd, c, s)
  /\ SetShard(t, b, c, s)
  /\ Returns(t, b, TRUE)
  /\ UNCHANGED <<tries, faults>>

RetryDead(t, b, c, s) ==
  /\ c = "dead"
  /\ SetShard(t, b, c, s)
  /\ TryAgain(t, b)
  /\ UNCHANGED faults

\* On a new connection: the backend has not yet let go of the branch's old
\* session and answers 1397; or the pool has no connection.
RetryNotYet(t, b, c, s) ==
  /\ Fault /\ c = "fresh"
  /\ \/ SetShard(t, b, c, s) /\ Returns(t, b, TRUE) /\ UNCHANGED tries
     \/ SetShard(t, b, "none", s) /\ TryAgain(t, b)

\* The connection breaks before or after the backend ran the command.
RetryBroken(t, b, cmd, c, s) ==
  /\ Fault /\ c # "dead"
  /\ \/ SetShard(t, b, "dead", Dropped(c, s))
     \/ Accepts(cmd, c, s) /\ SetShard(t, b, "dead", After(cmd))
  /\ TryAgain(t, b)

RetryShard(t, b) ==
  LET first == tries[t][b] = 0
      cmd == Cmd(pc[t])
      c == IF first THEN Fetched(conn[t][b]) ELSE "fresh"
      s == IF first THEN branch[t][b] ELSE Dropped(conn[t][b], branch[t][b])
  IN
  /\ pc[t] \in Retrying /\ b \in todo[t]
  /\ \/ RetryAccepted(t, b, cmd, c, s)
     \/ RetryUnknownXid(t, b, cmd, c, s)
     \/ RetryDead(t, b, c, s)
     \/ RetryNotYet(t, b, c, s)
     \/ RetryBroken(t, b, cmd, c, s)
  /\ UNCHANGED <<pc, sessVars, errors, writer, readVars, logVars, chkVars, up,
                 crashes>>

\* Mutant: an early return forgets CommitUnlock.
ReleaseForgotten(t) == UNCHANGED writer

\* Mutant: a failed commit round is not logged.
AfterCommitUnlogged(t) == "finish"

Release(t) == writer' = IF writer = t THEN NoTxn ELSE writer

AfterCommit(t) == IF t \in failed THEN "writeLog" ELSE "finish"

\* executeXA returns and gives the commit lock back; xaCommit and xaRollback
\* log the failure only after that.  Neither reports it: the client of a
\* COMMIT is told "ok" once the commit round has run.
CommitDone(t) ==
  /\ pc[t] \in Retrying /\ todo[t] = {}
  /\ Release(t)
  /\ incErrors(t)
  /\ Goto(t, AfterCommit(t))
  /\ UNCHANGED <<sessVars, conn, branch, tries, readVars, logVars, chkVars, up,
                 faults, crashes>>

\* Mutant: a failed rollback is logged as a commit.
LogStateCommit(t) == "commit"

LogState(t) == IF goal[t] = "commit" THEN "commit" ELSE "rollback"

addXaCommitErrLog(t) ==
  retrys' = [retrys EXCEPT ![t] = [state |-> LogState(t), times |-> XaCheckRetrys]]

\* WriteXaCommitErrLog: add the entry, then rewrite xacheck.json.  WriteFile
\* truncates before it writes; xc.mu is held all along.
WriteXaCommitErrLog(t) ==
  /\ pc[t] = "writeLog" /\ xpc = "sleep" /\ \A u \in Txns : pc[u] # "flush"
  /\ addXaCommitErrLog(t)
  /\ torn' = TRUE
  /\ Goto(t, "flush")
  /\ UNCHANGED <<sessVars, errors, conn, branch, tries, writer, readVars, file,
                 timesout, chkVars, up, faults, crashes>>

flushXaCommitErrLog(t) ==
  /\ pc[t] = "flush"
  /\ file' = retrys /\ torn' = FALSE
  /\ Goto(t, "finish")
  /\ UNCHANGED <<sessVars, errors, conn, branch, tries, writer, readVars,
                 retrys, timesout, chkVars, up, faults, crashes>>

\* The branches once all the connections of twopcConnections are closed.
Closed(t) == [b \in Backends |-> Dropped(conn[t][b], branch[t][b])]

\* Finish: close the connections after an error, else give them back.
Finish(t) ==
  /\ pc[t] = "finish"
  /\ reply' = [reply EXCEPT ![t] =
       IF @ # "none" \/ goal[t] = "none" THEN @
       ELSE IF goal[t] = "phaseOne" THEN "err" ELSE "ok"]
  /\ branch' = [branch EXCEPT ![t] = IF t \in errors THEN Closed(t) ELSE @]
  /\ conn' = [conn EXCEPT ![t] = [b \in Backends |-> "none"]]
  /\ Goto(t, "done")
  /\ UNCHANGED <<goal, part, applied, halfStmt, cmds, errors, tries, writer,
                 readVars, logVars, chkVars, up, faults, crashes>>

\* SessionClosed of a multi-statement transaction: Abort kills its connections.
Abort(t) ==
  /\ up /\ pc[t] = "open"
  /\ branch' = [branch EXCEPT ![t] = Closed(t)]
  /\ conn' = [conn EXCEPT ![t] = [b \in Backends |-> "none"]]
  /\ Goto(t, "done")
  /\ UNCHANGED <<sessVars, errors, tries, writer, readVars, logVars, chkVars,
                 up, faults, crashes>>

\* A backend restarts or the network drops a connection of the transaction.
ConnLost(t, b) ==
  /\ up /\ Fault /\ conn[t][b] \in {"own", "fresh"}
  /\ SetShard(t, b, "dead", Closed(t)[b])
  /\ UNCHANGED <<pc, todo, failed, sessVars, errors, tries, writer, readVars,
                 logVars, chkVars, up, crashes>>

-----------------------------------------------------------------------------
(* The xacheck goroutine.  A pass holds xc.mu and takes no commit lock. *)

txnVars == <<pc, todo, failed, errors, conn, tries, writer>>

Logged == {t \in Txns : retrys[t].state # "none"}

\* The ticker fires; xaCommitsRetry takes xc.mu.
XaCommitsRetry ==
  /\ up /\ xpc = "sleep" /\ Logged # {} /\ \A u \in Txns : pc[u] # "flush"
  /\ xpc' = "pick" /\ xpass' = Logged
  /\ UNCHANGED <<txnVars, sessVars, branch, readVars, logVars, xcur, xneed,
                 xleft, xbad, up, faults, crashes>>

\* commitRetryBackends, 1st stage: XA RECOVER on all backends.  If one cannot
\* be reached the whole pass ends.
XaRecover ==
  /\ xpc = "pick"
  /\ \/ xpass = {} /\ xpc' = "sleep"
        /\ UNCHANGED <<xpass, xcur, xneed, xleft, xbad, faults>>
     \/ xpass # {} /\ Fault /\ xpc' = "sleep" /\ xpass' = {}
        /\ UNCHANGED <<xcur, xneed, xleft, xbad>>
     \/ \E t \in xpass :
          /\ xpass' = xpass \ {t} /\ xcur' = t
          /\ xneed' = {b \in Backends : branch[t][b] = "prepared"}
          /\ xleft' = xneed'
          /\ xbad' = FALSE /\ xpc' = "retry"
          /\ UNCHANGED faults
  /\ UNCHANGED <<txnVars, sessVars, branch, readVars, logVars, up, crashes>>

\* 2nd stage: the logged command on each backend that still has the branch
\* (in the code's order: any order).  An error is only counted.
XaRetryShard(b) ==
  /\ xpc = "retry" /\ b \in xleft
  /\ xleft' = xleft \ {b}
  /\ LET s == branch[xcur][b]
         r == IF s = "prepared" THEN After(retrys[xcur].state) ELSE s
     IN
     \/ /\ branch' = [branch EXCEPT ![xcur][b] = r]
        /\ xbad' = (xbad \/ s # "prepared")
        /\ UNCHANGED faults
     \/ /\ Fault /\ xbad' = TRUE
        /\ \E q \in {s, r} : branch' = [branch EXCEPT ![xcur][b] = q]
  /\ UNCHANGED <<txnVars, sessVars, readVars, logVars, xpc, xpass, xcur, xneed,
                 up, crashes>>

\* Mutant: a retry costs nothing.
SpendNothing(e) == e

\* commitRetryBackends: every branch that was found has been dealt with.
Resolved == xneed # {} /\ ~xbad
GivenUp(e) == e.times = 0
Spend(e) == [e EXCEPT !.times = @ - 1]

\* The end of commitRetryBackends and, when it returned true, the deletion.
XaResolve ==
  /\ xpc = "retry" /\ xleft = {}
  /\ LET done == Resolved
         out  == ~done /\ GivenUp(retrys[xcur])
     IN
     /\ timesout' = IF out THEN timesout \cup {xcur} ELSE timesout
     /\ retrys' = IF done \/ out THEN [retrys EXCEPT ![xcur] = NoLog]
                  ELSE [retrys EXCEPT ![xcur] = Spend(@)]
     /\ torn' = (torn \/ done \/ out)
     /\ xpc' = IF done \/ out THEN "flush" ELSE "pick"
  /\ UNCHANGED <<txnVars, sessVars, branch, readVars, file, xpass, xcur, xneed,
                 xleft, xbad, up, faults, crashes>>

XaFlush ==
  /\ xpc = "flush"
  /\ file' = retrys /\ torn' = FALSE /\ xpc' = "pick"
  /\ UNCHANGED <<txnVars, sessVars, branch, readVars, retrys, timesout, xpass,
                 xcur, xneed, xleft, xbad, up, faults, crashes>>

-----------------------------------------------------------------------------
(* The proxy process crashes; every connection it held is closed. *)

Crash ==
  /\ up /\ crashes < MaxCrashes
  /\ crashes' = crashes + 1 /\ up' = FALSE
  /\ pc' = [t \in Txns |-> IF pc[t] = "idle" THEN "idle" ELSE "done"]
  /\ todo' = [t \in Txns |-> {}]
  /\ branch' = [t \in Txns |-> Closed(t)]
  /\ conn' = [t \in Txns |-> [b \in Backends |-> "none"]]
  /\ writer' = NoTxn
  /\ rpc' = [l \in Legs |-> "idle"] /\ rtodo' = [l \in Legs |-> {}]
  /\ saw' = [l \in Legs |-> [b \in Backends |-> {}]]
  /\ retrys' = [t \in Txns |-> NoLog]
  /\ xpc' = "sleep" /\ xpass' = {} /\ xleft' = {}
  /\ UNCHANGED <<sessVars, failed, errors, tries, file, torn, timesout, xcur,
                 xneed, xbad, faults>>

\* Mutant: the file is not loaded.
LoadNothing == UNCHANGED retrys

LoadXaCommitErrLogs == retrys' = file

\* Scatter.Init loads the log.  A file that cannot be parsed makes it fail and
\* the proxy's Start panic: then there is no restart.
Restart ==
  /\ ~up /\ ~torn
  /\ up' = TRUE /\ LoadXaCommitErrLogs
  /\ UNCHANGED <<txnVars, sessVars, branch, readVars, file, torn, timesout,
                 chkVars, faults, crashes>>

-----------------------------------------------------------------------------
(* A SELECT over all backends: each leg is one Execute with the commit read  *)
(* lock held.  A join or union has two legs, each with a lock of its own.    *)

CommitRLock(l) ==
  /\ up /\ rpc[l] = "idle" /\ writer = NoTxn
  /\ rpc' = [rpc EXCEPT ![l] = "reading"]
  /\ rtodo' = [rtodo EXCEPT ![l] = Backends]
  /\ UNCHANGED <<txnVars, sessVars, branch, saw, logVars, chkVars, up, faults,
                 crashes>>

ReadShard(l, b) ==
  /\ b \in rtodo[l]
  /\ saw' = [saw EXCEPT ![l][b] = {t \in Txns : branch[t][b] = "committed"}]
  /\ rtodo' = [rtodo EXCEPT ![l] = @ \ {b}]
  /\ UNCHANGED <<txnVars, sessVars, branch, rpc, logVars, chkVars, up, faults,
                 crashes>>

CommitRUnlock(l) ==
  /\ rpc[l] = "reading" /\ rtodo[l] = {}
  /\ rpc' = [rpc EXCEPT ![l] = "done"]
  /\ UNCHANGED <<txnVars, sessVars, branch, rtodo, saw, logVars, chkVars, up,
                 faults, crashes>>

-----------------------------------------------------------------------------

TxnStep(t) ==
  \/ BeginSingle(t) \/ BeginMulti(t) \/ StartDone(t)
  \/ Statement(t) \/ ExecDone(t)
  \/ \E g \in {"commit", "rollback"} : Command(t, g)
  \/ EndDone(t) \/ CommitLock(t) \/ CommitDone(t)
  \/ WriteXaCommitErrLog(t) \/ flushXaCommitErrLog(t)
  \/ Finish(t) \/ Abort(t)

ShardStep(t, b) == XaShard(t, b) \/ ExecShard(t, b) \/ RetryShard(t, b)

CheckStep == XaCommitsRetry \/ XaRecover \/ XaResolve \/ XaFlush
             \/ \E b \in Backends : XaRetryShard(b)

ReadStep(l) == CommitRLock(l) \/ CommitRUnlock(l)
               \/ \E b \in Backends : ReadShard(l, b)

Next ==
  \/ \E t \in Txns : TxnStep(t)
  \/ \E t \in Txns, b \in Backends : ShardStep(t, b) \/ ConnLost(t, b)
  \/ CheckStep
  \/ \E l \in Legs : ReadStep(l)
  \/ Crash \/ Restart

Spec == Init /\ [][Next]_vars

\* Fairness: the Go scheduler runs every goroutine, each statement sent to a
\* backend is answered or times out, and the ticker fires.  Nothing is assumed
\* of the clients, the faults, the crashes or the restarts.
Fairness ==
  /\ \A t \in Txns :
       /\ WF_vars(StartDone(t) \/ ExecDone(t) \/ EndDone(t) \/ CommitLock(t)
                  \/ CommitDone(t) \/ WriteXaCommitErrLog(t)
                  \/ flushXaCommitErrLog(t) \/ Finish(t))
       /\ \A b \in Backends : WF_vars(ShardStep(t, b))
  /\ WF_vars(CheckStep)
  /\ \A l \in Legs : WF_vars(ReadStep(l))

FairSpec == Spec /\ Fairness

-----------------------------------------------------------------------------
(* Properties. *)

\* Every variable has its type (in five parts, one per group of variables), and
\* a pass of xacheck visits logged transactions only.
TxnTypeOK ==
  /\ pc \in [Txns -> Phases]
  /\ todo \in [Txns -> SUBSET Backends]
  /\ failed \in SUBSET Txns
  /\ errors \in SUBSET Txns
  /\ writer \in Txns \cup {NoTxn}

ShardTypeOK ==
  /\ conn \in [Txns -> [Backends -> ConnStates]]
  /\ branch \in [Txns -> [Backends -> BranchStates]]
  /\ tries \in [Txns -> [Backends -> Nat]]

SessTypeOK ==
  /\ goal \in [Txns -> {"none", "commit", "phaseOne", "rollback"}]
  /\ part \in [Txns -> SUBSET Backends]
  /\ applied \in [Txns -> [Backends -> {"no", "some", "all"}]]
  /\ halfStmt \in SUBSET Txns
  /\ cmds \in [Txns -> 0 .. MaxCmds]
  /\ reply \in [Txns -> {"none", "ok", "err"}]

ReadTypeOK ==
  /\ rpc \in [Legs -> {"idle", "reading", "done"}]
  /\ rtodo \in [Legs -> SUBSET Backends]
  /\ saw \in [Legs -> [Backends -> SUBSET Txns]]

LogTypeOK ==
  /\ retrys \in [Txns -> Entries]
  /\ file \in [Txns -> Entries]
  /\ torn \in BOOLEAN
  /\ timesout \in SUBSET Txns
  /\ xpc \in {"sleep", "pick", "retry", "flush"}
  /\ xpass \in SUBSET Txns
  /\ xcur \in Txns \cup {NoTxn}
  /\ xpc = "retry" => /\ xcur \in Txns \ xpass
                      /\ retrys[xcur].state # "none"
  /\ xpc = "sleep" => xpass = {}
  /\ ~up => xpc = "sleep"
  /\ \A t \in xpass : retrys[t].state # "none"
  /\ xneed \in SUBSET Backends /\ xleft \in SUBSET Backends
  /\ xbad \in BOOLEAN
  /\ up \in BOOLEAN
  /\ faults \in 0 .. MaxFaults
  /\ crashes \in 0 .. MaxCrashes

TypeOK == TxnTypeOK /\ ShardTypeOK /\ SessTypeOK /\ ReadTypeOK /\ LogTypeOK

Decided(t) == \A b \in XaShards(t) : branch[t][b] \in {"prepared", "committed"}
SomeCommitted(t) == \E b \in Backends : branch[t][b] = "committed"
SomePrepared(t)  == \E b \in Backends : branch[t][b] = "prepared"

\* What the phase of a transaction and xacheck's log say of its branches: the
\* inductive invariant behind XaAtomicity.  From a complete PREPARE round to
\* the end of a commit, and as long as "commit" is logged, every shard has
\* prepared; before that, and under any other decision, none has committed.
Early == {"idle", "xaStart", "execute", "open", "xaEnd", "xaPrepare"}
Late  == {"lock", "xaCommit", "xaRollback", "writeLog", "flush"}

LogAgrees(t, e) ==
  /\ e.state # "none" => pc[t] \in {"flush", "finish", "done"}
  /\ e.state = "commit" => goal[t] = "commit" /\ Decided(t)
  /\ e.state = "rollback" => goal[t] # "commit" /\ ~SomeCommitted(t)

Decision(t) ==
  /\ pc[t] = "open" => t \in Multi
  /\ pc[t] = "idle" => \A b \in Backends : branch[t][b] = "none"
  /\ \A b \in Backends : branch[t][b] # "none" => b \in XaShards(t)
  /\ pc[t] \in OneTry \cup Retrying => todo[t] \subseteq XaShards(t)
  /\ pc[t] = "xaPrepare" /\ t \notin failed =>
       \A b \in XaShards(t) \ todo[t] : branch[t][b] = "prepared"
  /\ pc[t] \in Early => ~SomeCommitted(t)
  /\ pc[t] \in Late /\ goal[t] # "commit" => ~SomeCommitted(t)
  /\ pc[t] \in Late /\ goal[t] = "commit" => Decided(t)
  /\ pc[t] = "xaCommit" => goal[t] = "commit"
  /\ pc[t] = "xaRollback" => goal[t] # "commit"
  /\ pc[t] = "finish" /\ goal[t] = "commit" => reply[t] = "err" \/ Decided(t)
  /\ reply[t] = "ok" => pc[t] = "done"
  /\ reply[t] = "ok" /\ goal[t] = "commit" => Decided(t)
  /\ SomeCommitted(t) => Decided(t)
  /\ LogAgrees(t, retrys[t]) /\ LogAgrees(t, file[t])

DecisionInv == \A t \in Txns : Decision(t)

\* The inductive invariant: every variable has its type, and a transaction is
\* decided before any of its backends commits (executeXA, XaCheck).
XaInv == TypeOK /\ DecisionInv

\* No transaction is committed on one backend and rolled back on another,
\* whatever the rounds of executeXA, the xacheck retries, the lost
\* connections and the crashes of the proxy do.
XaAtomicity ==
  \A t \in Txns : \A a, b \in Backends :
    branch[t][a] = "committed" => branch[t][b] # "aborted"

\* A branch becomes committed, by xaCommit or by an xacheck retry, only when
\* every shard of its transaction has prepared.
CommitNeedsAllPrepared ==
  [][\A t \in Txns : \A b \in Backends :
       branch'[t][b] = "committed" => branch[t][b] = "committed" \/ Decided(t)]_vars

\* A single statement that xaCommit committed somewhere never was one that
\* ran in part and failed in part (ExecuteSingleStmtTxnTwoPC rolls it back).
FailedWriteNeverCommits ==
  \A t \in Txns \ Multi : t \in halfStmt => ~SomeCommitted(t)

\* A transaction committed on one backend and still prepared on another is
\* not forgotten: its commit round or its logging is under way, or xacheck
\* has it, or xacheck gave it up and wrote it to the timesout file.
HalfCommitTracked ==
  \A t \in Txns : SomeCommitted(t) /\ SomePrepared(t) =>
    \/ pc[t] \in {"xaCommit", "writeLog", "flush"}
    \/ retrys[t].state = "commit"
    \/ t \in timesout

\* A COMMIT the client was told had succeeded is never lost: every shard has
\* committed, or is prepared and its commit is in xacheck's log (in memory
\* while the proxy runs, in an intact file while it is down) or given up.
AckedCommitKept ==
  \A t \in Txns : reply[t] = "ok" /\ goal[t] = "commit" =>
    \A b \in XaShards(t) :
      \/ branch[t][b] = "committed"
      \/ /\ branch[t][b] = "prepared"
         /\ \/ up /\ retrys[t].state = "commit"
            \/ ~up /\ ~torn /\ file[t].state = "commit"
            \/ t \in timesout

\* Finish puts a connection back into the pool only when the branch that was
\* started on it is over (txn.errors counts every failed round).
RecycledClean ==
  [][\A t \in Txns : pc[t] = "finish" /\ pc'[t] = "done" /\ t \notin errors =>
       \A b \in Backends :
         conn[t][b] = "own" => branch[t][b] \in {"committed", "aborted"}]_vars

\* One round of reads under CommitRLock sees a distributed write on all of its
\* shards or on none, unless that write's commit round failed on some shard.
LegSnapshot ==
  \A l \in Legs, t \in Txns : \A a, b \in XaShards(t) :
    /\ rpc[l] # "idle"
    /\ a \notin rtodo[l] /\ b \notin rtodo[l]
    /\ t \in saw[l][a] /\ t \notin saw[l][b]
    => t \in failed

\* Every transaction that started a round comes to an end or back to its
\* client: no goroutine waits for the commit lock or for xc.mu for ever.
TxnReturns ==
  \A t \in Txns : (pc[t] # "idle") ~> (pc[t] \in {"open", "done"})

\* A commit that xacheck logged is carried out on every shard, or is given up
\* after XaCheckRetrys passes and written to the timesout file.
LoggedCommitResolved ==
  \A t \in Txns : (retrys[t].state = "commit") ~>
    (retrys[t].state = "none" /\ (t \in timesout \/ ~SomePrepared(t)))

\* Every transaction returns, and what it leaves to xacheck is carried out or
\* given up (executeXA, XaCheck).
CommitsEnd == TxnReturns /\ LoggedCommitResolved

\* AtomicCommit's view of the transactions: a branch that has not prepared is
\* still working, and only a commit is acknowledged.
AcShards == [t \in Txns |-> XaShards(t)]
AcRm == [t \in Txns |-> [b \in Backends |->
           IF branch[t][b] \in {"none", "active", "idle"} THEN "working"
           ELSE branch[t][b]]]
AcTold == {t \in Txns : reply[t] = "ok" /\ goal[t] = "commit"}

Promise == INSTANCE AtomicCommit
             WITH shards <- AcShards, rm <- AcRm, told <- AcTold

\* XaCommit implements AtomicCommit.
KeepsPromise == Promise!ACSpec

\* README.md:90: "As long as a distributed transaction has not commit, or if
\* some of the partitions have committed, the operation is invisible to other
\* transactions."  One SELECT sees a write on all its shards or on none.
\* NOT KEPT by the code: see "Known disagreements" in the README.
SelectSnapshot ==
  (\A l \in Legs : rpc[l] = "done") =>
    \A t \in Txns : \A a, b \in XaShards(t) : \A l, m \in Legs :
      t \in saw[l][a] => t \in saw[m][b]

\* README.md:86: "... one of the nodes failed to execute, then operation of
\* the rest nodes will be rolled back": a statement that failed on one backend
\* is not durable on another.
FailedStatementNotDurable ==
  \A t \in Txns : pc[t] = "done" /\ t \in halfStmt =>
    XaShards(t) # {} /\ ~SomeCommitted(t)

\* README.md:86 again: when a transaction is over, no branch of it is left
\* prepared unless xacheck knows of it.
\* NOT KEPT by the code: see "Known disagreements" in the README.
NoOrphanBranch ==
  \A t \in Txns : pc[t] = "done" /\ SomePrepared(t) =>
    retrys[t].state # "none" \/ t \in timesout

=============================================================================
