---------------------------- MODULE XaKeptProofs ----------------------------
(***************************************************************************)
(* What the rounds of a transaction leave behind: a failed single statement *)
(* is not committed, and a connection goes back without a branch on it.  A *)
(* decided commit is remembered until it is carried out or given up: by    *)
(* its own rounds, by the map and the file of xacheck, by the timesout file. *)
(* For any number of transactions, backends, readers, faults and retries;  *)
(* where crashes of the proxy are left out, the theorem says so.           *)
(***************************************************************************)
EXTENDS XaCommitProofs

USE DEF incErrors, AfterStatement, AfterCommit, LogState, addXaCommitErrLog,
        Resolved, GivenUp, Spend, LoadXaCommitErrLogs

-----------------------------------------------------------------------------
(* What a round leaves behind. *)

Over    == {"committed", "aborted"}
Settled == {"flush", "finish", "done"}

\* A round without an error has done its work on every shard that returned, a
\* round with one is logged and counted, and a stored connection has a branch.
Rounds(t) ==
  /\ SomeCommitted(t) => goal[t] = "commit" /\ pc[t] \in {"xaCommit", "writeLog"} \cup Settled
  /\ t \in halfStmt \ Multi => goal[t] = "phaseOne" /\ pc[t] \notin {"idle", "xaStart", "execute", "open"}
  /\ pc[t] \in Retrying /\ t \notin failed =>
       \A b \in XaShards(t) \ todo[t] : branch[t][b] = IF pc[t] = "xaCommit" THEN "committed" ELSE "aborted"
  /\ pc[t] \in {"writeLog", "flush"} => t \in failed /\ t \in errors
  /\ retrys[t].state # "none" \/ file[t].state # "none" => t \in failed
  /\ pc[t] = "finish" /\ t \notin errors => \A b \in XaShards(t) : branch[t][b] \in Over
  /\ \A b \in Backends : conn[t][b] = "own" => branch[t][b] # "none"

RoundsInv == \A t \in Txns : Rounds(t)

\* A step of another transaction, or one that ends this one, keeps all that.
LEMMA RoundsKept ==
  ASSUME NEW u \in Txns, Rounds(u), XaShards(u) \subseteq Backends,
         part'[u] = part[u], goal'[u] = goal[u],
         u \in halfStmt' <=> u \in halfStmt, u \in failed' <=> u \in failed,
         \/ pc'[u] = pc[u] /\ todo'[u] = todo[u] /\ (u \in errors' <=> u \in errors)
         \/ pc'[u] = pc[u] /\ pc[u] = "idle"
         \/ pc'[u] = "done",
         \A b \in Backends :
           \/ branch'[u][b] = branch[u][b]
           \/ branch[u][b] \in {"active", "idle"} /\ branch'[u][b] = "aborted",
         \A b \in Backends : conn'[u][b] = "own" => conn[u][b] = "own",
         retrys'[u].state \in {"none", retrys[u].state, file[u].state},
         file'[u].state \in {"none", retrys[u].state, file[u].state}
  PROVE  Rounds(u)'
<1>1. XaShards(u)' = XaShards(u)
  BY Zenon DEF XaShards
<1>2. SomeCommitted(u)' <=> SomeCommitted(u)
  BY Zenon DEF SomeCommitted
<1>3. \A b \in Backends : branch[u][b] \in Over => branch'[u][b] = branch[u][b]
  BY Zenon DEF Over
<1>4. /\ retrys'[u].state # "none" \/ file'[u].state # "none" => u \in failed'
      /\ \A b \in Backends : conn'[u][b] = "own" => branch'[u][b] # "none"
  BY Zenon DEF Rounds
<1>5. pc'[u] \in Retrying /\ u \notin failed' =>
        \A b \in XaShards(u) \ todo'[u] :
          branch'[u][b] = IF pc'[u] = "xaCommit" THEN "committed" ELSE "aborted"
  <2> SUFFICES ASSUME pc'[u] \in Retrying, u \notin failed', NEW b \in XaShards(u) \ todo'[u]
               PROVE  branch'[u][b] = IF pc'[u] = "xaCommit" THEN "committed" ELSE "aborted"
    BY Zenon
  <2>1. pc'[u] = pc[u] /\ todo'[u] = todo[u] /\ u \notin failed
    BY Zenon DEF Retrying
  <2>2. branch[u][b] = IF pc[u] = "xaCommit" THEN "committed" ELSE "aborted"
    BY <2>1, Zenon DEF Rounds
  <2>3. branch[u][b] \in Over
    BY <2>2, Zenon DEF Over
  <2> QED
    BY <1>3, <2>1, <2>2, <2>3, Zenon
<1>6. pc'[u] = "finish" /\ u \notin errors' => \A b \in XaShards(u) : branch'[u][b] \in Over
  BY <1>3, Zenon DEF Rounds
<1>7. /\ SomeCommitted(u) => goal'[u] = "commit" /\ pc'[u] \in {"xaCommit", "writeLog"} \cup Settled
      /\ u \in halfStmt' \ Multi => goal'[u] = "phaseOne" /\ pc'[u] \notin {"idle", "xaStart", "execute", "open"}
      /\ pc'[u] \in {"writeLog", "flush"} => u \in failed' /\ u \in errors'
  BY Zenon DEF Rounds, Settled
<1> QED
  BY <1>1, <1>2, <1>4, <1>5, <1>6, <1>7, Zenon DEF Rounds

\* The steps of a transaction leave the others alone.
LEMMA OthersAlone ==
  ASSUME TypeOK, NEW t \in Txns, TxnStep(t), NEW u \in Txns, u # t
  PROVE  /\ part'[u] = part[u] /\ goal'[u] = goal[u] /\ reply'[u] = reply[u]
         /\ pc'[u] = pc[u] /\ todo'[u] = todo[u]
         /\ (u \in failed' <=> u \in failed) /\ (u \in errors' <=> u \in errors)
         /\ (u \in halfStmt' <=> u \in halfStmt)
         /\ branch'[u] = branch[u] /\ conn'[u] = conn[u]
         /\ retrys'[u] = retrys[u] /\ file'[u] \in {retrys[u], file[u]}
<1>1. /\ part'[u] = part[u] /\ goal'[u] = goal[u] /\ reply'[u] = reply[u]
      /\ pc'[u] = pc[u] /\ todo'[u] = todo[u]
      /\ (u \in failed' <=> u \in failed)
  BY ZenonT(30) DEF TypeOK, TxnTypeOK, SessTypeOK, TxnStep, BeginSingle,
     BeginMulti, StartDone, Statement, ExecDone, Command, EndDone, CommitLock,
     CommitDone, WriteXaCommitErrLog, flushXaCommitErrLog, Finish, Abort,
     Round, Goto, sessVars
<1>2. (u \in errors' <=> u \in errors) /\ (u \in halfStmt' <=> u \in halfStmt)
  BY Zenon DEF TxnStep, BeginSingle, BeginMulti, StartDone, Statement, ExecDone,
     Command, EndDone, CommitLock, CommitDone, WriteXaCommitErrLog,
     flushXaCommitErrLog, Finish, Abort, sessVars
<1>3. branch'[u] = branch[u] /\ conn'[u] = conn[u]
  BY Zenon DEF TypeOK, ShardTypeOK, TxnStep, BeginSingle, BeginMulti,
     StartDone, Statement, ExecDone, Command, EndDone, CommitLock, CommitDone,
     WriteXaCommitErrLog, flushXaCommitErrLog, Finish, Abort
<1>4. retrys'[u] = retrys[u] /\ file'[u] \in {retrys[u], file[u]}
  BY Zenon DEF TypeOK, LogTypeOK, TxnStep, BeginSingle, BeginMulti,
     StartDone, Statement, ExecDone, Command, EndDone, CommitLock, CommitDone,
     WriteXaCommitErrLog, flushXaCommitErrLog, Finish, Abort, logVars
<1> QED
  BY <1>1, <1>2, <1>3, <1>4, Zenon

\* Up to the commit lock nothing is committed or logged, and an error is counted.
LEMMA EarlyStepRounds ==
  ASSUME XaInv, XaInv', NEW t \in Txns, Rounds(t),
         \/ BeginSingle(t) \/ BeginMulti(t) \/ StartDone(t) \/ Statement(t)
         \/ ExecDone(t) \/ EndDone(t)
         \/ \E g \in {"commit", "rollback"} : Command(t, g)
  PROVE  Rounds(t)'
<1>1. /\ pc \in [Txns -> Phases] /\ goal \in [Txns -> {"none", "commit", "phaseOne", "rollback"}]
      /\ Decision(t) /\ Decision(t)'
  BY Zenon DEF XaInv, DecisionInv, TypeOK, TxnTypeOK, SessTypeOK
<1>2. pc[t] \in Early /\ UNCHANGED <<branch, conn, retrys, file>>
  BY Zenon DEF BeginSingle, BeginMulti, StartDone, Statement, ExecDone,
     Command, EndDone, Early, logVars
<1>3. ~SomeCommitted(t) /\ retrys[t].state = "none" /\ file[t].state = "none"
  BY <1>1, <1>2, Zenon DEF Decision, LogAgrees, Early
<1>4. ~SomeCommitted(t)'
  BY <1>2, <1>3, Zenon DEF SomeCommitted
<1>5. /\ pc'[t] \in Early \cup {"lock", "finish"}
      /\ pc'[t] = "finish" => t \in errors'
  BY <1>1, Zenon DEF BeginSingle, BeginMulti, StartDone, Statement, ExecDone,
     Command, EndDone, Round, Goto, Early
<1>6. t \in halfStmt' \ Multi => goal'[t] = "phaseOne" /\ pc'[t] \notin {"idle", "xaStart", "execute", "open"}
  <2>1. CASE ExecDone(t)
    BY <2>1, <1>1, Zenon DEF ExecDone, Round, Goto, Rounds
  <2>2. CASE EndDone(t)
    BY <2>2, <1>1, Zenon DEF EndDone, Round, Goto, Rounds
  <2>3. CASE BeginMulti(t)
    BY <2>3, Zenon DEF BeginMulti
  <2>4. CASE \/ BeginSingle(t) \/ StartDone(t) \/ Statement(t)
             \/ \E g \in {"commit", "rollback"} : Command(t, g)
    BY <2>4, Zenon DEF BeginSingle, StartDone, Statement, Command, Rounds
  <2> QED
    BY <2>1, <2>2, <2>3, <2>4, Zenon
<1>7. pc'[t] \notin Retrying \cup {"writeLog", "flush"}
  BY <1>5, Zenon DEF Early, Retrying
<1> QED
  BY <1>2, <1>3, <1>4, <1>5, <1>6, <1>7, Zenon DEF Rounds

\* From the commit lock to Finish: the log takes the rounds that failed.
LEMMA LateStepRounds ==
  ASSUME XaInv, XaInv', NEW t \in Txns, Rounds(t),
         CommitLock(t) \/ CommitDone(t) \/ WriteXaCommitErrLog(t) \/ flushXaCommitErrLog(t)
  PROVE  Rounds(t)'
<1>1. /\ pc \in [Txns -> Phases] /\ todo \in [Txns -> SUBSET Backends] /\ Decision(t)
  BY Zenon DEF XaInv, DecisionInv, TypeOK, TxnTypeOK
<1>2. UNCHANGED <<branch, conn, part, goal, halfStmt>> /\ pc[t] \in {"lock", "writeLog", "flush"} \cup Retrying
  BY Zenon DEF CommitLock, CommitDone, WriteXaCommitErrLog, flushXaCommitErrLog, sessVars
<1>3. XaShards(t)' = XaShards(t) /\ (SomeCommitted(t)' <=> SomeCommitted(t))
  BY <1>2, Zenon DEF XaShards, SomeCommitted
<1>4. CASE CommitLock(t)
  <2>1. /\ pc[t] = "lock" /\ pc'[t] \in Retrying /\ todo'[t] = XaShards(t) /\ UNCHANGED <<retrys, file>>
    BY <1>1, <1>4, Zenon DEF CommitLock, Round, logVars, Retrying
  <2>2. ~SomeCommitted(t) /\ retrys[t].state = "none" /\ file[t].state = "none"
    BY <1>1, <2>1, Zenon DEF Rounds, Settled, Decision, LogAgrees
  <2>3. pc'[t] \notin {"writeLog", "flush", "finish", "idle", "xaStart", "execute", "open"}
    BY <2>1, Zenon DEF Retrying
  <2> QED
    BY <1>2, <1>3, <2>1, <2>2, <2>3, Zenon DEF Rounds
<1>5. CASE CommitDone(t)
  <2>1. /\ pc[t] \in Retrying /\ todo[t] = {} /\ UNCHANGED <<retrys, file, failed>>
        /\ errors' = errors \cup ({t} \cap failed)
        /\ pc'[t] = IF t \in failed THEN "writeLog" ELSE "finish"
    BY <1>1, <1>5, Zenon DEF CommitDone, Goto, logVars
  <2>2. retrys[t].state = "none" /\ file[t].state = "none"
    BY <1>1, <2>1, Zenon DEF Decision, LogAgrees, Retrying
  <2>3. t \notin failed => \A b \in XaShards(t) : branch[t][b] \in Over
    BY <2>1, Zenon DEF Rounds, Over
  <2>4. pc'[t] \notin Retrying \cup {"idle", "xaStart", "execute", "open"}
        /\ pc'[t] \in {"writeLog"} \cup Settled
    BY <2>1, Zenon DEF Retrying, Settled
  <2>5. pc'[t] \in {"writeLog", "flush"} => t \in failed' /\ t \in errors'
    BY <2>1, Zenon
  <2>6. pc'[t] = "finish" => t \notin failed
    BY <2>1, Zenon
  <2> QED
    BY <1>2, <1>3, <2>1, <2>2, <2>3, <2>4, <2>5, <2>6, Zenon DEF Rounds
<1>6. CASE WriteXaCommitErrLog(t) \/ flushXaCommitErrLog(t)
  <2>1. /\ pc[t] \in {"writeLog", "flush"} /\ pc'[t] \in {"flush", "finish"}
        /\ UNCHANGED <<failed, errors>>
    BY <1>1, <1>6, Zenon DEF WriteXaCommitErrLog, flushXaCommitErrLog, Goto
  <2>2. t \in failed /\ t \in errors
    BY <2>1, Zenon DEF Rounds
  <2>3. pc'[t] \notin Retrying \cup {"idle", "xaStart", "execute", "open"} /\ pc'[t] \in Settled
    BY <2>1, Zenon DEF Retrying, Settled
  <2> QED
    BY <1>2, <1>3, <2>1, <2>2, <2>3, Zenon DEF Rounds
<1> QED
  BY <1>4, <1>5, <1>6, Zenon

\* What every answer of a shard leaves alone.
LEMMA ShardAlone ==
  ASSUME TypeOK, NEW t \in Txns, NEW b \in Backends, ShardStep(t, b)
  PROVE  /\ UNCHANGED <<pc, part, goal, reply, halfStmt, errors, writer, readVars, logVars, chkVars, up>>
         /\ pc[t] \in OneTry \cup Retrying \cup {"execute"} /\ b \in todo[t]
         /\ \A u \in Txns \ {t} : todo'[u] = todo[u] /\ (u \in failed' <=> u \in failed)
         /\ t \in failed => t \in failed'
<1>1. /\ UNCHANGED <<pc, part, goal, reply, halfStmt, errors, writer, readVars, logVars, chkVars, up>>
      /\ pc[t] \in OneTry \cup Retrying \cup {"execute"} /\ b \in todo[t]
  BY Zenon DEF ShardStep, XaShard, ExecShard, RetryShard, sessVars
<1>2. UNCHANGED <<todo, failed>> \/ \E e \in BOOLEAN : Returns(t, b, e)
  BY Zenon DEF ShardStep, XaShard, ExecShard, RetryShard, XaAccepted, XaRejected, XaRefused,
     XaBroken, ExecOk, ExecRejected, ExecFailed, RetryAccepted, RetryUnknownXid, RetryDead,
     RetryNotYet, RetryBroken, TryAgain
<1>3. /\ \A u \in Txns \ {t} : todo'[u] = todo[u] /\ (u \in failed' <=> u \in failed)
      /\ t \in failed => t \in failed'
  BY <1>2, Zenon DEF Returns, TypeOK, TxnTypeOK
<1> QED
  BY <1>1, <1>3, Zenon

\* A connection is stored as the branch's own only with a branch on it.
LEMMA ShardOwn ==
  ASSUME TypeOK, NEW t \in Txns, NEW b \in Backends, ShardStep(t, b),
         conn[t][b] = "own" => branch[t][b] # "none"
  PROVE  /\ conn'[t][b] = "own" => branch'[t][b] # "none"
         /\ \A u \in Txns, a \in Backends : <<u, a>> # <<t, b>> =>
              conn'[u][a] = conn[u][a] /\ branch'[u][a] = branch[u][a]
<1> DEFINE Sound(d, r) == d = "own" => r # "none"
<1>1. conn[t][b] \in ConnStates /\ branch[t][b] \in BranchStates
  BY Zenon DEF TypeOK, ShardTypeOK
<1>2. Sound(Fetched(conn[t][b]), branch[t][b])
  BY Zenon DEF Fetched
<1>3. \A cmd \in XaCommands : After(cmd) # "none"
  BY Zenon DEF XaCommands, After
<1>4. \A p \in OneTry \cup Retrying : After(Cmd(p)) # "none"
  BY <1>3, CmdType, Zenon
<1>5. \E d, r : SetShard(t, b, d, r) /\ Sound(d, r)
  <2> DEFINE cmd == Cmd(pc[t])
             c == Fetched(conn[t][b])
             f == branch[t][b]
             e == IF tries[t][b] = 0 THEN c ELSE "fresh"
             g == IF tries[t][b] = 0 THEN f ELSE Dropped(conn[t][b], f)
  <2>1. \A r : Sound("fresh", r) /\ Sound("dead", r) /\ Sound("none", r)
    BY Zenon
  <2>2. Sound(e, g)
    BY <1>2, <2>1, Zenon
  <2>3. pc[t] \in OneTry \cup Retrying => \A d : Sound(d, After(cmd))
    BY <1>4, Zenon
  <2> HIDE DEF Sound
  <2>4. CASE XaShard(t, b)
    <3>1. /\ pc[t] \in OneTry
          /\ \/ XaAccepted(t, b, cmd, c, f) \/ XaRejected(t, b, cmd, c, f)
             \/ XaRefused(t, b, c, f) \/ XaBroken(t, b, cmd, c, f)
      BY <2>4, Zenon DEF XaShard
    <3> HIDE DEF cmd, c, f
    <3> QED
      BY <1>2, <2>1, <2>3, <3>1, Zenon DEF XaAccepted, XaRejected, XaRefused, XaBroken, c, f
  <2>5. CASE ExecShard(t, b)
    <3>1. ExecOk(t, b, c, f) \/ ExecRejected(t, b, c, f) \/ ExecFailed(t, b, c, f)
      BY <2>5, Zenon DEF ExecShard
    <3> HIDE DEF cmd, c, f
    <3> QED
      BY <1>2, <2>1, <3>1, Zenon DEF ExecOk, ExecRejected, ExecFailed, c, f
  <2>6. CASE RetryShard(t, b)
    <3>1. /\ pc[t] \in Retrying
          /\ \/ RetryAccepted(t, b, cmd, e, g) \/ RetryUnknownXid(t, b, cmd, e, g)
             \/ RetryDead(t, b, e, g) \/ RetryNotYet(t, b, e, g) \/ RetryBroken(t, b, cmd, e, g)
      BY <2>6, Zenon DEF RetryShard
    <3> HIDE DEF cmd, e, g
    <3> QED
      BY <2>1, <2>2, <2>3, <3>1, Zenon DEF RetryAccepted, RetryUnknownXid, RetryDead,
         RetryNotYet, RetryBroken
  <2> QED
    BY <2>4, <2>5, <2>6, Zenon DEF ShardStep
<1>6. PICK d, r : SetShard(t, b, d, r) /\ (d = "own" => r # "none")
  BY <1>5, Zenon
<1> QED
  BY <1>6, Zenon DEF SetShard, TypeOK, ShardTypeOK

\* A shard of the commit or rollback round that returns without an error has
\* carried the command out.
LEMMA RetryReturns ==
  ASSUME TypeOK, NEW t \in Txns, NEW b \in Backends, RetryShard(t, b), t \notin failed',
         NEW a \in Backends, a \notin todo'[t]
  PROVE  \/ a \notin todo[t] /\ branch'[t][a] = branch[t][a]
         \/ branch'[t][a] = IF pc[t] = "xaCommit" THEN "committed" ELSE "aborted"
<1> DEFINE first == tries[t][b] = 0
           cmd == Cmd(pc[t])
           c == IF first THEN Fetched(conn[t][b]) ELSE "fresh"
           s == IF first THEN branch[t][b] ELSE Dropped(conn[t][b], branch[t][b])
<1>1. pc[t] \in Retrying /\ b \in todo[t]
  BY Zenon DEF RetryShard
<1>2. \/ RetryAccepted(t, b, cmd, c, s)
      \/ RetryUnknownXid(t, b, cmd, c, s)
      \/ RetryDead(t, b, c, s)
      \/ RetryNotYet(t, b, c, s)
      \/ RetryBroken(t, b, cmd, c, s)
  BY Zenon DEF RetryShard
<1>3. After(cmd) = IF pc[t] = "xaCommit" THEN "committed" ELSE "aborted"
  BY <1>1, Zenon DEF Cmd, After, Retrying
<1> HIDE DEF first, cmd, c, s
<1>4. \/ SetShard(t, b, c, After(cmd)) /\ Returns(t, b, FALSE)
      \/ UNCHANGED <<todo, failed>>
  <2>1. ~Returns(t, b, TRUE)
    BY Zenon DEF Returns
  <2> QED
    BY <1>2, <2>1, Zenon DEF RetryAccepted, RetryUnknownXid, RetryDead, RetryNotYet, RetryBroken,
       TryAgain
<1>5. a # b => branch'[t][a] = branch[t][a]
  BY RetryShardEffect
<1>6. CASE UNCHANGED <<todo, failed>>
  BY <1>1, <1>5, <1>6, Zenon
<1>7. CASE SetShard(t, b, c, After(cmd)) /\ Returns(t, b, FALSE)
  BY <1>3, <1>5, <1>7, Zenon DEF SetShard, Returns, TypeOK, TxnTypeOK, ShardTypeOK
<1> QED
  BY <1>4, <1>6, <1>7, Zenon

\* An answer of a shard.
LEMMA ShardRounds ==
  ASSUME XaInv, XaInv', NEW t \in Txns, NEW b \in Backends, Rounds(t), ShardStep(t, b)
  PROVE  Rounds(t)'
<1>1. TypeOK /\ Decision(t) /\ Decision(t)' /\ XaShards(t) \subseteq Backends
  BY XaShardsType, Zenon DEF XaInv, DecisionInv, TypeOK
<1>2. /\ UNCHANGED <<pc, part, goal, halfStmt, errors, retrys, file>>
      /\ pc[t] \in OneTry \cup Retrying \cup {"execute"}
      /\ t \in failed => t \in failed'
  BY <1>1, ShardAlone, Zenon DEF logVars
<1>3. XaShards(t)' = XaShards(t)
  BY <1>2, Zenon DEF XaShards
<1>4. retrys[t].state = "none" /\ file[t].state = "none"
  BY <1>1, <1>2, Zenon DEF Decision, LogAgrees, OneTry, Retrying
<1>5. \A a \in Backends : conn'[t][a] = "own" => branch'[t][a] # "none"
  BY <1>1, ShardOwn, ZenonT(30) DEF Rounds
<1>6. SomeCommitted(t)' => pc[t] = "xaCommit" /\ goal[t] = "commit"
  BY <1>1, <1>2, Zenon DEF Decision, Early, Late, OneTry, Retrying
<1>7. ASSUME pc[t] \in Retrying, t \notin failed', NEW a \in XaShards(t) \ todo'[t]
      PROVE  branch'[t][a] = IF pc[t] = "xaCommit" THEN "committed" ELSE "aborted"
  <2>1. RetryShard(t, b)
    BY <1>7, Zenon DEF ShardStep, XaShard, ExecShard, OneTry, Retrying
  <2>2. a \notin todo[t] => branch[t][a] = IF pc[t] = "xaCommit" THEN "committed" ELSE "aborted"
    BY <1>2, <1>7, Zenon DEF Rounds
  <2> QED
    BY <1>1, <1>7, <2>1, <2>2, RetryReturns, Zenon
<1>8. pc[t] \notin {"writeLog", "flush", "finish"}
  BY <1>2, Zenon DEF OneTry, Retrying
<1> QED
  BY <1>2, <1>3, <1>4, <1>5, <1>6, <1>7, <1>8, Zenon DEF Rounds

\* What a pass of xacheck changes: branches of the logged transaction it visits,
\* and the log.
LEMMA CheckAlone ==
  ASSUME TypeOK, CheckStep
  PROVE  /\ UNCHANGED <<pc, todo, failed, errors, conn, writer, sessVars, readVars, up>>
         /\ \A u \in Txns : /\ retrys'[u].state \in {"none", retrys[u].state}
                             /\ file'[u].state \in {retrys[u].state, file[u].state}
         /\ \A u \in Txns, b \in Backends :
              \/ branch'[u][b] = branch[u][b]
              \/ /\ xpc = "retry" /\ u = xcur /\ branch[u][b] = "prepared"
                 /\ retrys[u].state \in {"commit", "rollback"}
                 /\ branch'[u][b] = IF retrys[u].state = "commit" THEN "committed" ELSE "aborted"
<1>1. UNCHANGED <<pc, todo, failed, errors, conn, writer, sessVars, readVars, up>>
  BY Zenon DEF CheckStep, XaCommitsRetry, XaRecover, XaRetryShard, XaResolve, XaFlush, txnVars
<1>2. \A u \in Txns : file'[u].state \in {retrys[u].state, file[u].state}
  BY Zenon DEF CheckStep, XaCommitsRetry, XaRecover, XaRetryShard, XaResolve, XaFlush, logVars
<1>3. ASSUME NEW u \in Txns PROVE retrys'[u].state \in {"none", retrys[u].state}
  <2>1. CASE XaResolve
    <3>1. xcur \in Txns /\ retrys[xcur] \in Entries
      BY <2>1, Zenon DEF XaResolve, TypeOK, LogTypeOK
    <3>2. \/ retrys' = [retrys EXCEPT ![xcur] = NoLog]
          \/ retrys' = [retrys EXCEPT ![xcur].times = @ - 1]
      BY <2>1, Zenon DEF XaResolve
    <3> QED
      BY <3>1, <3>2 DEF NoLog, TypeOK, LogTypeOK, Entries
  <2>2. CASE UNCHANGED retrys
    BY <2>2, Zenon
  <2> QED
    BY <2>1, <2>2, Zenon DEF CheckStep, XaCommitsRetry, XaRecover, XaRetryShard, XaFlush, logVars
<1>4. \A u \in Txns, b \in Backends :
        \/ branch'[u][b] = branch[u][b]
        \/ /\ xpc = "retry" /\ u = xcur /\ branch[u][b] = "prepared"
           /\ retrys[u].state \in {"commit", "rollback"}
           /\ branch'[u][b] = IF retrys[u].state = "commit" THEN "committed" ELSE "aborted"
  <2>1. ASSUME NEW a \in Backends, XaRetryShard(a), NEW u \in Txns, NEW b \in Backends
        PROVE  \/ branch'[u][b] = branch[u][b]
               \/ /\ xpc = "retry" /\ u = xcur /\ branch[u][b] = "prepared"
                  /\ retrys[u].state \in {"commit", "rollback"}
                  /\ branch'[u][b] = IF retrys[u].state = "commit" THEN "committed" ELSE "aborted"
    <3>1. xpc = "retry"
      BY <2>1, Zenon DEF XaRetryShard
    <3>2. CASE u = xcur /\ b = a
      BY <2>1, <3>1, <3>2, XaRetryShardEffect, Zenon
    <3>3. CASE <<u, b>> # <<xcur, a>>
      BY <2>1, <3>3, XaRetryShardEffect, Zenon
    <3> QED
      BY <3>2, <3>3
  <2>2. CASE UNCHANGED branch
    BY <2>2, Zenon
  <2> QED
    BY <2>1, <2>2, Zenon DEF CheckStep, XaCommitsRetry, XaRecover, XaResolve, XaFlush
<1> QED
  BY <1>1, <1>2, <1>3, <1>4, Zenon

\* Closing connections ends the branches that have not prepared.
LEMMA ClosedBranch ==
  ASSUME TypeOK, NEW u \in Txns, NEW b \in Backends
  PROVE  \/ Closed(u)[b] = branch[u][b]
         \/ branch[u][b] \in {"active", "idle"} /\ Closed(u)[b] = "aborted"
BY DroppedBranch, Zenon DEF Closed, TypeOK, ShardTypeOK

\* The other steps drop connections, at most.
LEMMA RestAlone ==
  ASSUME TypeOK,
         \/ \E t \in Txns, b \in Backends : ConnLost(t, b)
         \/ \E l \in Legs : ReadStep(l)
         \/ Crash \/ Restart \/ UNCHANGED vars
  PROVE  /\ UNCHANGED <<part, goal, reply, halfStmt, failed, errors, file, timesout>>
         /\ ~Crash => UNCHANGED <<pc, todo, writer>>
         /\ ~Crash /\ ~Restart => UNCHANGED <<retrys, torn, chkVars, up>>
         /\ \A u \in Txns, b \in Backends :
              /\ \/ branch'[u][b] = branch[u][b]
                 \/ branch[u][b] \in {"active", "idle"} /\ branch'[u][b] = "aborted"
              /\ conn'[u][b] = "own" => conn[u][b] = "own"
<1>1. ASSUME NEW t \in Txns, NEW a \in Backends, ConnLost(t, a), NEW u \in Txns, NEW b \in Backends
      PROVE  /\ \/ branch'[u][b] = branch[u][b]
                \/ branch[u][b] \in {"active", "idle"} /\ branch'[u][b] = "aborted"
             /\ conn'[u][b] = "own" => conn[u][b] = "own"
  BY <1>1, ClosedBranch, ZenonT(30) DEF ConnLost, SetShard, TypeOK, ShardTypeOK
<1>2. ASSUME Crash, NEW u \in Txns, NEW b \in Backends
      PROVE  /\ \/ branch'[u][b] = branch[u][b]
                \/ branch[u][b] \in {"active", "idle"} /\ branch'[u][b] = "aborted"
             /\ conn'[u][b] # "own"
  BY <1>2, ClosedBranch, Zenon DEF Crash
<1>3. Restart \/ UNCHANGED vars \/ (\E l \in Legs : ReadStep(l)) => UNCHANGED <<branch, conn>>
  BY Zenon DEF Restart, vars, ReadStep, CommitRLock, ReadShard, CommitRUnlock, txnVars
<1>4. /\ UNCHANGED <<part, goal, reply, halfStmt, failed, errors, file, timesout>>
      /\ ~Crash => UNCHANGED <<pc, todo, writer>>
      /\ ~Crash /\ ~Restart => UNCHANGED <<retrys, torn, chkVars, up>>
  BY Zenon DEF ConnLost, ReadStep, CommitRLock, ReadShard, CommitRUnlock, Crash, Restart, vars,
     txnVars, sessVars, logVars, chkVars
<1> QED
  BY <1>1, <1>2, <1>3, <1>4, Zenon

\* Every step keeps what the rounds leave behind.
LEMMA RoundsStep == ASSUME XaInv, XaInv', RoundsInv, [Next]_vars PROVE RoundsInv'
<1> SUFFICES ASSUME NEW u \in Txns PROVE Rounds(u)'
  BY Zenon DEF RoundsInv
<1>1. TypeOK /\ Rounds(u) /\ Decision(u) /\ Decision(u)' /\ XaShards(u) \subseteq Backends
  BY XaShardsType, Zenon DEF XaInv, DecisionInv, RoundsInv, TypeOK
<1>2. ASSUME NEW t \in Txns, TxnStep(t) PROVE Rounds(u)'
  <2>1. CASE u # t
    BY <1>1, <1>2, <2>1, OthersAlone, RoundsKept, Zenon
  <2>2. CASE u = t /\ (Finish(t) \/ Abort(t))
    <3>1. UNCHANGED <<part, goal, halfStmt, failed, retrys, file>> /\ pc'[t] = "done"
      BY <1>1, <2>2, Zenon DEF Finish, Abort, Goto, sessVars, logVars, TypeOK, TxnTypeOK
    <3>2. \A b \in Backends : conn'[t][b] = "none"
      BY <1>1, <2>2 DEF Finish, Abort, TypeOK, ShardTypeOK
    <3>3. branch'[t] = branch[t] \/ branch'[t] = Closed(t)
      BY <1>1, <2>2, Zenon DEF Finish, Abort, TypeOK, ShardTypeOK
    <3>4. \A b \in Backends : \/ branch'[t][b] = branch[t][b]
                              \/ branch[t][b] \in {"active", "idle"} /\ branch'[t][b] = "aborted"
      BY <1>1, <3>3, ClosedBranch
    <3>5. \A b \in Backends : conn'[t][b] = "own" => conn[t][b] = "own"
      BY <3>2, Zenon
    <3> QED
      BY <1>1, <2>2, <3>1, <3>4, <3>5, RoundsKept, Zenon
  <2> QED
    BY <1>1, <1>2, <2>1, <2>2, EarlyStepRounds, LateStepRounds, Zenon DEF TxnStep
<1>3. ASSUME NEW t \in Txns, NEW b \in Backends, ShardStep(t, b) PROVE Rounds(u)'
  <2>1. CASE u # t
    <3>1. \A a \in Backends : conn'[u][a] = conn[u][a] /\ branch'[u][a] = branch[u][a]
      <4>1. conn[t][b] = "own" => branch[t][b] # "none"
        BY Zenon DEF RoundsInv, Rounds
      <4> QED
        BY <1>1, <1>3, <2>1, <4>1, ShardOwn
    <3> QED
      BY <1>1, <1>3, <2>1, <3>1, ShardAlone, RoundsKept, Zenon DEF logVars
  <2> QED
    BY <1>1, <1>3, <2>1, ShardRounds, Zenon
<1>4. CASE CheckStep
  <2>1. UNCHANGED <<pc, part, goal, halfStmt, failed, errors, todo, conn>>
        /\ retrys'[u].state \in {"none", retrys[u].state}
        /\ file'[u].state \in {retrys[u].state, file[u].state}
    BY <1>1, <1>4, CheckAlone, Zenon DEF sessVars
  <2>2. CASE \A b \in Backends : branch'[u][b] = branch[u][b]
    BY <1>1, <2>1, <2>2, RoundsKept, Zenon
  <2>3. CASE \E b \in Backends : branch'[u][b] # branch[u][b]
    <3>1. /\ retrys[u].state \in {"commit", "rollback"}
          /\ \A b \in Backends : branch'[u][b] = branch[u][b] \/ branch'[u][b] \in Over
          /\ \A b \in Backends : branch'[u][b] = "committed" =>
                branch[u][b] = "committed" \/ retrys[u].state = "commit"
      BY <1>1, <1>4, <2>3, CheckAlone, ZenonT(30) DEF Over
    <3>2. pc[u] \in Settled /\ u \in failed
      BY <1>1, <3>1, Zenon DEF Decision, LogAgrees, Settled, Rounds
    <3>3. SomeCommitted(u)' => goal[u] = "commit"
      BY <1>1, <3>1, Zenon DEF SomeCommitted, Decision, LogAgrees, Rounds
    <3>4. XaShards(u)' = XaShards(u)
      BY <2>1, Zenon DEF XaShards
    <3>5. \A b \in Backends : conn'[u][b] = "own" => branch'[u][b] # "none"
      BY <1>1, <2>1, <3>1, Zenon DEF Rounds, Over
    <3>6. pc[u] = "finish" /\ u \notin errors => \A b \in XaShards(u) : branch'[u][b] \in Over
      BY <1>1, <3>1, Zenon DEF Rounds
    <3>7. pc[u] \notin Retrying \cup {"idle", "xaStart", "execute", "open"}
      BY <3>2, Zenon DEF Settled, Retrying
    <3> QED
      BY <1>1, <2>1, <3>2, <3>3, <3>4, <3>5, <3>6, <3>7, Zenon DEF Rounds
  <2> QED
    BY <2>2, <2>3, Zenon
<1>5. CASE \/ \E t \in Txns, b \in Backends : ConnLost(t, b)
           \/ \E l \in Legs : ReadStep(l)
           \/ Crash \/ Restart \/ UNCHANGED vars
  <2>1. Crash => /\ pc'[u] = (IF pc[u] = "idle" THEN "idle" ELSE "done") /\ retrys'[u].state = "none"
    BY DEF Crash, NoLog
  <2>2. Restart => retrys' = file
    BY Zenon DEF Restart
  <2>3. /\ UNCHANGED <<part, goal, halfStmt, failed, errors, file>>
        /\ ~Crash => UNCHANGED <<pc, todo>>
        /\ ~Crash /\ ~Restart => UNCHANGED retrys
    BY <1>1, <1>5, RestAlone, Zenon
  <2>6. \A b \in Backends :
          /\ \/ branch'[u][b] = branch[u][b]
             \/ branch[u][b] \in {"active", "idle"} /\ branch'[u][b] = "aborted"
          /\ conn'[u][b] = "own" => conn[u][b] = "own"
    BY <1>1, <1>5, RestAlone, Zenon
  <2>4. \/ pc'[u] = pc[u] /\ todo'[u] = todo[u]
        \/ pc'[u] = pc[u] /\ pc[u] = "idle"
        \/ pc'[u] = "done"
    BY <2>1, <2>3, Zenon
  <2>5. retrys'[u].state \in {"none", retrys[u].state, file[u].state}
    BY <2>1, <2>2, <2>3, Zenon
  <2> QED
    BY <1>1, <2>3, <2>4, <2>5, <2>6, RoundsKept, Zenon
<1> QED
  BY <1>2, <1>3, <1>4, <1>5, Zenon DEF Next

\* Nothing has run.
LEMMA InitRounds == Init => RoundsInv
BY DEF Init, RoundsInv, Rounds, NoLog, SomeCommitted, Retrying, Settled

\* A single statement that failed on some backend is rolled back on all: none of
\* its branches commits, whatever fails afterwards (ExecuteSingleStmtTxnTwoPC).
THEOREM FailedRolledBack == Spec => []FailedWriteNeverCommits
<1>1. XaInv /\ RoundsInv => FailedWriteNeverCommits
  BY Zenon DEF RoundsInv, Rounds, FailedWriteNeverCommits
<1>2. XaInv /\ XaInv' /\ RoundsInv /\ [Next]_vars => RoundsInv'
  BY RoundsStep, Zenon
<1> QED
  BY <1>1, <1>2, InitRounds, DecisionCorrect, PTL DEF Spec

\* Finish gives a connection back only when the branch on it is over: every
\* failed round is in txn.errors (incErrors, Finish).
THEOREM BackClean == Spec => RecycledClean
<1> DEFINE Clean == \A t \in Txns : pc[t] = "finish" /\ pc'[t] = "done" /\ t \notin errors =>
                      \A b \in Backends : conn[t][b] = "own" => branch[t][b] \in {"committed", "aborted"}
<1>1. XaInv /\ RoundsInv => Clean
  <2> SUFFICES ASSUME XaInv, RoundsInv, NEW t \in Txns, pc[t] = "finish", t \notin errors,
                      NEW b \in Backends, conn[t][b] = "own"
               PROVE  branch[t][b] \in {"committed", "aborted"}
    BY Zenon
  <2>1. b \in XaShards(t)
    BY DEF XaInv, DecisionInv, Decision, RoundsInv, Rounds
  <2>2. \A a \in XaShards(t) : branch[t][a] \in Over
    BY Zenon DEF RoundsInv, Rounds
  <2> QED
    BY <2>1, <2>2, Zenon DEF Over
<1>2. XaInv /\ XaInv' /\ RoundsInv /\ [Next]_vars => RoundsInv'
  BY RoundsStep, Zenon
<1> HIDE DEF Clean
<1>3. Spec => [][Clean]_vars
  BY <1>1, <1>2, InitRounds, DecisionCorrect, PTL DEF Spec
<1> QED
  BY <1>3 DEF Clean, RecycledClean

-----------------------------------------------------------------------------
(* Commits are final and remembered. *)

\* A commit is final, and is the work of the commit round or of an xacheck pass.
LEMMA CommitsBy ==
  ASSUME XaInv, [Next]_vars, NEW u \in Txns, NEW b \in Backends
  PROVE  /\ branch[u][b] = "committed" => branch'[u][b] = "committed"
         /\ branch'[u][b] = "committed" =>
              \/ branch[u][b] = "committed" \/ pc[u] = "xaCommit"
              \/ xpc = "retry" /\ u = xcur /\ retrys[u].state = "commit"
         /\ branch'[u][b] = "prepared" => branch[u][b] = "prepared" \/ pc[u] \in OneTry
<1>1. TypeOK /\ Decision(u)
  BY Zenon DEF XaInv, DecisionInv
<1> DEFINE Dropping == \/ branch'[u][b] = branch[u][b]
                       \/ branch[u][b] \in {"active", "idle"} /\ branch'[u][b] = "aborted"
<1>2. ASSUME NEW t \in Txns, TxnStep(t) PROVE Dropping
  <2>1. CASE Finish(t) \/ Abort(t)
    <3>1. u # t => branch'[u] = branch[u]
      BY <1>1, <1>2, OthersAlone, Zenon
    <3>2. branch'[t] = branch[t] \/ branch'[t] = Closed(t)
      BY <1>1, <2>1, Zenon DEF Finish, Abort, TypeOK, ShardTypeOK
    <3> QED
      BY <1>1, <3>1, <3>2, ClosedBranch
  <2>2. CASE UNCHANGED branch
    BY <2>2, Zenon
  <2> QED
    BY <1>2, <2>1, <2>2, Zenon DEF TxnStep, BeginSingle, BeginMulti, StartDone, Statement, ExecDone,
       Command, EndDone, CommitLock, CommitDone, WriteXaCommitErrLog, flushXaCommitErrLog
<1>3. ASSUME NEW t \in Txns, NEW a \in Backends, XaShard(t, a)
      PROVE  \/ branch'[u][b] = branch[u][b]
             \/ /\ branch[u][b] # "committed" /\ branch'[u][b] # "committed" /\ pc[u] \in OneTry
  <2>1. pc[t] \in OneTry
    BY <1>3, Zenon DEF XaShard
  <2> QED
    BY <1>1, <1>3, <2>1, XaShardEffect
<1>4. ASSUME NEW t \in Txns, NEW a \in Backends, ExecShard(t, a) PROVE Dropping
  <2> DEFINE c == Fetched(conn[t][a])
             s == branch[t][a]
  <2>1. Dropped(c, s) = s \/ (s \in {"active", "idle"} /\ Dropped(c, s) = "aborted")
    BY <1>1, DroppedBranch, FetchedType, Zenon DEF TypeOK, ShardTypeOK
  <2>2. \E d, r : /\ SetShard(t, a, d, r)
                  /\ r = s \/ (s \in {"active", "idle"} /\ r = "aborted")
    BY <1>4, <2>1, Zenon DEF ExecShard, ExecOk, ExecRejected, ExecFailed
  <2> QED
    BY <1>1, <2>2 DEF SetShard, TypeOK, ShardTypeOK
<1>5. ASSUME NEW t \in Txns, NEW a \in Backends, RetryShard(t, a)
      PROVE  \/ branch'[u][b] = branch[u][b]
             \/ pc[u] = "xaCommit" /\ branch'[u][b] = "committed"
             \/ branch[u][b] # "committed" /\ branch'[u][b] = "aborted"
  <2>1. pc[t] \in Retrying /\ a \in todo[t]
    BY <1>5, Zenon DEF RetryShard
  <2>2. CASE u = t /\ b = a /\ pc[t] = "xaCommit"
    <3>1. branch[t][a] \in {"prepared", "committed"}
      BY <1>1, <2>1, <2>2, Zenon DEF Decision, Decided, Late, Retrying
    <3> QED
      BY <1>1, <1>5, <2>2, <3>1, RetryShardEffect, Zenon
  <2>3. CASE u = t /\ b = a /\ pc[t] = "xaRollback"
    <3>1. branch[t][a] # "committed"
      BY <1>1, <2>3, Zenon DEF Decision, SomeCommitted, Late
    <3> QED
      BY <1>1, <1>5, <2>3, <3>1, RetryShardEffect, Zenon
  <2>4. CASE ~(u = t /\ b = a)
    BY <1>1, <1>5, <2>4, RetryShardEffect
  <2> QED
    BY <2>1, <2>2, <2>3, <2>4, Zenon DEF Retrying
<1>6. CASE CheckStep
  BY <1>1, <1>6, CheckAlone, Zenon
<1>7. CASE \/ \E t \in Txns, a \in Backends : ConnLost(t, a)
           \/ \E l \in Legs : ReadStep(l)
           \/ Crash \/ Restart \/ UNCHANGED vars
  BY <1>1, <1>7, RestAlone, Zenon
<1>8. Dropping => /\ branch[u][b] = "committed" => branch'[u][b] = "committed"
                  /\ branch'[u][b] = "committed" => branch[u][b] = "committed"
                  /\ branch'[u][b] = "prepared" => branch[u][b] = "prepared"
  BY Zenon
<1> HIDE DEF Dropping
<1> QED
  BY <1>2, <1>3, <1>4, <1>5, <1>6, <1>7, <1>8, Zenon DEF Next, ShardStep

\* A transaction past its rounds is answered, and nothing else happens to it.
LEMMA SettledStep ==
  ASSUME XaInv, [Next]_vars, ~Crash, NEW u \in Txns, pc[u] \in Settled
  PROVE  /\ pc'[u] \in Settled /\ goal'[u] = goal[u] /\ XaShards(u)' = XaShards(u)
         /\ u \in failed' <=> u \in failed
         /\ pc'[u] = "flush" => pc[u] = "flush"
         /\ reply'[u] = reply[u] \/ (pc[u] = "finish" /\ pc'[u] = "done" /\ reply[u] = "none")
         /\ pc'[u] = pc[u] \/ pc[u] = "flush" \/ (pc[u] = "finish" /\ pc'[u] = "done")
<1>1. TypeOK /\ pc \in [Txns -> Phases] /\ reply \in [Txns -> {"none", "ok", "err"}]
  BY Zenon DEF XaInv, TypeOK, TxnTypeOK, SessTypeOK
<1> DEFINE Alone == /\ pc'[u] = pc[u] /\ goal'[u] = goal[u] /\ part'[u] = part[u]
                    /\ reply'[u] = reply[u] /\ (u \in failed' <=> u \in failed)
<1>2. ASSUME NEW t \in Txns, TxnStep(t), u # t PROVE Alone
  BY <1>1, <1>2, OthersAlone, Zenon
<1>3. ASSUME NEW t \in Txns, NEW b \in Backends, ShardStep(t, b) PROVE Alone
  <2>1. u # t
    BY <1>1, <1>3, ShardAlone, Zenon DEF Settled, OneTry, Retrying
  <2> QED
    BY <1>1, <1>3, <2>1, ShardAlone, Zenon
<1>4. CheckStep => Alone
  BY <1>1, CheckAlone, Zenon DEF sessVars
<1>5. ASSUME \/ \E t \in Txns, b \in Backends : ConnLost(t, b)
             \/ \E l \in Legs : ReadStep(l)
             \/ Restart \/ UNCHANGED vars
      PROVE  Alone
  BY <1>1, <1>5, RestAlone, Zenon
<1>6. CASE TxnStep(u)
  <2>1. flushXaCommitErrLog(u) \/ Finish(u)
    BY <1>6, Zenon DEF TxnStep, BeginSingle, BeginMulti, StartDone, Statement, ExecDone, Command,
       EndDone, CommitLock, CommitDone, WriteXaCommitErrLog, Abort, Settled, Retrying
  <2>2. UNCHANGED <<goal, part, failed>>
    BY <2>1, Zenon DEF flushXaCommitErrLog, Finish, Goto, sessVars
  <2>3. XaShards(u)' = XaShards(u)
    BY <2>2, Zenon DEF XaShards
  <2>4. CASE flushXaCommitErrLog(u)
    <3>1. pc[u] = "flush" /\ pc'[u] = "finish" /\ reply' = reply
      BY <1>1, <2>4, Zenon DEF flushXaCommitErrLog, Goto, sessVars
    <3> QED
      BY <2>2, <2>3, <3>1, Zenon DEF Settled
  <2>5. CASE Finish(u)
    <3>1. pc[u] = "finish" /\ pc'[u] = "done" /\ (reply[u] # "none" => reply'[u] = reply[u])
      BY <1>1, <2>5, Zenon DEF Finish, Goto
    <3> QED
      BY <2>2, <2>3, <3>1, Zenon DEF Settled
  <2> QED
    BY <2>1, <2>4, <2>5, Zenon
<1>7. CASE Alone
  <2>1. XaShards(u)' = XaShards(u)
    BY <1>7, Zenon DEF XaShards
  <2> QED
    BY <1>7, <2>1, Zenon
<1> HIDE DEF Alone
<1> QED
  BY <1>2, <1>3, <1>4, <1>5, <1>6, <1>7, Zenon DEF Next

-----------------------------------------------------------------------------
(* A decided commit is remembered. *)

\* A visit of xacheck: a branch still prepared is one that it has yet to ask for
\* or could not end.
Visit ==
  xpc = "retry" =>
    /\ xleft \subseteq xneed
    /\ \A b \in Backends : branch[xcur][b] = "prepared" => b \in xleft \/ (b \in xneed /\ xbad)

AllCommitted(t) == \A b \in XaShards(t) : branch[t][b] = "committed"

\* Nothing is left to do, or xacheck knows or has reported it.
Kept(t)       == AllCommitted(t) \/ retrys[t].state = "commit" \/ t \in timesout
KeptOnDisk(t) == AllCommitted(t) \/ file[t].state = "commit" \/ t \in timesout

\* The client of a COMMIT has been, or will be, told "ok".
Answered(t) ==
  goal[t] = "commit" /\ \/ reply[t] = "ok"
                        \/ pc[t] = "flush"
                        \/ pc[t] = "finish" /\ reply[t] # "err"

OneTxn == \A t, u \in Txns : t = u

\* What is answered is kept, in memory and, once written, on disk.  With one
\* transaction the file is written only when nothing is left to remember.
KeptInv ==
  /\ Visit
  /\ up => \A t \in Txns : Answered(t) => Kept(t)
  /\ up /\ ~torn => \A t \in Txns : file[t].state = retrys[t].state
  /\ up /\ torn => \/ \E t \in Txns : pc[t] = "flush"
                   \/ xpc = "flush" /\ xcur \in Txns /\ retrys[xcur].state = "none"
  /\ ~up => \A t \in Txns : pc[t] \in {"idle", "done"}
  /\ ~up /\ ~torn => \A t \in Txns : Answered(t) => KeptOnDisk(t)
  /\ ~up /\ torn /\ OneTxn => \A t \in Txns : Answered(t) => AllCommitted(t) \/ t \in timesout

\* Only xacheck moves through the log.
LEMMA OnlyCheck == ASSUME [Next]_vars PROVE CheckStep \/ Crash \/ UNCHANGED chkVars
<1>1. ASSUME NEW t \in Txns, TxnStep(t) PROVE UNCHANGED chkVars
  BY <1>1, Zenon DEF TxnStep, BeginSingle, BeginMulti, StartDone, Statement, ExecDone, Command, EndDone,
     CommitLock, CommitDone, WriteXaCommitErrLog, flushXaCommitErrLog, Finish, Abort
<1>2. ASSUME NEW t \in Txns, NEW b \in Backends, ShardStep(t, b) \/ ConnLost(t, b)
      PROVE  UNCHANGED chkVars
  BY <1>2, Zenon DEF ShardStep, XaShard, ExecShard, RetryShard, ConnLost
<1>3. ASSUME (\E l \in Legs : ReadStep(l)) \/ Restart \/ UNCHANGED vars PROVE UNCHANGED chkVars
  BY <1>3, Zenon DEF ReadStep, CommitRLock, ReadShard, CommitRUnlock, Restart, vars, chkVars
<1> QED
  BY <1>1, <1>2, <1>3, Zenon DEF Next

\* A branch that xacheck finds prepared stays so until it answers.
LEMMA VisitStep ==
  ASSUME XaInv, Visit, [Next]_vars PROVE Visit'
<1> SUFFICES ASSUME xpc' = "retry"
             PROVE  /\ xleft' \subseteq xneed'
                    /\ \A b \in Backends : branch'[xcur'][b] = "prepared" =>
                         b \in xleft' \/ (b \in xneed' /\ xbad')
  BY Zenon DEF Visit
<1>1. TypeOK
  BY Zenon DEF XaInv
<1>2. CASE XaRecover
  BY <1>2, Zenon DEF XaRecover
<1>3. ASSUME NEW a \in Backends, XaRetryShard(a)
      PROVE  /\ xleft' \subseteq xneed'
             /\ \A b \in Backends : branch'[xcur'][b] = "prepared" =>
                  b \in xleft' \/ (b \in xneed' /\ xbad')
  <2>1. xpc = "retry" /\ a \in xleft /\ xleft' = xleft \ {a} /\ UNCHANGED <<xcur, xneed>>
    BY <1>3, Zenon DEF XaRetryShard
  <2>2. xbad => xbad'
    BY <1>3, Zenon DEF XaRetryShard
  <2>3. branch'[xcur][a] = "prepared" => xbad'
    <3>1. xcur \in Txns /\ retrys[xcur].state \in {"commit", "rollback"}
      BY <1>1, <1>3, XaRetryShardEffect, Zenon
    <3>2. After("commit") # "prepared" /\ After("rollback") # "prepared"
      BY DEF After
    <3> QED
      BY <1>1, <1>3, <3>1, <3>2 DEF XaRetryShard, TypeOK, ShardTypeOK
  <2>4. \A b \in Backends \ {a} : branch'[xcur][b] = branch[xcur][b]
    BY <1>1, <1>3, XaRetryShardEffect
  <2> QED
    BY <2>1, <2>2, <2>3, <2>4, Zenon DEF Visit
<1>4. CASE UNCHANGED chkVars
  <2>1. xpc = "retry" /\ xcur \in Txns /\ retrys[xcur].state # "none"
    BY <1>1, <1>4, Zenon DEF chkVars, TypeOK, LogTypeOK
  <2>2. pc[xcur] \in Settled
    BY <2>1, Zenon DEF XaInv, DecisionInv, Decision, LogAgrees, Settled
  <2>3. \A b \in Backends : branch'[xcur][b] = "prepared" => branch[xcur][b] = "prepared"
    <3>1. pc[xcur] \notin OneTry
      BY <2>2, Zenon DEF Settled, OneTry
    <3> QED
      BY <2>1, <3>1, CommitsBy, Zenon
  <2> QED
    BY <1>4, <2>1, <2>3, Zenon DEF Visit, chkVars
<1> QED
  BY <1>2, <1>3, <1>4, OnlyCheck, Zenon DEF CheckStep, XaCommitsRetry, XaResolve, XaFlush, Crash

\* The log is changed by the session that logs, by xacheck, and by a crash.
LEMMA OnlyLog ==
  ASSUME [Next]_vars, ~CheckStep, ~Crash, ~Restart, UNCHANGED logVars => FALSE
  PROVE  \E t \in Txns : WriteXaCommitErrLog(t) \/ flushXaCommitErrLog(t)
<1>1. ASSUME NEW t \in Txns, TxnStep(t) PROVE WriteXaCommitErrLog(t) \/ flushXaCommitErrLog(t)
  BY <1>1, Zenon DEF TxnStep, BeginSingle, BeginMulti, StartDone, Statement, ExecDone, Command, EndDone,
     CommitLock, CommitDone, Finish, Abort
<1>2. ASSUME NEW t \in Txns, NEW b \in Backends, ShardStep(t, b) \/ ConnLost(t, b) PROVE FALSE
  BY <1>2, Zenon DEF ShardStep, XaShard, ExecShard, RetryShard, ConnLost
<1>3. ASSUME (\E l \in Legs : ReadStep(l)) \/ UNCHANGED vars PROVE FALSE
  BY <1>3, Zenon DEF ReadStep, CommitRLock, ReadShard, CommitRUnlock, vars, logVars
<1> QED
  BY <1>1, <1>2, <1>3, Zenon DEF Next

\* What is given up stays reported.
LEMMA ReportStays == ASSUME [Next]_vars, NEW u \in timesout PROVE u \in timesout'
<1>1. CASE UNCHANGED logVars
  BY <1>1, Zenon DEF logVars
<1>2. Crash \/ Restart => UNCHANGED timesout
  BY Zenon DEF Crash, Restart
<1>3. CheckStep => UNCHANGED timesout \/ timesout \subseteq timesout'
  BY Zenon DEF CheckStep, XaCommitsRetry, XaRecover, XaRetryShard, XaResolve, XaFlush, logVars
<1>4. \A t \in Txns : WriteXaCommitErrLog(t) \/ flushXaCommitErrLog(t) => UNCHANGED timesout
  BY Zenon DEF WriteXaCommitErrLog, flushXaCommitErrLog
<1> QED
  BY <1>1, <1>2, <1>3, <1>4, OnlyLog, Zenon

\* A pass ends with the entry gone only if the transaction is committed
\* everywhere or reported.
LEMMA ResolveKeeps ==
  ASSUME XaInv, Visit, XaResolve, NEW u \in Txns, Decided(u), retrys[u].state = "commit"
  PROVE  retrys'[u].state = "commit" \/ AllCommitted(u) \/ u \in timesout'
<1>1. /\ xcur \in Txns /\ retrys \in [Txns -> Entries] /\ xleft = {} /\ XaShards(u) \subseteq Backends
      /\ xpc = "retry"
  BY XaShardsType, Zenon DEF XaInv, TypeOK, LogTypeOK, XaResolve
<1>2. CASE u # xcur
  <2>1. retrys'[u] = retrys[u]
    BY <1>1, <1>2, Zenon DEF XaResolve
  <2> QED
    BY <2>1, Zenon
<1>3. CASE u = xcur /\ Resolved
  <2>1. \A b \in Backends : branch[u][b] # "prepared"
    BY <1>1, <1>3, Zenon DEF Visit
  <2> QED
    BY <1>1, <2>1, Zenon DEF Decided, AllCommitted
<1>4. CASE u = xcur /\ ~Resolved /\ GivenUp(retrys[xcur])
  BY <1>4, Zenon DEF XaResolve
<1>5. CASE u = xcur /\ ~Resolved /\ ~GivenUp(retrys[xcur])
  <2>1. retrys' = [retrys EXCEPT ![xcur] = Spend(@)]
    BY <1>5, Zenon DEF XaResolve
  <2> QED
    BY <1>1, <1>5, <2>1 DEF Entries
<1> QED
  BY <1>2, <1>3, <1>4, <1>5, Zenon

\* A decided transaction past its rounds stays kept while the proxy runs.
LEMMA KeptSettled ==
  ASSUME XaInv, Visit, [Next]_vars, ~Crash, ~Restart, NEW u \in Txns, pc[u] \in Settled, Decided(u), Kept(u)
  PROVE  Kept(u)'
<1>1. TypeOK /\ XaShards(u)' = XaShards(u) /\ XaShards(u) \subseteq Backends
  BY SettledStep, XaShardsType, Zenon DEF XaInv, TypeOK
<1>2. AllCommitted(u) => AllCommitted(u)'
  BY <1>1, CommitsBy, Zenon DEF AllCommitted
<1>3. retrys[u].state = "commit" => retrys'[u].state = "commit" \/ AllCommitted(u) \/ u \in timesout'
  <2>1. CASE XaResolve
    BY <2>1, ResolveKeeps, Zenon
  <2>2. CheckStep => XaResolve \/ UNCHANGED retrys
    BY Zenon DEF CheckStep, XaCommitsRetry, XaRecover, XaRetryShard, XaFlush, logVars
  <2>3. CASE UNCHANGED logVars
    BY <2>3, Zenon DEF logVars
  <2>4. ASSUME NEW t \in Txns, WriteXaCommitErrLog(t) \/ flushXaCommitErrLog(t) PROVE retrys'[u] = retrys[u]
    <3>1. pc[u] # "writeLog"
      BY Zenon DEF Settled
    <3> QED
      BY <1>1, <2>4, <3>1, Zenon DEF WriteXaCommitErrLog, flushXaCommitErrLog, TypeOK, LogTypeOK
  <2> QED
    BY <2>1, <2>2, <2>3, <2>4, OnlyLog, Zenon
<1> QED
  BY <1>2, <1>3, ReportStays, Zenon DEF Kept

\* A session moves by its own steps.
LEMMA OwnMove ==
  ASSUME TypeOK, [Next]_vars, ~Crash, NEW u \in Txns, pc'[u] # pc[u] PROVE TxnStep(u)
<1>1. ASSUME NEW t \in Txns, TxnStep(t), t # u PROVE FALSE
  BY <1>1, OthersAlone, Zenon
<1>2. ASSUME NEW t \in Txns, NEW b \in Backends, ShardStep(t, b) PROVE FALSE
  BY <1>2, ShardAlone, Zenon
<1>3. ~CheckStep
  BY CheckAlone, Zenon
<1>4. ASSUME \/ \E t \in Txns, b \in Backends : ConnLost(t, b)
             \/ \E l \in Legs : ReadStep(l)
             \/ Restart \/ UNCHANGED vars
      PROVE  FALSE
  BY <1>4, RestAlone, Zenon
<1> QED
  BY <1>1, <1>2, <1>3, <1>4, Zenon DEF Next

\* A commit round ends with every shard committed, or its failure is logged.
LEMMA RoundKept ==
  ASSUME XaInv, RoundsInv, NEW u \in Txns, CommitDone(u) \/ WriteXaCommitErrLog(u),
         pc'[u] \in Settled, goal'[u] = "commit"
  PROVE  Kept(u)'
<1>1. TypeOK /\ Decision(u) /\ Rounds(u)
  BY Zenon DEF XaInv, DecisionInv, RoundsInv
<1>2. pc \in [Txns -> Phases] /\ retrys \in [Txns -> Entries]
  BY <1>1, Zenon DEF TypeOK, TxnTypeOK, LogTypeOK
<1>3. CASE CommitDone(u)
  <2>1. /\ pc[u] \in Retrying /\ todo[u] = {} /\ UNCHANGED <<branch, goal, part>>
        /\ pc'[u] = IF u \in failed THEN "writeLog" ELSE "finish"
    BY <1>2, <1>3, Zenon DEF CommitDone, Goto, sessVars
  <2>2. u \notin failed /\ pc[u] = "xaCommit"
    BY <1>1, <2>1, Zenon DEF Settled, Decision, Retrying
  <2>3. AllCommitted(u)
    BY <1>1, <2>1, <2>2, Zenon DEF Rounds, AllCommitted
  <2>4. AllCommitted(u)'
    BY <2>1, <2>3, Zenon DEF AllCommitted, XaShards
  <2> QED
    BY <2>4, Zenon DEF Kept
<1>4. CASE WriteXaCommitErrLog(u)
  <2>1. goal[u] = "commit"
    BY <1>4, Zenon DEF WriteXaCommitErrLog, sessVars
  <2>2. retrys'[u].state = "commit"
    BY <1>2, <1>4, <2>1 DEF WriteXaCommitErrLog
  <2> QED
    BY <2>2, Zenon DEF Kept
<1> QED
  BY <1>3, <1>4, Zenon

\* A COMMIT is answered only after its round.
LEMMA AnswersKept ==
  ASSUME XaInv, XaInv', RoundsInv, [Next]_vars, ~Crash, NEW u \in Txns, pc[u] \notin Settled, Answered(u)'
  PROVE  Kept(u)'
<1>1. TypeOK /\ Decision(u) /\ Decision(u)'
  BY Zenon DEF XaInv, DecisionInv
<1>2. pc'[u] \in Settled /\ goal'[u] = "commit"
  BY <1>1, Zenon DEF Answered, Decision, Settled
<1>3. TxnStep(u)
  BY <1>1, <1>2, OwnMove, Zenon
<1>4. reply[u] # "ok"
  BY <1>1, Zenon DEF Decision, Settled
<1>5. pc \in [Txns -> Phases] /\ reply \in [Txns -> {"none", "ok", "err"}]
  BY <1>1, Zenon DEF TypeOK, TxnTypeOK, SessTypeOK
<1>6. CASE CommitDone(u) \/ WriteXaCommitErrLog(u)
  BY <1>2, <1>6, RoundKept, Zenon
<1>8. CASE StartDone(u) \/ EndDone(u)
  <2>1. pc'[u] \in {"finish", "execute", "open", "xaEnd", "xaPrepare", "lock"} /\ (pc'[u] = "finish" => reply'[u] = "err")
        /\ reply'[u] \in {"err", reply[u]}
    BY <1>5, <1>8, Zenon DEF StartDone, EndDone, Round, Goto
  <2> QED
    BY <1>2, <1>4, <2>1, Zenon DEF Answered, Settled
<1>9. CASE Abort(u)
  <2>1. pc'[u] = "done" /\ reply' = reply
    BY <1>5, <1>9, Zenon DEF Abort, Goto, sessVars
  <2> QED
    BY <1>4, <2>1, Zenon DEF Answered
<1>10. CASE BeginSingle(u) \/ BeginMulti(u) \/ Statement(u) \/ ExecDone(u) \/ CommitLock(u)
           \/ \E g \in {"commit", "rollback"} : Command(u, g)
  <2>1. pc'[u] \notin Settled
    BY <1>5, <1>10, Zenon DEF BeginSingle, BeginMulti, Statement, ExecDone, CommitLock, Command, Round, Goto, Settled
  <2> QED
    BY <1>2, <2>1, Zenon
<1>11. CASE flushXaCommitErrLog(u) \/ Finish(u)
  BY <1>11, Zenon DEF flushXaCommitErrLog, Finish, Settled
<1> QED
  BY <1>3, <1>6, <1>8, <1>9, <1>10, <1>11, Zenon DEF TxnStep

\* In memory and on disk the log is the same, but while it is being written.
LEMMA LogStep ==
  ASSUME XaInv, KeptInv, [Next]_vars, up, ~Crash
  PROVE  /\ up'
         /\ ~torn' => \A t \in Txns : file'[t].state = retrys'[t].state
         /\ torn' => \/ \E t \in Txns : pc'[t] = "flush"
                     \/ xpc' = "flush" /\ xcur' \in Txns /\ retrys'[xcur'].state = "none"
<1>1. /\ TypeOK /\ pc \in [Txns -> Phases] /\ retrys \in [Txns -> Entries]
      /\ \A t \in Txns : retrys[t].state = "commit" \/ retrys[t].state # "commit"
  BY Zenon DEF XaInv, TypeOK, TxnTypeOK, LogTypeOK
<1>2. /\ ~torn => \A t \in Txns : file[t].state = retrys[t].state
      /\ torn => \/ \E t \in Txns : pc[t] = "flush"
                 \/ xpc = "flush" /\ xcur \in Txns /\ retrys[xcur].state = "none"
  BY Zenon DEF KeptInv
<1>3. up'
  <2>1. \A t \in Txns : TxnStep(t) => up' = up
    BY ZenonT(30) DEF TxnStep, BeginSingle, BeginMulti, StartDone, Statement, ExecDone, Command, EndDone,
       CommitLock, CommitDone, WriteXaCommitErrLog, flushXaCommitErrLog, Finish, Abort
  <2>2. ASSUME NEW t \in Txns, NEW b \in Backends, ShardStep(t, b) \/ ConnLost(t, b) PROVE up' = up
    BY <1>1, <2>2, ShardAlone, Zenon DEF ConnLost
  <2>3. CheckStep => up' = up
    BY <1>1, CheckAlone, Zenon
  <2>4. (\E l \in Legs : ReadStep(l)) \/ UNCHANGED vars => up' = up
    BY Zenon DEF ReadStep, CommitRLock, ReadShard, CommitRUnlock, vars
  <2>5. ~Restart
    BY Zenon DEF Restart
  <2> QED
    BY <2>1, <2>2, <2>3, <2>4, <2>5, Zenon DEF Next
<1>4. ASSUME NEW t \in Txns, WriteXaCommitErrLog(t) PROVE torn' /\ pc'[t] = "flush"
  BY <1>1, <1>4, Zenon DEF WriteXaCommitErrLog, Goto
<1>5. ASSUME NEW t \in Txns, flushXaCommitErrLog(t) PROVE ~torn' /\ file' = retrys'
  BY <1>5, Zenon DEF flushXaCommitErrLog
<1>6. CASE XaFlush
  BY <1>3, <1>6, Zenon DEF XaFlush
<1>7. CASE XaResolve
  <2>1. xcur \in Txns /\ xcur' = xcur /\ file' = file /\ pc' = pc /\ retrys[xcur] \in Entries
    BY <1>1, <1>7, Zenon DEF XaResolve, txnVars, TypeOK, LogTypeOK
  <2>2. CASE Resolved \/ GivenUp(retrys[xcur])
    <3>1. torn' /\ xpc' = "flush" /\ retrys'[xcur] = NoLog
      BY <1>1, <1>7, <2>1, <2>2, Zenon DEF XaResolve
    <3>2. NoLog.state = "none"
      BY DEF NoLog
    <3> QED
      BY <1>3, <2>1, <3>1, <3>2, Zenon
  <2>3. CASE ~Resolved /\ ~GivenUp(retrys[xcur])
    <3>0. (torn' <=> torn) /\ retrys' = [retrys EXCEPT ![xcur] = Spend(@)]
      BY <1>7, <2>3, Zenon DEF XaResolve
    <3>1. retrys'[xcur] = [retrys[xcur] EXCEPT !.times = @ - 1] /\ \A t \in Txns \ {xcur} : retrys'[t] = retrys[t]
      BY <1>1, <2>1, <3>0, Zenon
    <3>2. \A t \in Txns : retrys'[t].state = retrys[t].state
      BY <1>1, <2>1, <3>1 DEF Entries
    <3>3. xpc # "flush"
      BY <1>7, Zenon DEF XaResolve
    <3> QED
      BY <1>2, <1>3, <2>1, <3>0, <3>2, <3>3, Zenon
  <2> QED
    BY <2>2, <2>3, Zenon
<1>8. CASE UNCHANGED logVars /\ (CheckStep => XaCommitsRetry \/ XaRecover \/ \E b \in Backends : XaRetryShard(b))
  <2>1. CASE \E t \in Txns : pc[t] = "flush" /\ pc'[t] # "flush"
    <3>1. PICK t \in Txns : pc[t] = "flush" /\ pc'[t] # "flush"
      BY <2>1, Zenon
    <3>2. TxnStep(t) \/ pc' = pc \/ \E v \in Txns \ {t} : TxnStep(v)
      BY <1>1, <1>8, ShardAlone, CheckAlone, RestAlone, Zenon DEF Next
    <3>3. TxnStep(t)
      BY <1>1, <3>1, <3>2, OthersAlone, Zenon
    <3>4. flushXaCommitErrLog(t)
      BY <3>1, <3>3, Zenon DEF TxnStep, BeginSingle, BeginMulti, StartDone, Statement,
         ExecDone, Command, EndDone, CommitLock, CommitDone, WriteXaCommitErrLog, Finish, Abort, Retrying
    <3> QED
      BY <1>3, <1>5, <3>4, Zenon
  <2>2. xpc = "flush" => UNCHANGED <<xpc, xcur>>
    BY <1>8, OnlyCheck, Zenon DEF chkVars, XaCommitsRetry, XaRecover, XaRetryShard
  <2> QED
    BY <1>2, <1>3, <1>8, <2>1, <2>2, Zenon DEF logVars
<1>9. CheckStep => \/ XaFlush \/ XaResolve
                   \/ UNCHANGED logVars /\ (XaCommitsRetry \/ XaRecover \/ \E b \in Backends : XaRetryShard(b))
  BY Zenon DEF CheckStep, XaCommitsRetry, XaRecover, XaRetryShard
<1>10. ~Restart
  BY Zenon DEF Restart
<1> QED
  BY <1>3, <1>4, <1>5, <1>6, <1>7, <1>8, <1>9, <1>10, OnlyLog, Zenon

\* While the proxy is down nothing happens to the transactions.
LEMMA DownStep ==
  ASSUME XaInv, KeptInv, [Next]_vars, ~up
  PROVE  /\ UNCHANGED <<pc, part, goal, reply, file, torn, timesout>>
         /\ \A t \in Txns, b \in Backends : branch[t][b] = "committed" => branch'[t][b] = "committed"
         /\ up' => retrys' = file /\ ~torn
<1>1. TypeOK /\ xpc = "sleep" /\ \A t \in Txns : pc[t] \in {"idle", "done"}
  BY Zenon DEF XaInv, TypeOK, LogTypeOK, KeptInv
<1>2. ASSUME NEW t \in Txns, TxnStep(t) PROVE FALSE
  BY <1>1, <1>2, Zenon DEF TxnStep, BeginSingle, BeginMulti, StartDone, Statement, ExecDone, Command, EndDone,
     CommitLock, CommitDone, WriteXaCommitErrLog, flushXaCommitErrLog, Finish, Abort, Retrying
<1>3. ASSUME NEW t \in Txns, NEW b \in Backends, ShardStep(t, b) PROVE FALSE
  BY <1>1, <1>3, ShardAlone, Zenon DEF OneTry, Retrying
<1>4. ~CheckStep /\ ~Crash
  BY <1>1, Zenon DEF CheckStep, XaCommitsRetry, XaRecover, XaRetryShard, XaResolve, XaFlush, Crash
<1>5. \/ \E t \in Txns, b \in Backends : ConnLost(t, b)
      \/ \E l \in Legs : ReadStep(l)
      \/ Restart \/ UNCHANGED vars
  BY <1>2, <1>3, <1>4, Zenon DEF Next
<1>6. /\ UNCHANGED <<part, goal, reply, halfStmt, failed, errors, file, timesout>>
      /\ ~Crash => UNCHANGED <<pc, todo, writer>>
      /\ ~Crash /\ ~Restart => UNCHANGED <<retrys, torn, chkVars, up>>
  BY <1>1, <1>5, RestAlone, Zenon
<1>7. Restart => retrys' = file /\ ~torn /\ torn' = torn
  BY Zenon DEF Restart
<1>8. \A t \in Txns, b \in Backends : branch[t][b] = "committed" => branch'[t][b] = "committed"
  BY CommitsBy, Zenon
<1>9. ~Restart => torn' = torn /\ ~up'
  BY <1>4, <1>6
<1>10. UNCHANGED <<pc, part, goal, reply, file, torn, timesout>>
  BY <1>4, <1>6, <1>7, <1>9, Zenon
<1> QED
  BY <1>7, <1>8, <1>9, <1>10, Zenon

\* A crash loses what is only in memory.
LEMMA CrashKeeps ==
  ASSUME XaInv, KeptInv, Crash, [Next]_vars PROVE KeptInv'
<1>1. TypeOK /\ up
  BY Zenon DEF XaInv, Crash
<1>2. /\ UNCHANGED <<part, goal, reply, file, torn, timesout>> /\ ~up' /\ xpc' = "sleep"
      /\ \A t \in Txns : pc'[t] \in {"idle", "done"}
  BY Zenon DEF Crash, sessVars
<1>3. ASSUME NEW t \in Txns, Answered(t)'
      PROVE  Answered(t) /\ Kept(t) /\ (AllCommitted(t) => AllCommitted(t)') /\ pc[t] = "done"
  <2>1. goal[t] = "commit" /\ reply[t] = "ok"
    BY <1>2, <1>3, Zenon DEF Answered
  <2>2. XaShards(t)' = XaShards(t) /\ XaShards(t) \subseteq Backends
    BY <1>1, <1>2, XaShardsType, Zenon DEF XaShards, TypeOK
  <2>3. AllCommitted(t) => AllCommitted(t)'
    BY <2>2, CommitsBy, Zenon DEF AllCommitted
  <2> QED
    BY <1>1, <2>1, <2>3, Zenon DEF KeptInv, Answered, XaInv, DecisionInv, Decision
<1>4. ~torn => \A t \in Txns : Answered(t)' => KeptOnDisk(t)'
  BY <1>1, <1>2, <1>3, Zenon DEF KeptInv, Kept, KeptOnDisk
<1>5. ASSUME torn, OneTxn, NEW t \in Txns, Answered(t)' PROVE AllCommitted(t)' \/ t \in timesout'
  <2>1. \A u \in Txns : u = t
    BY <1>5, Zenon DEF OneTxn
  <2>2. xcur \in Txns /\ retrys[xcur].state = "none"
    BY <1>1, <1>3, <1>5, <2>1, Zenon DEF KeptInv
  <2>3. retrys[t].state = "none"
    BY <2>1, <2>2, Zenon
  <2> QED
    BY <1>2, <1>3, <1>5, <2>3, Zenon DEF Kept
<1> QED
  BY <1>2, <1>4, <1>5, Zenon DEF KeptInv, Visit, OneTxn

\* KeptInv is inductive.
LEMMA KeptStep == ASSUME XaInv, XaInv', RoundsInv, KeptInv, [Next]_vars PROVE KeptInv'
<1>1. TypeOK /\ Visit
  BY Zenon DEF XaInv, KeptInv
<1>2. Visit'
  BY <1>1, VisitStep, Zenon
<1>3. CASE up /\ ~Crash
  <2>1. /\ up'
        /\ ~torn' => \A t \in Txns : file'[t].state = retrys'[t].state
        /\ torn' => \/ \E t \in Txns : pc'[t] = "flush"
                    \/ xpc' = "flush" /\ xcur' \in Txns /\ retrys'[xcur'].state = "none"
    BY <1>3, LogStep, Zenon
  <2>2. ASSUME NEW t \in Txns, Answered(t)' PROVE Kept(t)'
    <3>1. Decision(t) /\ Decision(t)'
      BY Zenon DEF XaInv, DecisionInv
    <3>2. CASE pc[t] \in Settled
      <4>1. Answered(t)
        BY <1>3, <2>2, <3>1, <3>2, SettledStep, Zenon DEF Answered
      <4>2. Decided(t) /\ Kept(t)
        BY <1>3, <3>1, <4>1, Zenon DEF Answered, Decision, Late, KeptInv
      <4>3. ~Restart
        BY <1>3, Zenon DEF Restart
      <4> QED
        BY <1>1, <1>3, <3>2, <4>2, <4>3, KeptSettled, Zenon
    <3> QED
      BY <1>3, <2>2, <3>2, AnswersKept, Zenon
  <2> QED
    BY <1>2, <2>1, <2>2, Zenon DEF KeptInv
<1>4. CASE ~up
  <2>1. /\ UNCHANGED <<pc, part, goal, reply, file, torn, timesout>>
        /\ up' => retrys' = file /\ ~torn
    BY <1>4, DownStep, Zenon
  <2>2. ASSUME NEW t \in Txns
        PROVE  /\ Answered(t)' <=> Answered(t)
               /\ AllCommitted(t) => AllCommitted(t)'
    <3>1. XaShards(t)' = XaShards(t) /\ XaShards(t) \subseteq Backends
      BY <1>1, <2>1, XaShardsType, Zenon DEF XaShards, TypeOK
    <3> QED
      BY <1>4, <2>1, <3>1, DownStep, Zenon DEF Answered, AllCommitted
  <2>3. /\ \A t \in Txns : pc[t] \in {"idle", "done"}
        /\ ~torn => \A t \in Txns : Answered(t) => KeptOnDisk(t)
        /\ torn /\ OneTxn => \A t \in Txns : Answered(t) => AllCommitted(t) \/ t \in timesout
    BY <1>4, Zenon DEF KeptInv
  <2>4. CASE up'
    <3>1. \A t \in Txns : Answered(t)' => Kept(t)'
      BY <2>1, <2>2, <2>3, <2>4, Zenon DEF Kept, KeptOnDisk
    <3> QED
      BY <1>2, <2>1, <2>4, <3>1, Zenon DEF KeptInv
  <2>5. CASE ~up'
    <3>1. ~torn' => \A t \in Txns : Answered(t)' => KeptOnDisk(t)'
      BY <2>1, <2>2, <2>3, Zenon DEF KeptOnDisk
    <3>2. torn' /\ OneTxn => \A t \in Txns : Answered(t)' => AllCommitted(t)' \/ t \in timesout'
      BY <2>1, <2>2, <2>3, Zenon
    <3> QED
      BY <1>2, <2>1, <2>3, <2>5, <3>1, <3>2, Zenon DEF KeptInv, OneTxn
  <2> QED
    BY <2>4, <2>5, Zenon
<1> QED
  BY <1>3, <1>4, CrashKeeps, Zenon

\* Nothing has been answered.
LEMMA InitKept == Init => KeptInv
BY DEF Init, KeptInv, Visit, Answered, NoLog

\* A COMMIT that was answered "ok" is not lost, whatever fails: every shard has
\* committed, or is prepared and xacheck has it or has reported it.  The one
\* exception is a crash in the middle of rewriting xacheck.json, which loses
\* the other entries of the log with the file (WriteXaCommitErrLog).
THEOREM AckedUnlessTorn == Spec => [](up \/ ~torn => AckedCommitKept)
<1>1. XaInv /\ KeptInv => (up \/ ~torn => AckedCommitKept)
  <2> SUFFICES ASSUME XaInv, KeptInv, up \/ ~torn, NEW t \in Txns, reply[t] = "ok", goal[t] = "commit",
                      NEW b \in XaShards(t)
               PROVE  \/ branch[t][b] = "committed"
                      \/ /\ branch[t][b] = "prepared"
                         /\ \/ up /\ retrys[t].state = "commit"
                            \/ ~up /\ ~torn /\ file[t].state = "commit"
                            \/ t \in timesout
    BY Zenon DEF AckedCommitKept
  <2>1. Answered(t) /\ branch[t][b] \in {"prepared", "committed"}
    BY Zenon DEF Answered, XaInv, DecisionInv, Decision, Decided
  <2>2. IF up THEN Kept(t) ELSE ~torn /\ KeptOnDisk(t)
    BY <2>1, Zenon DEF KeptInv
  <2> QED
    BY <2>1, <2>2, Zenon DEF Kept, KeptOnDisk, AllCommitted
<1>2. XaInv /\ XaInv' /\ RoundsInv /\ RoundsInv' /\ KeptInv /\ [Next]_vars => KeptInv'
  BY KeptStep, Zenon
<1>3. XaInv /\ XaInv' /\ RoundsInv /\ [Next]_vars => RoundsInv'
  BY RoundsStep, Zenon
<1> QED
  BY <1>1, <1>2, <1>3, InitRounds, InitKept, DecisionCorrect, PTL DEF Spec

\* One transaction is not lost even then: the file is being rewritten to add
\* its entry, and the client has no answer yet, or to delete it, and it is
\* committed everywhere or reported.
THEOREM AckedKept == ASSUME OneTxn PROVE Spec => []AckedCommitKept
<1>1. XaInv /\ KeptInv => AckedCommitKept
  <2> SUFFICES ASSUME XaInv, KeptInv, NEW t \in Txns, reply[t] = "ok", goal[t] = "commit",
                      NEW b \in XaShards(t)
               PROVE  \/ branch[t][b] = "committed"
                      \/ /\ branch[t][b] = "prepared"
                         /\ \/ up /\ retrys[t].state = "commit"
                            \/ ~up /\ ~torn /\ file[t].state = "commit"
                            \/ t \in timesout
    BY Zenon DEF AckedCommitKept
  <2>1. Answered(t) /\ branch[t][b] \in {"prepared", "committed"}
    BY Zenon DEF Answered, XaInv, DecisionInv, Decision, Decided
  <2>2. \/ up /\ Kept(t)
        \/ ~up /\ ~torn /\ KeptOnDisk(t)
        \/ AllCommitted(t) \/ t \in timesout
    BY <2>1, Zenon DEF KeptInv
  <2> QED
    BY <2>1, <2>2, Zenon DEF Kept, KeptOnDisk, AllCommitted
<1>2. XaInv /\ XaInv' /\ RoundsInv /\ RoundsInv' /\ KeptInv /\ [Next]_vars => KeptInv'
  BY KeptStep, Zenon
<1>3. XaInv /\ XaInv' /\ RoundsInv /\ [Next]_vars => RoundsInv'
  BY RoundsStep, Zenon
<1> QED
  BY <1>1, <1>2, <1>3, InitRounds, InitKept, DecisionCorrect, PTL DEF Spec

-----------------------------------------------------------------------------
(* Until the proxy crashes. *)

\* A transaction committed anywhere is kept once its session is past its rounds.
HalfInv ==
  crashes = 0 => up /\ \A t \in Txns : SomeCommitted(t) /\ pc[t] \in Settled => Kept(t)

\* Only a crash is counted as one.
LEMMA NoCrash ==
  ASSUME TypeOK, [Next]_vars, crashes' = 0
  PROVE  crashes = 0 /\ ~Crash
<1>1. ~Crash
  BY DEF Crash, TypeOK, LogTypeOK
<1>2. ASSUME NEW t \in Txns, TxnStep(t) PROVE UNCHANGED crashes
  BY <1>2, Zenon DEF TxnStep, BeginSingle, BeginMulti, StartDone, Statement, ExecDone, Command, EndDone,
     CommitLock, CommitDone, WriteXaCommitErrLog, flushXaCommitErrLog, Finish, Abort
<1>3. ASSUME NEW t \in Txns, NEW b \in Backends, ShardStep(t, b) \/ ConnLost(t, b)
      PROVE  UNCHANGED crashes
  BY <1>3, Zenon DEF ShardStep, XaShard, ExecShard, RetryShard, ConnLost
<1>4. CheckStep => UNCHANGED crashes
  BY Zenon DEF CheckStep, XaCommitsRetry, XaRecover, XaRetryShard, XaResolve, XaFlush
<1>5. ASSUME (\E l \in Legs : ReadStep(l)) \/ Restart \/ UNCHANGED vars PROVE UNCHANGED crashes
  BY <1>5, Zenon DEF ReadStep, CommitRLock, ReadShard, CommitRUnlock, Restart, vars
<1> QED
  BY <1>1, <1>2, <1>3, <1>4, <1>5, Zenon DEF Next

\* A transaction that has committed somewhere is past its PREPARE round: its
\* shards are fixed, and so is the error of its commit round.
LEMMA CommittedStep ==
  ASSUME XaInv, RoundsInv, [Next]_vars, ~Crash, NEW u \in Txns, SomeCommitted(u)
  PROVE  XaShards(u)' = XaShards(u) /\ (u \in failed => u \in failed')
<1>1. TypeOK /\ pc[u] \in {"xaCommit", "writeLog"} \cup Settled
  BY Zenon DEF XaInv, RoundsInv, Rounds
<1>2. ASSUME NEW t \in Txns, TxnStep(t) PROVE part'[u] = part[u] /\ (u \in failed => u \in failed')
  <2>1. CASE t # u
    BY <1>1, <1>2, <2>1, OthersAlone, Zenon
  <2>2. CASE t = u
    <3>1. CommitDone(u) \/ WriteXaCommitErrLog(u) \/ flushXaCommitErrLog(u) \/ Finish(u)
      BY <1>1, <1>2, <2>2, Zenon DEF TxnStep, BeginSingle, BeginMulti, StartDone, Statement, ExecDone,
         Command, EndDone, CommitLock, Abort, Settled
    <3> QED
      BY <3>1, Zenon DEF CommitDone, WriteXaCommitErrLog, flushXaCommitErrLog, Finish, Goto, sessVars
  <2> QED
    BY <2>1, <2>2, Zenon
<1>3. ASSUME NEW t \in Txns, NEW b \in Backends, ShardStep(t, b)
      PROVE  part'[u] = part[u] /\ (u \in failed => u \in failed')
  BY <1>1, <1>3, ShardAlone, Zenon
<1>4. CheckStep => part'[u] = part[u] /\ (u \in failed => u \in failed')
  BY <1>1, CheckAlone, Zenon DEF sessVars
<1>5. ASSUME \/ \E t \in Txns, b \in Backends : ConnLost(t, b)
             \/ \E l \in Legs : ReadStep(l)
             \/ Restart \/ UNCHANGED vars
      PROVE  part'[u] = part[u] /\ (u \in failed => u \in failed')
  BY <1>1, <1>5, RestAlone, Zenon
<1>6. part'[u] = part[u] /\ (u \in failed => u \in failed')
  BY <1>2, <1>3, <1>4, <1>5, Zenon DEF Next
<1> QED
  BY <1>6, Zenon DEF XaShards

\* Where a first commit comes from: the commit round, or a logged commit.
LEMMA FirstCommit ==
  ASSUME XaInv, RoundsInv, [Next]_vars, NEW u \in Txns, SomeCommitted(u)', ~SomeCommitted(u)
  PROVE  \/ pc[u] = "xaCommit"
         \/ xpc = "retry" /\ u = xcur /\ retrys[u].state = "commit" /\ Decided(u) /\ pc[u] \in Settled
<1>1. PICK b \in Backends : branch'[u][b] = "committed" /\ branch[u][b] # "committed"
  BY Zenon DEF SomeCommitted
<1>2. pc[u] = "xaCommit" \/ (xpc = "retry" /\ u = xcur /\ retrys[u].state = "commit")
  BY <1>1, CommitsBy, Zenon
<1> QED
  BY <1>2, Zenon DEF XaInv, DecisionInv, Decision, LogAgrees, Settled

\* HalfInv is inductive.
LEMMA HalfStep == ASSUME XaInv, XaInv', RoundsInv, RoundsInv', KeptInv, HalfInv, [Next]_vars PROVE HalfInv'
<1> SUFFICES ASSUME crashes' = 0
             PROVE  up' /\ \A t \in Txns : SomeCommitted(t)' /\ pc'[t] \in Settled => Kept(t)'
  BY Zenon DEF HalfInv
<1>1. TypeOK /\ Visit
  BY Zenon DEF XaInv, KeptInv
<1>2. crashes = 0 /\ ~Crash
  BY <1>1, NoCrash, Zenon
<1>3. up /\ ~Restart /\ \A t \in Txns : SomeCommitted(t) /\ pc[t] \in Settled => Kept(t)
  BY <1>2, Zenon DEF HalfInv, Restart
<1>4. up'
  BY <1>2, <1>3, LogStep, Zenon
<1>5. ASSUME NEW t \in Txns, SomeCommitted(t)', pc'[t] \in Settled PROVE Kept(t)'
  <2>1. CASE pc[t] \in Settled
    <3>1. Decided(t) /\ Kept(t)
      <4>1. CASE SomeCommitted(t)
        BY <1>3, <2>1, <4>1, Zenon DEF XaInv, DecisionInv, Decision
      <4>2. CASE ~SomeCommitted(t)
        <5>1. pc[t] # "xaCommit"
          BY <2>1, Zenon DEF Settled
        <5> QED
          BY <1>5, <4>2, <5>1, FirstCommit, Zenon DEF Kept
      <4> QED
        BY <4>1, <4>2, Zenon
    <3> QED
      BY <1>1, <1>2, <1>3, <2>1, <3>1, KeptSettled, Zenon
  <2>2. CASE pc[t] \notin Settled
    <3>1. pc[t] \in {"xaCommit", "writeLog"}
      BY <1>5, <2>2, FirstCommit, Zenon DEF RoundsInv, Rounds
    <3>2. TxnStep(t)
      BY <1>1, <1>2, <1>5, <2>2, OwnMove, Zenon
    <3>3. CommitDone(t) \/ WriteXaCommitErrLog(t)
      BY <3>1, <3>2, Zenon DEF TxnStep, BeginSingle, BeginMulti, StartDone, Statement, ExecDone,
         Command, EndDone, CommitLock, flushXaCommitErrLog, Finish, Abort
    <3>4. goal'[t] = "commit"
      BY <1>5, Zenon DEF RoundsInv, Rounds
    <3> QED
      BY <1>5, <3>3, <3>4, RoundKept, Zenon
  <2> QED
    BY <2>1, <2>2, Zenon
<1> QED
  BY <1>4, <1>5, Zenon

\* A transaction committed on one backend and prepared on another is not
\* forgotten until the proxy crashes: its round or its logging is under way,
\* xacheck has it, or it is reported (xaCommit, WriteXaCommitErrLog, XaCheck).
THEOREM HalfTracked == Spec => [](crashes = 0 => HalfCommitTracked)
<1>1. XaInv /\ RoundsInv /\ HalfInv => (crashes = 0 => HalfCommitTracked)
  <2> SUFFICES ASSUME XaInv, RoundsInv, HalfInv, crashes = 0, NEW t \in Txns, SomeCommitted(t), SomePrepared(t)
               PROVE  pc[t] \in {"xaCommit", "writeLog", "flush"} \/ retrys[t].state = "commit" \/ t \in timesout
    BY Zenon DEF HalfCommitTracked
  <2>1. pc[t] \in {"xaCommit", "writeLog"} \cup Settled
    BY Zenon DEF RoundsInv, Rounds
  <2>2. pc[t] \in Settled => Kept(t)
    BY Zenon DEF HalfInv
  <2>3. ~AllCommitted(t)
    BY DEF AllCommitted, SomePrepared, XaInv, DecisionInv, Decision
  <2> QED
    BY <2>1, <2>2, <2>3, Zenon DEF Kept
<1>2. XaInv /\ XaInv' /\ RoundsInv /\ RoundsInv' /\ KeptInv /\ HalfInv /\ [Next]_vars => HalfInv'
  BY HalfStep, Zenon
<1>3. XaInv /\ XaInv' /\ RoundsInv /\ RoundsInv' /\ KeptInv /\ [Next]_vars => KeptInv'
  BY KeptStep, Zenon
<1>4. XaInv /\ XaInv' /\ RoundsInv /\ [Next]_vars => RoundsInv'
  BY RoundsStep, Zenon
<1>5. Init => HalfInv
  BY DEF Init, HalfInv, SomeCommitted
<1> QED
  BY <1>1, <1>2, <1>3, <1>4, <1>5, InitRounds, InitKept, DecisionCorrect, PTL DEF Spec

=============================================================================
