--------------------------- MODULE XaCommitProofs ---------------------------
(***************************************************************************)
(* The types of XaCommit, the decision of a transaction and atomicity, for *)
(* any number of transactions, backends, faults, retries and crashes.      *)
(***************************************************************************)
EXTENDS XaCommit, TLAPS

USE DEF incErrors, AfterStatement, AfterCommit, LogState, addXaCommitErrLog,
        Resolved, GivenUp, Spend, LoadXaCommitErrLogs

-----------------------------------------------------------------------------
(* The types. *)

\* An XA command, or the loss of a session, leaves a branch in one of the
\* states MySQL knows.
LEMMA BranchType ==
  /\ \A cmd \in XaCommands : After(cmd) \in BranchStates
  /\ \A s \in BranchStates : Disconnected(s) \in BranchStates
  /\ \A s \in BranchStates, c \in ConnStates : Dropped(c, s) \in BranchStates
BY Zenon DEF After, Disconnected, XaCommands, BranchStates, Dropped

\* Every round of executeXA sends an XA command.
LEMMA CmdType == \A p \in OneTry \cup Retrying : Cmd(p) \in XaCommands
BY Zenon DEF Cmd, OneTry, Retrying, XaCommands

\* twopcConnection returns a connection.
LEMMA FetchedType == \A c \in ConnStates : Fetched(c) \in ConnStates
BY Zenon DEF Fetched, ConnStates

\* The absent entry of xacheck's map has the type of an entry.
LEMMA NoLogType == NoLog \in Entries
BY XaAssumption DEF NoLog, Entries

\* oneShard replaces one connection and one branch.
LEMMA SetShardType ==
  ASSUME ShardTypeOK, NEW t \in Txns, NEW b \in Backends,
         NEW c \in ConnStates, NEW s \in BranchStates, SetShard(t, b, c, s)
  PROVE  /\ conn' \in [Txns -> [Backends -> ConnStates]]
         /\ branch' \in [Txns -> [Backends -> BranchStates]]
BY Zenon DEF ShardTypeOK, SetShard

\* NewTxn and NewXaCheck give every variable its type.
LEMMA InitType == Init => TypeOK
<1> SUFFICES ASSUME Init PROVE TypeOK
  BY Zenon
<1> USE XaAssumption, NoLogType DEF Init
<1>1. TxnTypeOK
  BY Zenon DEF TxnTypeOK, Phases
<1>2. ShardTypeOK
  BY Zenon DEF ShardTypeOK, ConnStates, BranchStates
<1>3. SessTypeOK
  BY DEF SessTypeOK
<1>4. ReadTypeOK
  BY Zenon DEF ReadTypeOK
<1>5. LogTypeOK
  <2>1. retrys \in [Txns -> Entries] /\ file \in [Txns -> Entries]
    BY Zenon
  <2>2. faults \in 0 .. MaxFaults /\ crashes \in 0 .. MaxCrashes
    OBVIOUS
  <2>3. torn \in BOOLEAN /\ xbad \in BOOLEAN /\ up \in BOOLEAN
    BY Zenon
  <2> QED
    BY <2>1, <2>2, <2>3, Zenon DEF LogTypeOK
<1> QED
  BY <1>1, <1>2, <1>3, <1>4, <1>5, Zenon DEF TypeOK

\* One shard of XA START, XA END or XA PREPARE keeps the types.
LEMMA XaShardType ==
  ASSUME TypeOK, NEW t \in Txns, NEW b \in Backends, XaShard(t, b)
  PROVE  TypeOK'
<1> DEFINE cmd == Cmd(pc[t])
           c == Fetched(conn[t][b])
           s == branch[t][b]
<1> USE DEF TypeOK
<1>1. c \in ConnStates /\ s \in BranchStates /\ cmd \in XaCommands
  BY FetchedType, CmdType, Zenon DEF ShardTypeOK, XaShard
<1>2. /\ After(cmd) \in BranchStates
      /\ Dropped(c, s) \in BranchStates
      /\ Disconnected(After(cmd)) \in BranchStates
  BY <1>1, BranchType, Zenon
<1>3. \E d \in ConnStates, r \in BranchStates : SetShard(t, b, d, r)
  <2>1. CASE XaAccepted(t, b, cmd, c, s)
    BY <1>1, <1>2, <2>1, Zenon DEF XaAccepted, ConnStates
  <2>2. CASE XaRejected(t, b, cmd, c, s) \/ XaRefused(t, b, c, s)
    BY <1>1, <2>2, Zenon DEF XaRejected, XaRefused
  <2>3. CASE XaBroken(t, b, cmd, c, s)
    BY <1>1, <1>2, <2>3, Zenon DEF XaBroken, ConnStates
  <2> QED
    BY <2>1, <2>2, <2>3, Zenon DEF XaShard
<1>4. ShardTypeOK'
  BY <1>3, SetShardType, Zenon DEF ShardTypeOK, XaShard
<1>5. /\ todo' \in [Txns -> SUBSET Backends]
      /\ failed' \in SUBSET Txns
      /\ faults' \in 0 .. MaxFaults
  BY XaAssumption DEF TxnTypeOK, LogTypeOK, XaShard, XaAccepted, XaRejected,
     XaRefused, XaBroken, Returns, Fault
<1>6. TxnTypeOK' /\ SessTypeOK' /\ ReadTypeOK' /\ LogTypeOK'
  BY <1>5, Zenon DEF TxnTypeOK, SessTypeOK, ReadTypeOK, LogTypeOK, XaShard,
     sessVars, readVars, logVars, chkVars
<1> QED
  BY <1>4, <1>6, Zenon

\* One backend's queries of a statement (execute) keep the types.
LEMMA ExecShardType ==
  ASSUME TypeOK, NEW t \in Txns, NEW b \in Backends, ExecShard(t, b)
  PROVE  TypeOK'
<1> DEFINE c == Fetched(conn[t][b])
           s == branch[t][b]
<1> USE DEF TypeOK
<1>1. c \in ConnStates /\ s \in BranchStates /\ Dropped(c, s) \in BranchStates
  BY FetchedType, BranchType, Zenon DEF ShardTypeOK, ExecShard
<1>2. \E d \in ConnStates, r \in BranchStates : SetShard(t, b, d, r)
  BY <1>1, Zenon DEF ExecShard, ExecOk, ExecRejected, ExecFailed, ConnStates
<1>3. ShardTypeOK'
  BY <1>2, SetShardType, Zenon DEF ShardTypeOK, ExecShard
<1>4. applied' \in [Txns -> [Backends -> {"no", "some", "all"}]]
  <2>1. \/ UNCHANGED applied
        \/ \E a \in {"some", "all"} : applied' = [applied EXCEPT ![t][b] = a]
    BY Zenon DEF ExecShard, ExecOk, ExecRejected, ExecFailed
  <2>2. ASSUME NEW a \in {"some", "all"},
               applied' = [applied EXCEPT ![t][b] = a]
        PROVE  applied' \in [Txns -> [Backends -> {"no", "some", "all"}]]
    BY <2>2, Zenon DEF SessTypeOK
  <2> QED
    BY <2>1, <2>2, Zenon DEF SessTypeOK
<1>5. /\ todo' \in [Txns -> SUBSET Backends]
      /\ failed' \in SUBSET Txns
      /\ faults' \in 0 .. MaxFaults
  BY XaAssumption DEF TxnTypeOK, LogTypeOK, ExecShard, ExecOk, ExecRejected,
     ExecFailed, Returns, Fault
<1>6. TxnTypeOK' /\ SessTypeOK' /\ ReadTypeOK' /\ LogTypeOK'
  BY <1>4, <1>5, Zenon DEF TxnTypeOK, SessTypeOK, ReadTypeOK, LogTypeOK,
     ExecShard, readVars, logVars, chkVars
<1> QED
  BY <1>3, <1>6, Zenon

\* One attempt of a shard at XA COMMIT or XA ROLLBACK keeps the types, its
\* attempt counter included.
LEMMA RetryShardType ==
  ASSUME TypeOK, NEW t \in Txns, NEW b \in Backends, RetryShard(t, b)
  PROVE  TypeOK'
<1> DEFINE first == tries[t][b] = 0
           cmd == Cmd(pc[t])
           c == IF first THEN Fetched(conn[t][b]) ELSE "fresh"
           s == IF first THEN branch[t][b]
                ELSE Dropped(conn[t][b], branch[t][b])
<1> USE DEF TypeOK
<1>1. c \in ConnStates /\ s \in BranchStates /\ cmd \in XaCommands
  <2>1. conn[t][b] \in ConnStates /\ branch[t][b] \in BranchStates
    BY Zenon DEF ShardTypeOK
  <2>2. cmd \in XaCommands
    BY CmdType, Zenon DEF RetryShard
  <2> QED
    BY <2>1, <2>2, FetchedType, BranchType, Zenon DEF ConnStates
<1>2. After(cmd) \in BranchStates /\ Dropped(c, s) \in BranchStates
  BY <1>1, BranchType, Zenon
<1>3. \/ RetryAccepted(t, b, cmd, c, s)
      \/ RetryUnknownXid(t, b, cmd, c, s)
      \/ RetryDead(t, b, c, s)
      \/ RetryNotYet(t, b, c, s)
      \/ RetryBroken(t, b, cmd, c, s)
  BY Zenon DEF RetryShard
<1> HIDE DEF first, cmd, c, s
<1>4. \E d \in ConnStates, r \in BranchStates : SetShard(t, b, d, r)
  BY <1>1, <1>2, <1>3, Zenon DEF RetryAccepted, RetryUnknownXid, RetryDead,
     RetryNotYet, RetryBroken, ConnStates
<1>5. /\ tries' \in [Txns -> [Backends -> Nat]]
      /\ todo' \in [Txns -> SUBSET Backends]
      /\ failed' \in SUBSET Txns
  <2>1. CASE UNCHANGED tries /\ \E e \in BOOLEAN : Returns(t, b, e)
    BY <2>1, ZenonT(30) DEF TxnTypeOK, ShardTypeOK, Returns
  <2>2. CASE TryAgain(t, b)
    BY <2>2 DEF TxnTypeOK, ShardTypeOK, TryAgain, Returns
  <2> QED
    BY <1>3, <2>1, <2>2, Zenon DEF RetryAccepted, RetryUnknownXid, RetryDead,
       RetryNotYet, RetryBroken
<1>6. faults' \in 0 .. MaxFaults
  <2>1. UNCHANGED faults \/ Fault
    BY <1>3, Zenon DEF RetryAccepted, RetryUnknownXid, RetryDead, RetryNotYet,
       RetryBroken
  <2> QED
    BY <2>1, XaAssumption DEF LogTypeOK, Fault
<1>7. ShardTypeOK'
  BY <1>4, <1>5, SetShardType, Zenon DEF ShardTypeOK
<1>8. TxnTypeOK' /\ SessTypeOK' /\ ReadTypeOK' /\ LogTypeOK'
  BY <1>5, <1>6, Zenon DEF TxnTypeOK, SessTypeOK, ReadTypeOK, LogTypeOK,
     RetryShard, sessVars, readVars, logVars, chkVars
<1> QED
  BY <1>7, <1>8, Zenon

\* executeXA sends its commands to backends of scatter only.
LEMMA XaShardsType ==
  ASSUME SessTypeOK, NEW t \in Txns
  PROVE  XaShards(t) \in SUBSET Backends
BY Zenon DEF SessTypeOK, XaShards

\* Closing the connections of a transaction leaves proper branches.
LEMMA ClosedType ==
  ASSUME ShardTypeOK, NEW t \in Txns
  PROVE  Closed(t) \in [Backends -> BranchStates]
<1> SUFFICES ASSUME NEW b \in Backends
             PROVE  Dropped(conn[t][b], branch[t][b]) \in BranchStates
  BY Zenon DEF Closed
<1>1. conn[t][b] \in ConnStates /\ branch[t][b] \in BranchStates
  BY Zenon DEF ShardTypeOK
<1> QED
  BY <1>1, BranchType, Zenon

\* The steps of the session's goroutine between the rounds.
LEMMA TxnStepType ==
  ASSUME TypeOK, NEW t \in Txns, TxnStep(t)
  PROVE  TypeOK'
<1> USE DEF TypeOK
<1> XaShards(t) \in SUBSET Backends
  BY XaShardsType, Zenon
<1>1. CASE BeginSingle(t)
  BY <1>1 DEF BeginSingle, Round, TxnTypeOK, ShardTypeOK, SessTypeOK,
     ReadTypeOK, LogTypeOK, Phases, OneTry, readVars, logVars, chkVars
<1>2. CASE BeginMulti(t)
  BY <1>2, Zenon DEF BeginMulti, Round, TxnTypeOK, ShardTypeOK, SessTypeOK,
     ReadTypeOK, LogTypeOK, Phases, OneTry, sessVars, readVars, logVars, chkVars
<1>3. CASE StartDone(t)
  <2>1. TxnTypeOK'
    <3>1. \/ \E p \in Phases, S \in SUBSET Backends : Round(t, p, S)
          \/ \E p \in Phases : Goto(t, p)
      BY <1>3, Zenon DEF StartDone, SessTypeOK, Phases, OneTry
    <3> QED
      BY <1>3, <3>1 DEF StartDone, Round, Goto, TxnTypeOK
  <2>2. ShardTypeOK' /\ SessTypeOK' /\ ReadTypeOK' /\ LogTypeOK'
    BY <1>3, Zenon DEF StartDone, ShardTypeOK, SessTypeOK, ReadTypeOK,
       LogTypeOK, readVars, logVars, chkVars
  <2> QED
    BY <2>1, <2>2, Zenon
<1>4. CASE Statement(t)
  BY <1>4, XaAssumption DEF Statement, Round, TxnTypeOK, ShardTypeOK,
     SessTypeOK, ReadTypeOK, LogTypeOK, Phases, readVars, logVars, chkVars
<1>5. CASE ExecDone(t)
  <2>1. TxnTypeOK'
    BY <1>5, Zenon DEF ExecDone, Round, Goto, TxnTypeOK, Phases, OneTry
  <2>2. ShardTypeOK' /\ SessTypeOK' /\ ReadTypeOK' /\ LogTypeOK'
    BY <1>5, Zenon DEF ExecDone, ShardTypeOK, SessTypeOK, ReadTypeOK, LogTypeOK,
       readVars, logVars, chkVars
  <2> QED
    BY <2>1, <2>2, Zenon
<1>6. ASSUME NEW g \in {"commit", "rollback"}, Command(t, g)
      PROVE  TypeOK'
  BY <1>6, XaAssumption DEF Command, Round, TxnTypeOK, ShardTypeOK,
     SessTypeOK, ReadTypeOK, LogTypeOK, Phases, OneTry, readVars, logVars,
     chkVars
<1>7. CASE EndDone(t)
  <2>1. TxnTypeOK'
    BY <1>7, Zenon DEF EndDone, Round, Goto, TxnTypeOK, Phases, OneTry
  <2>2. ShardTypeOK' /\ SessTypeOK' /\ ReadTypeOK' /\ LogTypeOK'
    BY <1>7, Zenon DEF EndDone, ShardTypeOK, SessTypeOK, ReadTypeOK, LogTypeOK,
       readVars, logVars, chkVars
  <2> QED
    BY <2>1, <2>2, Zenon
<1>8. CASE CommitLock(t)
  <2>1. TxnTypeOK'
    BY <1>8, Zenon DEF CommitLock, Round, TxnTypeOK, Phases, Retrying
  <2>2. ShardTypeOK' /\ SessTypeOK' /\ ReadTypeOK' /\ LogTypeOK'
    BY <1>8, Zenon DEF CommitLock, ShardTypeOK, SessTypeOK, ReadTypeOK,
       LogTypeOK, sessVars, readVars, logVars, chkVars
  <2> QED
    BY <2>1, <2>2, Zenon
<1>9. CASE CommitDone(t)
  BY <1>9, Zenon DEF CommitDone, Goto, Release, TxnTypeOK, ShardTypeOK,
     SessTypeOK, ReadTypeOK, LogTypeOK, Phases, sessVars, readVars, logVars,
     chkVars
<1>10. CASE WriteXaCommitErrLog(t)
  <2>1. TxnTypeOK' /\ ShardTypeOK' /\ SessTypeOK' /\ ReadTypeOK'
    BY <1>10, Zenon DEF WriteXaCommitErrLog, Goto, TxnTypeOK, ShardTypeOK,
       SessTypeOK, ReadTypeOK, Phases, sessVars, readVars
  <2>2. /\ retrys' \in [Txns -> Entries]
        /\ retrys'[t].state # "none"
        /\ \A u \in Txns \ {t} : retrys'[u] = retrys[u]
    BY <1>10, XaAssumption DEF WriteXaCommitErrLog, LogTypeOK, Entries
  <2>3. LogTypeOK'
    BY <1>10, <2>2, Zenon DEF WriteXaCommitErrLog, LogTypeOK, chkVars
  <2> QED
    BY <2>1, <2>3, Zenon
<1>11. CASE flushXaCommitErrLog(t)
  BY <1>11, Zenon DEF flushXaCommitErrLog, Goto, TxnTypeOK, ShardTypeOK,
     SessTypeOK, ReadTypeOK, LogTypeOK, Phases, sessVars, readVars, chkVars
<1>12. CASE Finish(t)
  <2>1. ShardTypeOK'
    BY <1>12, ClosedType, Zenon DEF Finish, ShardTypeOK, ConnStates
  <2>2. TxnTypeOK' /\ SessTypeOK' /\ ReadTypeOK' /\ LogTypeOK'
    BY <1>12, Zenon DEF Finish, Goto, TxnTypeOK, SessTypeOK, ReadTypeOK,
       LogTypeOK, Phases, readVars, logVars, chkVars
  <2> QED
    BY <2>1, <2>2, Zenon
<1>13. CASE Abort(t)
  <2>1. ShardTypeOK'
    BY <1>13, ClosedType, Zenon DEF Abort, ShardTypeOK, ConnStates
  <2>2. TxnTypeOK' /\ SessTypeOK' /\ ReadTypeOK' /\ LogTypeOK'
    BY <1>13, Zenon DEF Abort, Goto, TxnTypeOK, SessTypeOK, ReadTypeOK,
       LogTypeOK, Phases, sessVars, readVars, logVars, chkVars
  <2> QED
    BY <2>1, <2>2, Zenon
<1> QED
  BY <1>1, <1>2, <1>3, <1>4, <1>5, <1>6, <1>7, <1>8, <1>9, <1>10, <1>11,
     <1>12, <1>13, Zenon DEF TxnStep

\* The steps of xacheck.
LEMMA CheckStepType ==
  ASSUME TypeOK, CheckStep
  PROVE  TypeOK'
<1> USE DEF TypeOK
<1>1. CASE XaCommitsRetry
  BY <1>1, Zenon DEF XaCommitsRetry, Logged, TxnTypeOK, ShardTypeOK, SessTypeOK,
     ReadTypeOK, LogTypeOK, txnVars, sessVars, readVars, logVars
<1>2. CASE XaRecover
  <2>1. faults' \in 0 .. MaxFaults
    BY <1>2, XaAssumption DEF XaRecover, Fault, LogTypeOK
  <2>2. LogTypeOK'
    <3>1. CASE xpc' = "sleep" /\ xpass' = {} /\ UNCHANGED <<xcur, xneed, xleft, xbad>>
      BY <1>2, <2>1, <3>1, Zenon DEF XaRecover, LogTypeOK, logVars
    <3>2. ASSUME NEW t \in xpass,
                 xpass' = xpass \ {t}, xcur' = t,
                 xneed' = {b \in Backends : branch[t][b] = "prepared"},
                 xleft' = xneed', xbad' = FALSE, xpc' = "retry"
          PROVE  LogTypeOK'
      <4>1. t \in Txns /\ retrys[t].state # "none" /\ up
        BY <1>2, Zenon DEF LogTypeOK, XaRecover
      <4>2. xneed' \in SUBSET Backends /\ xleft' \in SUBSET Backends
        BY <3>2, Zenon
      <4> QED
        BY <1>2, <2>1, <3>2, <4>1, <4>2, Zenon DEF XaRecover, LogTypeOK, logVars
    <3> QED
      BY <1>2, <3>1, <3>2, Zenon DEF XaRecover, LogTypeOK
  <2>3. TxnTypeOK' /\ ShardTypeOK' /\ SessTypeOK' /\ ReadTypeOK'
    BY <1>2, Zenon DEF XaRecover, TxnTypeOK, ShardTypeOK, SessTypeOK,
       ReadTypeOK, txnVars, sessVars, readVars
  <2> QED
    BY <2>2, <2>3, Zenon
<1>3. ASSUME NEW b \in Backends, XaRetryShard(b)
      PROVE  TypeOK'
  <2>1. /\ xcur \in Txns
        /\ branch[xcur][b] \in BranchStates
        /\ retrys[xcur].state \in XaCommands
    BY <1>3 DEF XaRetryShard, LogTypeOK, ShardTypeOK, Entries, XaCommands
  <2>2. After(retrys[xcur].state) \in BranchStates
    BY <2>1, BranchType, Zenon
  <2>3. \E r \in BranchStates : branch' = [branch EXCEPT ![xcur][b] = r]
    BY <1>3, <2>1, <2>2, Zenon DEF XaRetryShard
  <2>4. ShardTypeOK'
    BY <1>3, <2>1, <2>3 DEF XaRetryShard, ShardTypeOK, txnVars
  <2>5. faults' \in 0 .. MaxFaults
    BY <1>3, XaAssumption DEF XaRetryShard, Fault, LogTypeOK
  <2>6. xbad' \in BOOLEAN
    BY <1>3, Zenon DEF XaRetryShard, LogTypeOK
  <2>7. LogTypeOK'
    BY <1>3, <2>5, <2>6, Zenon DEF XaRetryShard, LogTypeOK, logVars
  <2>8. TxnTypeOK' /\ SessTypeOK' /\ ReadTypeOK'
    BY <1>3, Zenon DEF XaRetryShard, TxnTypeOK, SessTypeOK, ReadTypeOK, txnVars,
       sessVars, readVars
  <2> QED
    BY <2>4, <2>7, <2>8, Zenon
<1>4. CASE XaResolve
  <2>1. xcur \in Txns \ xpass /\ retrys[xcur] \in Entries /\ up
    BY <1>4, Zenon DEF XaResolve, LogTypeOK
  <2>2. /\ retrys' \in [Txns -> Entries]
        /\ \A u \in Txns \ {xcur} : retrys'[u] = retrys[u]
    <3>1. retrys[xcur].times # 0 =>
            [retrys[xcur] EXCEPT !.times = @ - 1] \in Entries
      BY <2>1, XaAssumption DEF Entries
    <3> QED
      BY <1>4, <2>1, <3>1, NoLogType, Zenon DEF XaResolve, LogTypeOK
  <2>3. xpc' \in {"flush", "pick"} /\ torn' \in BOOLEAN
        /\ timesout' \in SUBSET Txns
    BY <1>4, <2>1, Zenon DEF XaResolve, LogTypeOK
  <2>4. LogTypeOK'
    BY <1>4, <2>1, <2>2, <2>3, Zenon DEF XaResolve, LogTypeOK
  <2>5. TxnTypeOK' /\ ShardTypeOK' /\ SessTypeOK' /\ ReadTypeOK'
    BY <1>4, Zenon DEF XaResolve, TxnTypeOK, ShardTypeOK, SessTypeOK,
       ReadTypeOK, txnVars, sessVars, readVars
  <2> QED
    BY <2>4, <2>5, Zenon
<1>5. CASE XaFlush
  BY <1>5, Zenon DEF XaFlush, TxnTypeOK, ShardTypeOK, SessTypeOK, ReadTypeOK,
     LogTypeOK, txnVars, sessVars, readVars
<1> QED
  BY <1>1, <1>2, <1>3, <1>4, <1>5, Zenon DEF CheckStep

\* Every variable keeps its type in every step.
LEMMA TypeStep == TypeOK /\ [Next]_vars => TypeOK'
<1> SUFFICES ASSUME TypeOK, [Next]_vars PROVE TypeOK'
  BY Zenon
<1> USE DEF TypeOK
<1>1. ASSUME NEW t \in Txns, TxnStep(t) PROVE TypeOK'
  BY <1>1, TxnStepType, Zenon
<1>2. ASSUME NEW t \in Txns, NEW b \in Backends, ShardStep(t, b) PROVE TypeOK'
  BY <1>2, XaShardType, ExecShardType, RetryShardType, Zenon DEF ShardStep
<1>3. ASSUME NEW t \in Txns, NEW b \in Backends, ConnLost(t, b) PROVE TypeOK'
  <2>1. Closed(t)[b] \in BranchStates /\ "dead" \in ConnStates
    BY ClosedType, Zenon DEF ConnStates
  <2>2. ShardTypeOK'
    BY <1>3, <2>1, SetShardType, Zenon DEF ConnLost, ShardTypeOK
  <2>3. TxnTypeOK' /\ SessTypeOK' /\ ReadTypeOK'
    BY <1>3, Zenon DEF ConnLost, TxnTypeOK, SessTypeOK, ReadTypeOK, sessVars,
       readVars
  <2>4. faults' \in 0 .. MaxFaults
    BY <1>3, XaAssumption DEF ConnLost, Fault, LogTypeOK
  <2>5. LogTypeOK'
    BY <1>3, <2>4, Zenon DEF ConnLost, LogTypeOK, logVars, chkVars
  <2> QED
    BY <2>2, <2>3, <2>5, Zenon
<1>4. CASE CheckStep
  BY <1>4, CheckStepType, Zenon
<1>5. ASSUME NEW l \in Legs, ReadStep(l) PROVE TypeOK'
  <2>1. ReadTypeOK'
    <3>1. CASE CommitRLock(l) \/ CommitRUnlock(l)
      BY <3>1, Zenon DEF CommitRLock, CommitRUnlock, ReadTypeOK
    <3>2. ASSUME NEW b \in Backends, ReadShard(l, b) PROVE ReadTypeOK'
      BY <3>2, Zenon DEF ReadShard, ReadTypeOK
    <3> QED
      BY <1>5, <3>1, <3>2, Zenon DEF ReadStep
  <2>2. UNCHANGED <<txnVars, conn, branch, tries, sessVars, logVars, chkVars, up,
                    faults, crashes>>
    BY <1>5, Zenon DEF ReadStep, CommitRLock, ReadShard, CommitRUnlock, txnVars
  <2>3. TxnTypeOK' /\ ShardTypeOK' /\ SessTypeOK' /\ LogTypeOK'
    BY <2>2, Zenon DEF TxnTypeOK, ShardTypeOK, SessTypeOK, LogTypeOK, txnVars,
       sessVars, logVars, chkVars
  <2> QED
    BY <2>1, <2>3, Zenon
<1>6. CASE Crash
  <2>1. ShardTypeOK'
    BY <1>6, ClosedType, Zenon DEF Crash, ShardTypeOK, ConnStates
  <2>2. LogTypeOK'
    <3>1. retrys' \in [Txns -> Entries] /\ crashes' \in 0 .. MaxCrashes
      BY <1>6, NoLogType, XaAssumption DEF Crash, LogTypeOK
    <3> QED
      BY <1>6, <3>1, Zenon DEF Crash, LogTypeOK
  <2>3. TxnTypeOK' /\ SessTypeOK' /\ ReadTypeOK'
    BY <1>6, Zenon DEF Crash, TxnTypeOK, SessTypeOK, ReadTypeOK, Phases,
       sessVars
  <2> QED
    BY <2>1, <2>2, <2>3, Zenon
<1>7. CASE Restart
  BY <1>7, Zenon DEF Restart, TxnTypeOK, ShardTypeOK, SessTypeOK, ReadTypeOK,
     LogTypeOK, txnVars, sessVars, readVars, chkVars
<1>8. CASE UNCHANGED vars
  BY <1>8, Zenon DEF vars, TxnTypeOK, ShardTypeOK, SessTypeOK, ReadTypeOK,
     LogTypeOK
<1> QED
  BY <1>1, <1>2, <1>3, <1>4, <1>5, <1>6, <1>7, <1>8, Zenon DEF Next

\* TypeOK is an invariant of XaCommit for any constants: in particular a pass
\* of xacheck only ever acts on a logged transaction.
THEOREM TypeCorrect == Spec => []TypeOK
<1>1. Init => TypeOK
  BY InitType, Zenon
<1>2. TypeOK /\ [Next]_vars => TypeOK'
  BY TypeStep, Zenon
<1> QED
  BY <1>1, <1>2, PTL DEF Spec

-----------------------------------------------------------------------------
(* The rounds. *)

\* Losing its session changes an unprepared branch only.
LEMMA DroppedBranch ==
  ASSUME NEW c \in ConnStates, NEW s \in BranchStates
  PROVE  Dropped(c, s) = s \/ (s \in {"active", "idle"} /\ Dropped(c, s) = "aborted")
BY Zenon DEF Dropped, Disconnected, BranchStates

\* A step that touches a transaction's branches at most by dropping
\* connections, and its phase at most by ending it, keeps its Decision.
LEMMA DecisionKept ==
  ASSUME SessTypeOK, NEW u \in Txns, Decision(u),
         part'[u] = part[u], goal'[u] = goal[u], reply'[u] = reply[u],
         \/ pc'[u] = pc[u] /\ todo'[u] = todo[u] /\ (u \in failed' <=> u \in failed)
         \/ pc'[u] = pc[u] /\ pc[u] \notin OneTry \cup Retrying
         \/ pc'[u] = "done",
         \A b \in Backends :
           \/ branch'[u][b] = branch[u][b]
           \/ branch[u][b] \in {"active", "idle"} /\ branch'[u][b] = "aborted",
         retrys'[u].state \in {"none", retrys[u].state, file[u].state},
         file'[u].state \in {"none", retrys[u].state, file[u].state}
  PROVE  Decision(u)'
<1>1. XaShards(u)' = XaShards(u)
  BY Zenon DEF XaShards
<1>2. XaShards(u) \subseteq Backends
  BY XaShardsType, Zenon
<1>3. /\ SomeCommitted(u)' <=> SomeCommitted(u)
      /\ Decided(u) => Decided(u)'
  BY <1>1, <1>2, Zenon DEF SomeCommitted, Decided
<1> QED
  BY <1>1, <1>2, <1>3 DEF Decision, LogAgrees, Early, Late, OneTry, Retrying

\* What one answer to XA START, END or PREPARE does to the branches.
LEMMA XaShardEffect ==
  ASSUME TypeOK, NEW t \in Txns, NEW b \in Backends, XaShard(t, b)
  PROVE  /\ \A u \in Txns, a \in Backends :
              <<u, a>> # <<t, b>> => branch'[u][a] = branch[u][a]
         /\ \/ branch'[t][b] = branch[t][b]
            \/ branch[t][b] \in {"none", "active", "idle"}
               /\ branch'[t][b] \in {"active", "idle", "prepared", "aborted"}
         /\ \A u \in Txns \ {t} : todo'[u] = todo[u] /\ (u \in failed' <=> u \in failed)
         /\ todo'[t] = todo[t] \ {b}
         /\ t \notin failed' => t \notin failed
         /\ t \notin failed' /\ pc[t] = "xaPrepare" => branch'[t][b] = "prepared"
<1> DEFINE cmd == Cmd(pc[t])
           c == Fetched(conn[t][b])
           s == branch[t][b]
<1>1. c \in ConnStates /\ s \in BranchStates
  BY FetchedType, Zenon DEF TypeOK, ShardTypeOK
<1>2. cmd \in {"start", "end", "prepare"} /\ (pc[t] = "xaPrepare" => cmd = "prepare")
  BY Zenon DEF XaShard, Cmd, OneTry
<1>3. \/ XaAccepted(t, b, cmd, c, s)
      \/ XaRejected(t, b, cmd, c, s)
      \/ XaRefused(t, b, c, s)
      \/ XaBroken(t, b, cmd, c, s)
  BY Zenon DEF XaShard
<1>4. Dropped(c, s) = s \/ (s \in {"active", "idle"} /\ Dropped(c, s) = "aborted")
  BY <1>1, DroppedBranch, Zenon
<1>5. /\ Accepts(cmd, c, s) => s \in {"none", "active", "idle"}
      /\ After(cmd) \in {"active", "idle", "prepared"}
      /\ Disconnected(After(cmd)) \in {"aborted", "prepared"}
      /\ cmd = "prepare" => After(cmd) = "prepared"
  BY <1>2, Zenon DEF Accepts, After, Disconnected
<1> HIDE DEF cmd, c
<1>6. \E d, r : /\ SetShard(t, b, d, r)
                /\ \/ r = s
                   \/ s \in {"none", "active", "idle"}
                      /\ r \in {"active", "idle", "prepared", "aborted"}
                /\ \/ Returns(t, b, TRUE)
                   \/ Returns(t, b, FALSE) /\ r = After(cmd)
  BY <1>3, <1>4, <1>5, Zenon DEF XaAccepted, XaRejected, XaRefused, XaBroken
<1>7. PICK d, r : /\ SetShard(t, b, d, r)
                  /\ \/ r = s
                     \/ s \in {"none", "active", "idle"}
                        /\ r \in {"active", "idle", "prepared", "aborted"}
                  /\ \/ Returns(t, b, TRUE)
                     \/ Returns(t, b, FALSE) /\ r = After(cmd)
  BY <1>6, Zenon
<1>8. branch' = [branch EXCEPT ![t][b] = r]
  BY <1>7, Zenon DEF SetShard
<1>9. /\ \A u \in Txns, a \in Backends :
           <<u, a>> # <<t, b>> => branch'[u][a] = branch[u][a]
      /\ branch'[t][b] = r
  BY <1>8, Zenon DEF TypeOK, ShardTypeOK
<1>10. /\ \A u \in Txns \ {t} : todo'[u] = todo[u] /\ (u \in failed' <=> u \in failed)
       /\ todo'[t] = todo[t] \ {b}
       /\ t \notin failed' => t \notin failed /\ r = After(cmd)
  BY <1>7, Zenon DEF Returns, TypeOK, TxnTypeOK
<1> QED
  BY <1>2, <1>5, <1>7, <1>9, <1>10, Zenon

\* A shard of XA START, XA END or XA PREPARE commits nothing, and a shard that
\* answers XA PREPARE without an error is prepared.
LEMMA XaShardDecision ==
  ASSUME TypeOK, DecisionInv, NEW t \in Txns, NEW b \in Backends, XaShard(t, b)
  PROVE  DecisionInv'
<1> SUFFICES ASSUME NEW u \in Txns PROVE Decision(u)'
  BY Zenon DEF DecisionInv
<1>1. Decision(u) /\ SessTypeOK
  BY Zenon DEF DecisionInv, TypeOK
<1>2. UNCHANGED <<pc, part, goal, reply, retrys, file>>
  BY Zenon DEF XaShard, sessVars, logVars
<1>3. CASE u # t
  <2>1. todo'[u] = todo[u] /\ (u \in failed' <=> u \in failed)
        /\ \A a \in Backends : branch'[u][a] = branch[u][a]
    BY <1>3, XaShardEffect
  <2> QED
    BY <1>1, <1>2, <2>1, DecisionKept, Zenon
<1>4. CASE u = t
  <2>1. /\ pc[t] \in OneTry /\ b \in todo[t] /\ b \in XaShards(t)
        /\ XaShards(t) \subseteq Backends
    BY <1>1, <1>4, XaShardsType, Zenon DEF XaShard, Decision
  <2>2. XaShards(t)' = XaShards(t)
    BY <1>2, Zenon DEF XaShards
  <2>3. /\ SomeCommitted(t)' => SomeCommitted(t)
        /\ Decided(t) => Decided(t)'
    BY <2>1, <2>2, XaShardEffect DEF SomeCommitted, Decided
  <2>4. pc[t] \in Early /\ pc[t] \notin Late \cup {"idle", "finish", "flush", "done"}
    BY <2>1, Zenon DEF Early, Late, OneTry
  <2> QED
    BY <1>1, <1>2, <1>4, <2>1, <2>2, <2>3, <2>4, XaShardEffect
    DEF Decision, LogAgrees
<1> QED
  BY <1>3, <1>4, Zenon

\* Running a statement (execute) commits no branch.
LEMMA ExecShardDecision ==
  ASSUME TypeOK, DecisionInv, NEW t \in Txns, NEW b \in Backends, ExecShard(t, b)
  PROVE  DecisionInv'
<1> SUFFICES ASSUME NEW u \in Txns PROVE Decision(u)'
  BY Zenon DEF DecisionInv
<1> DEFINE c == Fetched(conn[t][b])
           s == branch[t][b]
<1>1. Decision(u) /\ SessTypeOK
  BY Zenon DEF DecisionInv, TypeOK
<1>2. UNCHANGED <<pc, part, goal, reply, retrys, file>> /\ pc[t] = "execute"
  BY Zenon DEF ExecShard, logVars
<1>3. Dropped(c, s) = s \/ (s \in {"active", "idle"} /\ Dropped(c, s) = "aborted")
  BY DroppedBranch, FetchedType, Zenon DEF TypeOK, ShardTypeOK
<1>4. \E d, r : /\ SetShard(t, b, d, r)
                /\ r = s \/ (s \in {"active", "idle"} /\ r = "aborted")
  BY <1>3, Zenon DEF ExecShard, ExecOk, ExecRejected, ExecFailed
<1>5. \A a \in Backends :
        \/ branch'[u][a] = branch[u][a]
        \/ branch[u][a] \in {"active", "idle"} /\ branch'[u][a] = "aborted"
  BY <1>4 DEF SetShard, TypeOK, ShardTypeOK
<1>6. u # t => todo'[u] = todo[u] /\ (u \in failed' <=> u \in failed)
  BY Zenon DEF ExecShard, ExecOk, ExecRejected, ExecFailed, Returns, TypeOK,
     TxnTypeOK
<1>7. pc[t] \notin OneTry \cup Retrying
  BY <1>2, Zenon DEF OneTry, Retrying
<1> QED
  BY <1>1, <1>2, <1>5, <1>6, <1>7, DecisionKept, Zenon

\* What one attempt at XA COMMIT or XA ROLLBACK does to the branches.
LEMMA RetryShardEffect ==
  ASSUME TypeOK, NEW t \in Txns, NEW b \in Backends, RetryShard(t, b)
  PROVE  /\ \A u \in Txns, a \in Backends :
              <<u, a>> # <<t, b>> => branch'[u][a] = branch[u][a]
         /\ pc[t] = "xaCommit" /\ branch[t][b] \in {"prepared", "committed"} =>
              branch'[t][b] \in {branch[t][b], "committed"}
         /\ pc[t] = "xaRollback" => branch'[t][b] \in {branch[t][b], "aborted"}
         /\ \A u \in Txns \ {t} : todo'[u] = todo[u] /\ (u \in failed' <=> u \in failed)
         /\ todo'[t] \subseteq todo[t]
<1> DEFINE first == tries[t][b] = 0
           cmd == Cmd(pc[t])
           c == IF first THEN Fetched(conn[t][b]) ELSE "fresh"
           old == branch[t][b]
           s == IF first THEN branch[t][b]
                ELSE Dropped(conn[t][b], branch[t][b])
<1>1. \/ RetryAccepted(t, b, cmd, c, s)
      \/ RetryUnknownXid(t, b, cmd, c, s)
      \/ RetryDead(t, b, c, s)
      \/ RetryNotYet(t, b, c, s)
      \/ RetryBroken(t, b, cmd, c, s)
  BY Zenon DEF RetryShard
<1>2. /\ conn[t][b] \in ConnStates /\ c \in ConnStates
      /\ old \in BranchStates /\ s \in BranchStates
  BY FetchedType, BranchType, Zenon DEF TypeOK, ShardTypeOK, ConnStates
<1>3. s = old \/ (old \in {"active", "idle"} /\ s = "aborted")
  BY <1>2, DroppedBranch, Zenon
<1>4. Dropped(c, s) = s \/ (s \in {"active", "idle"} /\ Dropped(c, s) = "aborted")
  BY <1>2, DroppedBranch, Zenon
<1>5. /\ pc[t] = "xaCommit" => After(cmd) = "committed"
      /\ pc[t] = "xaRollback" => After(cmd) = "aborted"
      /\ Accepts(cmd, c, s) /\ pc[t] \in Retrying => s \in {"prepared", "idle"}
  BY Zenon DEF Cmd, After, Accepts, Retrying
<1> HIDE DEF first, cmd, c, s
<1>6. PICK d, r : /\ SetShard(t, b, d, r)
                  /\ \/ r = s
                     \/ s \in {"active", "idle"} /\ r = "aborted"
                     \/ r = After(cmd)
  BY <1>1, <1>4, Zenon DEF RetryAccepted, RetryUnknownXid, RetryDead,
     RetryNotYet, RetryBroken
<1>7. branch' = [branch EXCEPT ![t][b] = r]
  BY <1>6, Zenon DEF SetShard
<1>8. /\ \A u \in Txns, a \in Backends :
           <<u, a>> # <<t, b>> => branch'[u][a] = branch[u][a]
      /\ branch'[t][b] = r
  BY <1>7, Zenon DEF TypeOK, ShardTypeOK
<1>9. UNCHANGED <<todo, failed>> \/ \E e \in BOOLEAN : Returns(t, b, e)
  BY <1>1, Zenon DEF RetryAccepted, RetryUnknownXid, RetryDead, RetryNotYet,
     RetryBroken, TryAgain
<1>10. /\ \A u \in Txns \ {t} : todo'[u] = todo[u] /\ (u \in failed' <=> u \in failed)
       /\ todo'[t] \subseteq todo[t]
  BY <1>9, Zenon DEF Returns, TypeOK, TxnTypeOK
<1> QED
  BY <1>3, <1>5, <1>6, <1>8, <1>10, Zenon

\* A shard of the commit or rollback round acts only under the decision that
\* xaCommit or xaRollback was called with.
LEMMA RetryShardDecision ==
  ASSUME TypeOK, DecisionInv, NEW t \in Txns, NEW b \in Backends, RetryShard(t, b)
  PROVE  DecisionInv'
<1> SUFFICES ASSUME NEW u \in Txns PROVE Decision(u)'
  BY Zenon DEF DecisionInv
<1>1. Decision(u) /\ SessTypeOK
  BY Zenon DEF DecisionInv, TypeOK
<1>2. UNCHANGED <<pc, part, goal, reply, retrys, file>>
  BY Zenon DEF RetryShard, sessVars, logVars
<1>3. CASE u # t
  <2>1. todo'[u] = todo[u] /\ (u \in failed' <=> u \in failed)
        /\ \A a \in Backends : branch'[u][a] = branch[u][a]
    BY <1>3, RetryShardEffect, ZenonT(30)
  <2> QED
    BY <1>1, <1>2, <2>1, DecisionKept, Zenon
<1>4. CASE u = t
  <2>1. /\ pc[t] \in Retrying /\ b \in XaShards(t)
        /\ todo'[t] \subseteq XaShards(t)
        /\ XaShards(t) \subseteq Backends
    BY <1>1, <1>4, XaShardsType, RetryShardEffect, Zenon DEF RetryShard,
       Decision
  <2>2. XaShards(t)' = XaShards(t)
    BY <1>2, Zenon DEF XaShards
  <2>3. \A a \in Backends : branch'[t][a] # "none" => a \in XaShards(t)
    BY <1>1, <1>4, <2>1, RetryShardEffect DEF Decision
  <2>4. CASE pc[t] = "xaCommit"
    <3>1. goal[t] = "commit" /\ Decided(t)
      BY <1>1, <1>4, <2>4, Zenon DEF Decision, Late
    <3>2. Decided(t)'
      BY <2>1, <2>2, <2>4, <3>1, RetryShardEffect DEF Decided
    <3> QED
      BY <1>1, <1>2, <1>4, <2>1, <2>2, <2>3, <2>4, <3>1, <3>2, ZenonT(30)
      DEF Decision, LogAgrees, Early, Late
  <2>5. CASE pc[t] = "xaRollback"
    <3>1. goal[t] # "commit" /\ ~SomeCommitted(t)
      BY <1>1, <1>4, <2>5, Zenon DEF Decision, Late
    <3>2. ~SomeCommitted(t)'
      BY <2>5, <3>1, RetryShardEffect DEF SomeCommitted
    <3> QED
      BY <1>1, <1>2, <1>4, <2>1, <2>2, <2>3, <2>5, <3>1, <3>2, Zenon
      DEF Decision, LogAgrees, Early, Late
  <2> QED
    BY <2>1, <2>4, <2>5, Zenon DEF Retrying
<1> QED
  BY <1>3, <1>4, Zenon

-----------------------------------------------------------------------------
(* The steps between the rounds. *)

\* A transaction that has prepared nothing yet, or has failed to, moves on to
\* its next round, to its client or to Finish with an error.
LEMMA EarlyMoved ==
  ASSUME NEW t \in Txns, Decision(t), pc[t] \in Early,
         \A b \in Backends : branch'[t][b] = branch[t][b],
         \A b \in Backends : branch[t][b] # "none" => b \in XaShards(t)',
         retrys'[t] = retrys[t], file'[t] = file[t],
         reply'[t] \in {reply[t], "none", "err"},
         pc'[t] \in {"xaStart", "execute", "open", "xaEnd", "xaPrepare", "finish"},
         pc'[t] = "open" => t \in Multi,
         pc'[t] \in OneTry => todo'[t] \subseteq XaShards(t)',
         pc'[t] = "xaPrepare" => XaShards(t)' \subseteq todo'[t],
         pc'[t] = "finish" => reply'[t] = "err"
  PROVE  Decision(t)'
<1>1. ~SomeCommitted(t) /\ reply[t] # "ok"
      /\ retrys[t].state = "none" /\ file[t].state = "none"
  BY Zenon DEF Decision, LogAgrees, Early
<1>2. ~SomeCommitted(t)' /\ reply'[t] # "ok"
      /\ retrys'[t].state = "none" /\ file'[t].state = "none"
  BY <1>1, Zenon DEF SomeCommitted
<1>3. LogAgrees(t, retrys[t])' /\ LogAgrees(t, file[t])'
  BY <1>2, Zenon DEF LogAgrees
<1> QED
  BY <1>2, <1>3, Zenon DEF Decision, Late, OneTry, Retrying

\* A transaction whose decision is taken moves on along the commit or rollback
\* round, the log and Finish.
LEMMA LateMoved ==
  ASSUME NEW t \in Txns, Decision(t),
         \A b \in Backends : branch'[t][b] = branch[t][b],
         part'[t] = part[t], goal'[t] = goal[t], reply'[t] = reply[t],
         reply[t] # "ok", XaShards(t) \subseteq Backends,
         goal[t] = "commit" => Decided(t),
         goal[t] # "commit" => ~SomeCommitted(t),
         pc'[t] \in Late \cup {"finish"},
         pc'[t] \in Retrying => todo'[t] \subseteq XaShards(t),
         pc'[t] = "xaCommit" => goal[t] = "commit",
         pc'[t] = "xaRollback" => goal[t] # "commit",
         \A s \in {retrys'[t].state, file'[t].state} :
           \/ s = "none"
           \/ s = LogState(t) /\ pc'[t] \in {"flush", "finish"}
  PROVE  Decision(t)'
<1>1. XaShards(t)' = XaShards(t)
  BY Zenon DEF XaShards
<1>2. (SomeCommitted(t)' <=> SomeCommitted(t)) /\ (Decided(t)' <=> Decided(t))
  BY <1>1, Zenon DEF SomeCommitted, Decided
<1>3. LogAgrees(t, retrys[t])' /\ LogAgrees(t, file[t])'
  BY <1>2, Zenon DEF LogAgrees
<1>4. \A b \in Backends : branch'[t][b] # "none" => b \in XaShards(t)
  BY Zenon DEF Decision
<1> QED
  BY <1>1, <1>2, <1>3, <1>4, Zenon DEF Decision, Early, Late, OneTry, Retrying

\* The steps up to XA PREPARE, and the errors that end them.
LEMMA EarlyStepDecision ==
  ASSUME TypeOK, NEW t \in Txns, Decision(t),
         \/ BeginSingle(t) \/ BeginMulti(t) \/ StartDone(t) \/ Statement(t)
         \/ ExecDone(t) \/ \E g \in {"commit", "rollback"} : Command(t, g)
         \/ EndDone(t) /\ (t \in failed \/ (pc[t] = "xaEnd" /\ goal[t] # "phaseOne"))
  PROVE  Decision(t)'
<1>1. /\ pc \in [Txns -> Phases] /\ todo \in [Txns -> SUBSET Backends]
      /\ part \in [Txns -> SUBSET Backends] /\ reply \in [Txns -> {"none", "ok", "err"}]
  BY Zenon DEF TypeOK, TxnTypeOK, SessTypeOK
<1>2. /\ pc[t] = "open" => t \in Multi
      /\ pc[t] = "idle" => \A b \in Backends : branch[t][b] = "none"
      /\ \A b \in Backends : branch[t][b] # "none" => b \in XaShards(t)
  BY Zenon DEF Decision
<1>3. pc[t] \in Early /\ UNCHANGED <<branch, retrys, file>>
  BY Zenon DEF BeginSingle, BeginMulti, StartDone, Statement, ExecDone,
     Command, EndDone, Early, logVars
<1>4. CASE BeginSingle(t)
  <2>1. /\ pc'[t] = "xaStart" /\ reply'[t] = reply[t] /\ pc[t] = "idle"
        /\ todo'[t] \subseteq XaShards(t)'
    BY <1>1, <1>4, Zenon DEF BeginSingle, Round, XaShards
  <2> QED
    BY <1>2, <1>3, <2>1, EarlyMoved, Zenon
<1>5. CASE BeginMulti(t)
  <2>1. /\ pc'[t] = "xaStart" /\ reply'[t] = reply[t]
        /\ todo'[t] = Backends /\ XaShards(t)' = Backends
    BY <1>1, <1>5, Zenon DEF BeginMulti, Round, XaShards, sessVars
  <2> QED
    BY <1>2, <1>3, <2>1, EarlyMoved, Zenon
<1>6. CASE StartDone(t)
  <2>1. /\ pc'[t] \in {"execute", "xaEnd", "open", "finish"}
        /\ reply'[t] \in {reply[t], "err"}
        /\ pc'[t] = "open" => t \in Multi
        /\ pc'[t] = "xaEnd" => todo'[t] = XaShards(t)
        /\ pc'[t] = "finish" => reply'[t] = "err"
    BY <1>1, <1>6, Zenon DEF StartDone, Round, Goto
  <2>2. XaShards(t)' = XaShards(t)
    BY <1>6, Zenon DEF StartDone, XaShards
  <2> QED
    BY <1>2, <1>3, <2>1, <2>2, EarlyMoved, Zenon DEF OneTry
<1>7. CASE Statement(t)
  <2>1. pc'[t] = "execute" /\ reply'[t] = reply[t] /\ pc[t] = "open"
    BY <1>1, <1>7, Zenon DEF Statement, Round
  <2>2. XaShards(t)' = Backends
    BY <1>2, <2>1, Zenon DEF XaShards
  <2> QED
    BY <1>3, <2>1, <2>2, EarlyMoved, Zenon DEF OneTry
<1>8. CASE ExecDone(t)
  <2>1. /\ pc'[t] \in {"open", "xaEnd"} /\ reply'[t] = reply[t]
        /\ pc'[t] = "open" => t \in Multi
        /\ pc'[t] = "xaEnd" => todo'[t] = XaShards(t)
    BY <1>1, <1>8, Zenon DEF ExecDone, Round, Goto
  <2>2. XaShards(t)' = XaShards(t)
    BY <1>8, Zenon DEF ExecDone, XaShards
  <2> QED
    BY <1>2, <1>3, <2>1, <2>2, EarlyMoved, Zenon DEF OneTry
<1>9. ASSUME NEW g \in {"commit", "rollback"}, Command(t, g)
      PROVE  Decision(t)'
  <2>1. /\ pc'[t] = "xaEnd" /\ reply'[t] = "none" /\ todo'[t] = Backends
        /\ pc[t] = "open"
    BY <1>1, <1>9, Zenon DEF Command, Round
  <2>2. XaShards(t)' = Backends
    BY <1>2, <2>1, Zenon DEF XaShards
  <2> QED
    BY <1>3, <2>1, <2>2, EarlyMoved, Zenon
<1>10. CASE EndDone(t) /\ (t \in failed \/ (pc[t] = "xaEnd" /\ goal[t] # "phaseOne"))
  <2>1. /\ pc'[t] \in {"open", "finish", "xaPrepare"}
        /\ reply'[t] \in {reply[t], "err"}
        /\ pc'[t] = "open" => t \in Multi
        /\ pc'[t] = "xaPrepare" => todo'[t] = XaShards(t)
        /\ pc'[t] = "finish" => reply'[t] = "err"
    BY <1>1, <1>10, Zenon DEF EndDone, Round, Goto
  <2>2. XaShards(t)' = XaShards(t)
    BY <1>10, Zenon DEF EndDone, XaShards
  <2> QED
    BY <1>2, <1>3, <2>1, <2>2, EarlyMoved, Zenon DEF OneTry
<1> QED
  BY <1>4, <1>5, <1>6, <1>7, <1>8, <1>9, <1>10, Zenon

\* The steps from the decision to Finish.
LEMMA LateStepDecision ==
  ASSUME TypeOK, NEW t \in Txns, Decision(t),
         \/ EndDone(t) /\ t \notin failed /\ (pc[t] = "xaPrepare" \/ goal[t] = "phaseOne")
         \/ CommitLock(t) \/ CommitDone(t) \/ WriteXaCommitErrLog(t)
         \/ flushXaCommitErrLog(t)
  PROVE  Decision(t)'
<1>1. /\ pc \in [Txns -> Phases] /\ todo \in [Txns -> SUBSET Backends]
      /\ retrys \in [Txns -> Entries] /\ XaShards(t) \subseteq Backends
  BY XaShardsType DEF TypeOK, TxnTypeOK, SessTypeOK, LogTypeOK
<1>2. retrys[t].state \in {"none", "commit", "rollback"}
  BY <1>1 DEF Entries
<1>3. UNCHANGED <<branch, part, goal, reply>>
  BY Zenon DEF EndDone, CommitLock, CommitDone, WriteXaCommitErrLog,
     flushXaCommitErrLog, sessVars
<1>4. pc[t] \in Late \cup {"xaEnd", "xaPrepare"}
  BY Zenon DEF EndDone, CommitLock, CommitDone, WriteXaCommitErrLog,
     flushXaCommitErrLog, Late, Retrying
<1>5. reply[t] # "ok"
  BY <1>4, Zenon DEF Decision, Late
<1>6. CASE EndDone(t) /\ t \notin failed /\ (pc[t] = "xaPrepare" \/ goal[t] = "phaseOne")
  <2>1. /\ pc'[t] = "lock" /\ UNCHANGED <<retrys, file>>
        /\ pc[t] \in {"xaEnd", "xaPrepare"} /\ todo[t] = {}
    BY <1>1, <1>6, Zenon DEF EndDone, Goto, logVars
  <2>2. ~SomeCommitted(t) /\ retrys[t].state = "none" /\ file[t].state = "none"
    BY <2>1, Zenon DEF Decision, LogAgrees, Early
  <2>3. pc[t] = "xaPrepare" => Decided(t)
    BY <1>6, <2>1 DEF Decision, Decided
  <2>4. goal[t] = "commit" => Decided(t)
    BY <1>6, <2>3, Zenon
  <2> QED
    BY <1>1, <1>3, <1>5, <2>1, <2>2, <2>4, LateMoved, Zenon DEF Late, Retrying
<1> SUFFICES ASSUME \/ CommitLock(t) \/ CommitDone(t) \/ WriteXaCommitErrLog(t)
                    \/ flushXaCommitErrLog(t)
             PROVE  Decision(t)'
  BY <1>6, Zenon
<1>7. /\ goal[t] = "commit" => Decided(t)
      /\ goal[t] # "commit" => ~SomeCommitted(t)
  BY Zenon DEF CommitLock, CommitDone, WriteXaCommitErrLog, flushXaCommitErrLog,
     Decision, Late, Retrying
<1>8. \A e \in {retrys[t], file[t]} :
        e.state # "none" =>
          /\ pc[t] \in {"flush", "finish", "done"}
          /\ e.state = "commit" => goal[t] = "commit"
          /\ e.state = "rollback" => goal[t] # "commit"
  BY DEF Decision, LogAgrees
<1>9. CASE CommitLock(t)
  <2>1. /\ pc'[t] = IF goal[t] = "commit" THEN "xaCommit" ELSE "xaRollback"
        /\ todo'[t] = XaShards(t) /\ pc[t] = "lock" /\ UNCHANGED <<retrys, file>>
    BY <1>1, <1>9, Zenon DEF CommitLock, Round, logVars
  <2>2. retrys[t].state = "none" /\ file[t].state = "none"
    BY <1>8, <2>1, Zenon
  <2> QED
    BY <1>1, <1>3, <1>5, <1>7, <2>1, <2>2, LateMoved, Zenon DEF Late, Retrying
<1>10. CASE CommitDone(t)
  <2>1. /\ pc'[t] \in {"writeLog", "finish"} /\ pc[t] \in Retrying
        /\ UNCHANGED <<retrys, file>>
    BY <1>1, <1>10, Zenon DEF CommitDone, Goto, logVars
  <2>2. retrys[t].state = "none" /\ file[t].state = "none"
    BY <1>8, <2>1, Zenon DEF Retrying
  <2> QED
    BY <1>1, <1>3, <1>5, <1>7, <2>1, <2>2, LateMoved, Zenon DEF Late, Retrying
<1>11. CASE WriteXaCommitErrLog(t)
  <2>1. /\ pc'[t] = "flush" /\ pc[t] = "writeLog" /\ file' = file
        /\ retrys'[t].state = LogState(t)
    BY <1>1, <1>11 DEF WriteXaCommitErrLog, Goto
  <2>2. file[t].state = "none"
    BY <1>8, <2>1, Zenon
  <2> QED
    BY <1>1, <1>3, <1>5, <1>7, <2>1, <2>2, LateMoved, Zenon DEF Late, Retrying
<1>12. CASE flushXaCommitErrLog(t)
  <2>1. pc'[t] = "finish" /\ file' = retrys /\ retrys' = retrys
    BY <1>1, <1>12, Zenon DEF flushXaCommitErrLog, Goto
  <2>2. retrys[t].state \in {"none", LogState(t)}
    BY <1>2, <1>8, Zenon
  <2> QED
    BY <1>1, <1>3, <1>5, <1>7, <2>1, <2>2, LateMoved, Zenon DEF Late, Retrying
<1> QED
  BY <1>9, <1>10, <1>11, <1>12, Zenon

\* Finish answers the client and may close the connections of unprepared
\* branches: "ok" to a COMMIT stands for a decision to commit.
LEMMA FinishDecision ==
  ASSUME TypeOK, NEW t \in Txns, Decision(t), Finish(t)
  PROVE  Decision(t)'
<1>1. \A b \in Backends :
        \/ branch'[t][b] = branch[t][b]
        \/ branch[t][b] \in {"active", "idle"} /\ branch'[t][b] = "aborted"
  BY DroppedBranch DEF Finish, Closed, TypeOK, ShardTypeOK
<1>2. /\ pc[t] = "finish" /\ pc'[t] = "done" /\ UNCHANGED <<part, goal, retrys, file>>
      /\ reply'[t] \in {reply[t], "err", "ok"}
      /\ reply'[t] = "ok" => reply[t] # "err"
  BY Zenon DEF Finish, Goto, logVars, TypeOK, TxnTypeOK, SessTypeOK
<1>3. XaShards(t)' = XaShards(t) /\ XaShards(t) \subseteq Backends
  BY <1>2, XaShardsType, Zenon DEF XaShards, TypeOK
<1>4. /\ SomeCommitted(t)' <=> SomeCommitted(t)
      /\ Decided(t) => Decided(t)'
  BY <1>1, <1>3 DEF SomeCommitted, Decided
<1>5. /\ goal[t] = "commit" => reply[t] = "err" \/ Decided(t)
      /\ SomeCommitted(t) => Decided(t)
  BY <1>2, Zenon DEF Decision
<1>6. LogAgrees(t, retrys[t])' /\ LogAgrees(t, file[t])'
  BY <1>2, <1>4, Zenon DEF Decision, LogAgrees
<1>7. \A b \in Backends : branch'[t][b] # "none" => b \in XaShards(t)'
  BY <1>1, <1>3 DEF Decision
<1> QED
  BY <1>2, <1>4, <1>5, <1>6, <1>7 DEF Decision, Early, Late, OneTry, Retrying

\* The steps between the rounds move the phase and leave the branches alone,
\* but for Finish and Abort, which close connections.
LEMMA TxnStepDecision ==
  ASSUME TypeOK, DecisionInv, NEW t \in Txns, TxnStep(t)
  PROVE  DecisionInv'
<1> SUFFICES ASSUME NEW u \in Txns PROVE Decision(u)'
  BY Zenon DEF DecisionInv
<1>1. Decision(u) /\ SessTypeOK
  BY Zenon DEF DecisionInv, TypeOK
<1>2. CASE u # t
  <2>1. /\ part'[u] = part[u] /\ goal'[u] = goal[u] /\ reply'[u] = reply[u]
        /\ pc'[u] = pc[u] /\ todo'[u] = todo[u]
        /\ (u \in failed' <=> u \in failed)
    BY <1>2, Zenon DEF TypeOK, TxnTypeOK, SessTypeOK, TxnStep, BeginSingle,
       BeginMulti, StartDone, Statement, ExecDone, Command, EndDone, CommitLock,
       CommitDone, WriteXaCommitErrLog, flushXaCommitErrLog, Finish, Abort,
       Round, Goto, sessVars
  <2>2. branch'[u] = branch[u]
    BY <1>2, Zenon DEF TypeOK, ShardTypeOK, TxnStep, BeginSingle, BeginMulti,
       StartDone, Statement, ExecDone, Command, EndDone, CommitLock, CommitDone,
       WriteXaCommitErrLog, flushXaCommitErrLog, Finish, Abort
  <2>3. retrys'[u] = retrys[u] /\ file'[u] \in {retrys[u], file[u]}
    BY <1>2, Zenon DEF TypeOK, LogTypeOK, TxnStep, BeginSingle, BeginMulti,
       StartDone, Statement, ExecDone, Command, EndDone, CommitLock, CommitDone,
       WriteXaCommitErrLog, flushXaCommitErrLog, Finish, Abort, logVars
  <2> QED
    BY <1>1, <2>1, <2>2, <2>3, DecisionKept, Zenon
<1>3. ASSUME Abort(t) PROVE Decision(t)'
  <2>1. \A b \in Backends :
          \/ branch'[t][b] = branch[t][b]
          \/ branch[t][b] \in {"active", "idle"} /\ branch'[t][b] = "aborted"
    BY <1>3, DroppedBranch, Zenon DEF Abort, Closed, TypeOK, ShardTypeOK
  <2>2. UNCHANGED <<part, goal, reply, retrys, file>> /\ pc'[t] = "done"
    BY <1>3, Zenon DEF Abort, Goto, sessVars, logVars, TypeOK, TxnTypeOK
  <2>3. Decision(t) /\ SessTypeOK
    BY Zenon DEF DecisionInv, TypeOK
  <2> QED
    BY <2>1, <2>2, <2>3, DecisionKept, Zenon
<1>4. CASE u = t
  <2>1. EndDone(t) => \/ t \in failed
                      \/ pc[t] = "xaEnd" /\ goal[t] # "phaseOne"
                      \/ t \notin failed /\ (pc[t] = "xaPrepare" \/ goal[t] = "phaseOne")
    BY Zenon DEF EndDone
  <2> QED
    BY <1>1, <1>3, <1>4, <2>1, EarlyStepDecision, LateStepDecision,
       FinishDecision, Zenon DEF TxnStep
<1> QED
  BY <1>2, <1>4, Zenon

-----------------------------------------------------------------------------
(* xacheck, crashes and the theorems. *)

\* One answer to xacheck's XA COMMIT or XA ROLLBACK: the logged decision is
\* carried out on one shard of the logged transaction.
LEMMA XaRetryShardEffect ==
  ASSUME TypeOK, NEW b \in Backends, XaRetryShard(b)
  PROVE  /\ xcur \in Txns /\ retrys[xcur].state \in {"commit", "rollback"}
         /\ \A u \in Txns, a \in Backends :
              <<u, a>> # <<xcur, b>> => branch'[u][a] = branch[u][a]
         /\ \/ branch'[xcur][b] = branch[xcur][b]
            \/ /\ branch[xcur][b] = "prepared"
               /\ branch'[xcur][b] = IF retrys[xcur].state = "commit"
                                     THEN "committed" ELSE "aborted"
<1>1. xcur \in Txns /\ retrys[xcur].state \in {"commit", "rollback"}
  BY Zenon DEF XaRetryShard, TypeOK, LogTypeOK, Entries
<1>2. After(retrys[xcur].state) =
        IF retrys[xcur].state = "commit" THEN "committed" ELSE "aborted"
  BY <1>1, Zenon DEF After
<1>3. PICK r : /\ branch' = [branch EXCEPT ![xcur][b] = r]
               /\ \/ r = branch[xcur][b]
                  \/ branch[xcur][b] = "prepared" /\ r = After(retrys[xcur].state)
  BY Zenon DEF XaRetryShard
<1> QED
  BY <1>1, <1>2, <1>3, Zenon DEF TypeOK, ShardTypeOK

\* xacheck carries out, drops or keeps what it logged, and decides nothing.
LEMMA CheckStepDecision ==
  ASSUME TypeOK, DecisionInv, CheckStep
  PROVE  DecisionInv'
<1> SUFFICES ASSUME NEW u \in Txns PROVE Decision(u)'
  BY Zenon DEF DecisionInv
<1>1. Decision(u) /\ SessTypeOK /\ XaShards(u) \subseteq Backends
  BY XaShardsType, Zenon DEF DecisionInv, TypeOK
<1>2. UNCHANGED <<pc, todo, failed, part, goal, reply>>
  BY Zenon DEF CheckStep, XaCommitsRetry, XaRecover, XaRetryShard, XaResolve,
     XaFlush, txnVars, sessVars
<1>3. CASE XaCommitsRetry \/ XaRecover \/ XaResolve \/ XaFlush
  <2>1. UNCHANGED branch
    BY <1>3, Zenon DEF XaCommitsRetry, XaRecover, XaResolve, XaFlush
  <2>2. file'[u] \in {retrys[u], file[u]}
    BY <1>3, Zenon DEF XaCommitsRetry, XaRecover, XaResolve, XaFlush, logVars
  <2>3. retrys'[u].state \in {"none", retrys[u].state}
    <3>1. CASE XaResolve
      <4>1. xcur \in Txns /\ retrys[xcur] \in Entries
        BY <3>1, Zenon DEF XaResolve, TypeOK, LogTypeOK
      <4>2. \/ retrys' = [retrys EXCEPT ![xcur] = NoLog]
            \/ retrys' = [retrys EXCEPT ![xcur].times = @ - 1]
        BY <3>1, Zenon DEF XaResolve
      <4> QED
        BY <4>1, <4>2 DEF NoLog, TypeOK, LogTypeOK, Entries
    <3>2. CASE UNCHANGED retrys
      BY <3>2, Zenon
    <3> QED
      BY <1>3, <3>1, <3>2, Zenon DEF XaCommitsRetry, XaRecover, XaFlush, logVars
  <2> QED
    BY <1>1, <1>2, <2>1, <2>2, <2>3, DecisionKept, Zenon
<1>4. ASSUME NEW b \in Backends, XaRetryShard(b)
      PROVE  Decision(u)'
  <2>1. UNCHANGED <<retrys, file>>
    BY <1>4, Zenon DEF XaRetryShard, logVars
  <2>2. CASE u # xcur \/ branch'[xcur][b] = branch[xcur][b]
    <3>1. \A a \in Backends : branch'[u][a] = branch[u][a]
      BY <1>4, <2>2, XaRetryShardEffect, Zenon
    <3> QED
      BY <1>1, <1>2, <2>1, <3>1, DecisionKept, Zenon
  <2>3. CASE u = xcur /\ branch'[xcur][b] # branch[xcur][b]
    <3>1. /\ branch[u][b] = "prepared"
          /\ \A a \in Backends \ {b} : branch'[u][a] = branch[u][a]
          /\ XaShards(u)' = XaShards(u)
      BY <1>2, <1>4, <2>3, XaRetryShardEffect, Zenon DEF XaShards
    <3>2. pc[u] \in {"flush", "finish", "done"}
      BY <1>1, <1>4, <2>3, XaRetryShardEffect, Zenon DEF Decision, LogAgrees
    <3>3. CASE retrys[u].state = "commit"
      <4>1. goal[u] = "commit" /\ Decided(u)
        BY <1>1, <3>3, Zenon DEF Decision, LogAgrees
      <4>2. branch'[u][b] = "committed"
        BY <1>4, <2>3, <3>3, XaRetryShardEffect, Zenon
      <4>3. Decided(u)'
        BY <1>1, <3>1, <4>1, <4>2, Zenon DEF Decided
      <4> QED
        BY <1>1, <1>2, <2>1, <3>1, <3>2, <4>1, <4>2, <4>3, Zenon
        DEF Decision, LogAgrees, Early, Late, OneTry, Retrying
    <3>4. CASE retrys[u].state = "rollback"
      <4>1. goal[u] # "commit" /\ ~SomeCommitted(u)
        BY <1>1, <3>4, Zenon DEF Decision, LogAgrees
      <4>2. branch'[u][b] = "aborted"
        BY <1>4, <2>3, <3>4, XaRetryShardEffect, Zenon
      <4>3. ~SomeCommitted(u)'
        BY <3>1, <4>1, <4>2, Zenon DEF SomeCommitted
      <4> QED
        BY <1>1, <1>2, <2>1, <3>1, <3>2, <4>1, <4>2, <4>3, Zenon
        DEF Decision, LogAgrees, Early, Late, OneTry, Retrying
    <3> QED
      BY <1>4, <2>3, <3>3, <3>4, XaRetryShardEffect, Zenon
  <2> QED
    BY <2>2, <2>3, Zenon
<1> QED
  BY <1>3, <1>4, Zenon DEF CheckStep

\* Before any transaction there is nothing to disagree about.
LEMMA InitDecision == Init => DecisionInv
BY DEF Init, DecisionInv, Decision, LogAgrees, NoLog, SomeCommitted, Decided,
   Early, Late, OneTry, Retrying

\* DecisionInv is inductive: no step of a session, a shard, xacheck, a reader, a
\* crash or a restart breaks it.
LEMMA DecisionStep == TypeOK /\ DecisionInv /\ [Next]_vars => DecisionInv'
<1> SUFFICES ASSUME TypeOK, DecisionInv, [Next]_vars PROVE DecisionInv'
  BY Zenon
<1>1. ASSUME NEW t \in Txns, TxnStep(t) PROVE DecisionInv'
  BY <1>1, TxnStepDecision, Zenon
<1>2. ASSUME NEW t \in Txns, NEW b \in Backends, ShardStep(t, b)
      PROVE  DecisionInv'
  BY <1>2, XaShardDecision, ExecShardDecision, RetryShardDecision, Zenon DEF
     ShardStep
<1>3. CASE CheckStep
  BY <1>3, CheckStepDecision, Zenon
<1>4. ASSUME NEW v \in Txns, NEW a \in Backends
      PROVE  \/ Closed(v)[a] = branch[v][a]
             \/ branch[v][a] \in {"active", "idle"} /\ Closed(v)[a] = "aborted"
  BY DroppedBranch, Zenon DEF Closed, TypeOK, ShardTypeOK
<1> SUFFICES ASSUME NEW u \in Txns,
                    \/ \E t \in Txns, b \in Backends : ConnLost(t, b)
                    \/ \E l \in Legs : ReadStep(l)
                    \/ Crash \/ Restart \/ UNCHANGED vars
             PROVE  Decision(u)'
  BY <1>1, <1>2, <1>3, Zenon DEF Next, DecisionInv
<1>5. Decision(u) /\ SessTypeOK
  BY Zenon DEF DecisionInv, TypeOK
<1>6. ASSUME NEW t \in Txns, NEW b \in Backends, ConnLost(t, b)
      PROVE  Decision(u)'
  <2>1. \A a \in Backends :
          \/ branch'[u][a] = branch[u][a]
          \/ branch[u][a] \in {"active", "idle"} /\ branch'[u][a] = "aborted"
    BY <1>4, <1>6, Zenon DEF ConnLost, SetShard, TypeOK, ShardTypeOK
  <2>2. UNCHANGED <<pc, todo, failed, part, goal, reply, retrys, file>>
    BY <1>6, Zenon DEF ConnLost, sessVars, logVars
  <2> QED
    BY <1>5, <2>1, <2>2, DecisionKept, Zenon
<1>7. ASSUME \/ UNCHANGED vars
             \/ \E l \in Legs : ReadStep(l)
      PROVE  Decision(u)'
  <2>1. UNCHANGED <<pc, todo, failed, part, goal, reply, branch, retrys, file>>
    BY <1>7, Zenon DEF vars, ReadStep, CommitRLock, ReadShard, CommitRUnlock,
       txnVars, sessVars, logVars
  <2> QED
    BY <1>5, <2>1, DecisionKept, Zenon
<1>8. CASE Restart
  <2>1. /\ UNCHANGED <<pc, todo, failed, part, goal, reply, branch, file>>
        /\ retrys' = file
    BY <1>8, Zenon DEF Restart, txnVars, sessVars
  <2> QED
    BY <1>5, <2>1, DecisionKept, Zenon
<1>9. CASE Crash
  <2>1. UNCHANGED <<part, goal, reply, failed, file>>
        /\ retrys'[u].state = "none"
    BY <1>9, Zenon DEF Crash, sessVars, NoLog
  <2>2. \A a \in Backends :
          \/ branch'[u][a] = branch[u][a]
          \/ branch[u][a] \in {"active", "idle"} /\ branch'[u][a] = "aborted"
    BY <1>4, <1>9, Zenon DEF Crash
  <2>3. \/ pc'[u] = pc[u] /\ pc[u] \notin OneTry \cup Retrying
        \/ pc'[u] = "done"
    BY <1>9, Zenon DEF Crash, OneTry, Retrying
  <2> QED
    BY <1>5, <2>1, <2>2, <2>3, DecisionKept, Zenon
<1> QED
  BY <1>6, <1>7, <1>8, <1>9, Zenon

\* The inductive invariant holds in every reachable state: types, and no
\* backend commits before the transaction is decided (executeXA, XaCheck).
THEOREM DecisionCorrect == Spec => []XaInv
<1>1. Init => XaInv
  BY InitType, InitDecision, Zenon DEF XaInv
<1>2. XaInv /\ [Next]_vars => XaInv'
  BY TypeStep, DecisionStep, Zenon DEF XaInv
<1> QED
  BY <1>1, <1>2, PTL DEF Spec

\* No transaction is committed on one backend and rolled back on another, for
\* any number of transactions, backends, faults, retries and crashes.
THEOREM Atomicity == Spec => []XaAtomicity
<1>1. TypeOK /\ DecisionInv => XaAtomicity
  <2> SUFFICES ASSUME TypeOK, DecisionInv, NEW t \in Txns,
                      NEW a \in Backends, NEW b \in Backends,
                      branch[t][a] = "committed", branch[t][b] = "aborted"
               PROVE  FALSE
    BY Zenon DEF XaAtomicity
  <2>1. Decided(t) /\ b \in XaShards(t)
    BY Zenon DEF DecisionInv, Decision, SomeCommitted
  <2> QED
    BY <2>1, Zenon DEF Decided
<1> QED
  BY <1>1, DecisionCorrect, PTL DEF XaInv

=============================================================================
