-------------------------- MODULE XaPromiseProofs ---------------------------
(***************************************************************************)
(* What others see of a transaction.  A client sees AtomicCommit: every step *)
(* is one of its steps or leaves the view AcShards, AcRm, AcTold unchanged. *)
(* A round of reads under the commit lock sees all of a write or nothing.  *)
(***************************************************************************)
EXTENDS XaKeptProofs

-----------------------------------------------------------------------------
(* XaCommit implements AtomicCommit. *)

View(s) == IF s \in {"none", "active", "idle"} THEN "working" ELSE s

\* What AtomicCommit sees of one branch, its transaction's shards and answer.
LEMMA ViewOf ==
  ASSUME NEW t \in Txns, NEW b \in Backends
  PROVE  /\ AcRm[t][b] = View(branch[t][b])
         /\ AcRm'[t][b] = View(branch'[t][b])
         /\ AcShards[t] = XaShards(t)
         /\ AcShards'[t] = XaShards(t)'
BY Zenon DEF AcRm, AcShards, View

\* A decided transaction is one whose parts are all prepared in AtomicCommit.
LEMMA DecidedView ==
  ASSUME TypeOK, NEW t \in Txns, Decided(t)
  PROVE  Promise!AllPrepared(t)
<1>1. XaShards(t) \subseteq Backends
  BY XaShardsType, Zenon DEF TypeOK
<1>2. ASSUME NEW b \in XaShards(t)
      PROVE  AcRm[t][b] \in {"prepared", "committed"}
  BY <1>1, <1>2, ViewOf, Zenon DEF Decided, View
<1> QED
  BY <1>2, ViewOf, Zenon DEF Promise!AllPrepared, AcShards

\* While a branch is unprepared or rolled back, its transaction has committed
\* nowhere and has not been acknowledged.
LEMMA Undecided ==
  ASSUME TypeOK, DecisionInv, NEW t \in Txns, NEW b \in Backends,
         branch[t][b] \in {"active", "idle", "aborted"}
  PROVE  Promise!NoneCommitted(t) /\ t \notin AcTold
<1>1. ~Decided(t)
  BY Zenon DEF DecisionInv, Decision, Decided
<1> QED
  BY <1>1, ViewOf DEF DecisionInv, Decision, SomeCommitted, AcTold, View,
     Promise!NoneCommitted

\* A step that only drops connections, or leaves the branches as they are, is
\* a RollBack of AtomicCommit.
LEMMA DropsRollBack ==
  ASSUME TypeOK, TypeOK', DecisionInv,
         \A t \in Txns : \A b \in Backends :
           \/ branch'[t][b] = branch[t][b]
           \/ branch[t][b] \in {"active", "idle"} /\ branch'[t][b] = "aborted",
         AcShards' = AcShards, AcTold' = AcTold
  PROVE  Promise!ACNext
<1>1. AcRm' \in [Txns -> [Backends -> Promise!RmStates]]
  BY DEF TypeOK, ShardTypeOK, AcRm, Promise!RmStates, BranchStates
<1>2. ASSUME NEW t \in Txns, NEW b \in Backends
      PROVE  \/ AcRm'[t][b] = AcRm[t][b]
             \/ /\ AcRm'[t][b] = "aborted"
                /\ AcRm[t][b] \in {"working", "prepared"}
                /\ Promise!NoneCommitted(t) /\ t \notin AcTold
  BY ViewOf, Undecided DEF View
<1> QED
  BY <1>1, <1>2, Zenon DEF Promise!ACNext, Promise!RollBack

\* A step that moves one branch the way one part of AtomicCommit may move.
LEMMA OneBranch ==
  ASSUME TypeOK, TypeOK', DecisionInv, NEW t \in Txns, NEW b \in Backends,
         UNCHANGED <<part, goal, reply>>,
         \A u \in Txns, a \in Backends :
           <<u, a>> # <<t, b>> => branch'[u][a] = branch[u][a],
         \/ View(branch'[t][b]) = View(branch[t][b])
         \/ View(branch[t][b]) = "working" /\ branch'[t][b] = "prepared"
         \/ branch[t][b] = "prepared" /\ branch'[t][b] = "committed" /\ Decided(t)
         \/ /\ View(branch[t][b]) \in {"working", "prepared"}
            /\ branch'[t][b] = "aborted"
            /\ ~SomeCommitted(t) /\ t \notin AcTold
  PROVE  [Promise!ACNext]_(Promise!acVars)
<1>1. AcShards' = AcShards /\ AcTold' = AcTold
  BY Zenon DEF AcShards, AcTold, XaShards
<1>2. \A u \in Txns, a \in Backends : <<u, a>> # <<t, b>> => AcRm'[u][a] = AcRm[u][a]
  BY ViewOf
<1>3. /\ AcRm \in [Txns -> [Backends -> Promise!RmStates]]
      /\ AcRm' \in [Txns -> [Backends -> Promise!RmStates]]
  BY DEF TypeOK, ShardTypeOK, AcRm, Promise!RmStates, BranchStates
<1>4. AcRm[t][b] = View(branch[t][b]) /\ AcRm'[t][b] = View(branch'[t][b])
  BY ViewOf, Zenon
<1>5. AcRm' = [AcRm EXCEPT ![t][b] = AcRm'[t][b]]
  BY <1>2, <1>3
<1>6. CASE View(branch'[t][b]) = View(branch[t][b])
  BY <1>1, <1>3, <1>4, <1>5, <1>6 DEF Promise!acVars
<1>7. CASE View(branch[t][b]) = "working" /\ branch'[t][b] = "prepared"
  <2>1. Promise!Prepare(t, b)
    BY <1>1, <1>4, <1>5, <1>7, Zenon DEF View, Promise!Prepare
  <2> QED
    BY <2>1, Zenon DEF Promise!ACNext
<1>8. CASE branch[t][b] = "prepared" /\ branch'[t][b] = "committed" /\ Decided(t)
  <2>1. Promise!AllPrepared(t)
    BY <1>8, DecidedView, Zenon
  <2>2. Promise!CommitOne(t, b)
    BY <1>1, <1>4, <1>5, <1>8, <2>1, Zenon DEF View, Promise!CommitOne
  <2> QED
    BY <2>2, Zenon DEF Promise!ACNext
<1>9. CASE /\ View(branch[t][b]) \in {"working", "prepared"}
           /\ branch'[t][b] = "aborted"
           /\ ~SomeCommitted(t) /\ t \notin AcTold
  <2>1. Promise!NoneCommitted(t)
    BY <1>9, ViewOf, Zenon DEF SomeCommitted, View, Promise!NoneCommitted
  <2>2. \A u \in Txns : \A a \in Backends :
          \/ AcRm'[u][a] = AcRm[u][a]
          \/ /\ AcRm'[u][a] = "aborted" /\ AcRm[u][a] \in {"working", "prepared"}
             /\ Promise!NoneCommitted(u) /\ u \notin AcTold
    BY <1>2, <1>4, <1>9, <2>1, Zenon DEF View
  <2>3. Promise!RollBack
    BY <1>1, <1>3, <2>2, Zenon DEF Promise!RollBack
  <2> QED
    BY <2>3, Zenon DEF Promise!ACNext
<1> QED
  BY <1>6, <1>7, <1>8, <1>9, Zenon

\* One answer to a command of executeXA prepares, commits or rolls back one
\* part.
LEMMA ShardPromise ==
  ASSUME TypeOK, TypeOK', DecisionInv, NEW t \in Txns, NEW b \in Backends,
         XaShard(t, b) \/ RetryShard(t, b)
  PROVE  [Promise!ACNext]_(Promise!acVars)
<1>1. Decision(t) /\ branch[t][b] \in BranchStates
  BY Zenon DEF DecisionInv, TypeOK, ShardTypeOK
<1>2. UNCHANGED <<part, goal, reply>>
  BY Zenon DEF XaShard, RetryShard, sessVars
<1>3. pc[t] # "done" /\ t \notin AcTold
  BY <1>1, Zenon DEF XaShard, RetryShard, OneTry, Retrying, Decision, AcTold
<1>4. CASE XaShard(t, b)
  <2>1. ~SomeCommitted(t)
    BY <1>1, <1>4, Zenon DEF XaShard, OneTry, Decision, Early
  <2> QED
    BY <1>2, <1>3, <1>4, <2>1, XaShardEffect, OneBranch DEF View
<1>5. CASE RetryShard(t, b) /\ pc[t] = "xaCommit"
  <2>1. Decided(t) /\ b \in XaShards(t)
    BY <1>1, <1>5, Zenon DEF Decision, Late, Retrying, RetryShard
  <2>2. branch[t][b] \in {"prepared", "committed"}
    BY <2>1, Zenon DEF Decided
  <2> QED
    BY <1>2, <1>5, <2>1, <2>2, RetryShardEffect, OneBranch
<1>6. CASE RetryShard(t, b) /\ pc[t] = "xaRollback"
  <2>1. ~SomeCommitted(t)
    BY <1>1, <1>6, Zenon DEF Decision, Late
  <2>2. branch[t][b] # "committed"
    BY <2>1, Zenon DEF SomeCommitted
  <2> QED
    BY <1>1, <1>2, <1>3, <1>6, <2>1, <2>2, RetryShardEffect, OneBranch
    DEF View, BranchStates
<1> QED
  BY <1>4, <1>5, <1>6, Zenon DEF RetryShard, Retrying

\* The statements only run on branches, or lose them with their connection.
LEMMA ExecPromise ==
  ASSUME TypeOK, TypeOK', DecisionInv, NEW t \in Txns, NEW b \in Backends,
         ExecShard(t, b) \/ ConnLost(t, b)
  PROVE  Promise!ACNext
<1> DEFINE s == branch[t][b]
           Drop(r) == r = s \/ (s \in {"active", "idle"} /\ r = "aborted")
<1>1. /\ Drop(Dropped(Fetched(conn[t][b]), s))
      /\ Drop(Closed(t)[b])
  BY DroppedBranch, FetchedType, ZenonT(30) DEF TypeOK, ShardTypeOK, Closed
<1>2. PICK d, r : SetShard(t, b, d, r) /\ Drop(r)
  BY <1>1, Zenon DEF ExecShard, ExecOk, ExecRejected, ExecFailed, ConnLost
<1>3. branch' = [branch EXCEPT ![t][b] = r]
  BY <1>2, Zenon DEF SetShard
<1>4. \A u \in Txns : \A a \in Backends :
        \/ branch'[u][a] = branch[u][a]
        \/ branch[u][a] \in {"active", "idle"} /\ branch'[u][a] = "aborted"
  BY <1>2, <1>3, Zenon DEF TypeOK, ShardTypeOK
<1>5. AcShards' = AcShards /\ AcTold' = AcTold
  BY Zenon DEF ExecShard, ConnLost, sessVars, AcShards, AcTold, XaShards
<1> QED
  BY <1>4, <1>5, DropsRollBack, Zenon

\* Of the steps between the rounds, the planner's choice is an Enlist, the
\* answer to a COMMIT an Acknowledge, and closing connections a RollBack.
LEMMA TxnPromise ==
  ASSUME TypeOK, TypeOK', DecisionInv, NEW t \in Txns, TxnStep(t)
  PROVE  [Promise!ACNext]_(Promise!acVars)
<1>1. Decision(t)
  BY Zenon DEF DecisionInv
<1>2. ASSUME NEW v \in Txns, NEW a \in Backends
      PROVE  \/ Closed(v)[a] = branch[v][a]
             \/ branch[v][a] \in {"active", "idle"} /\ Closed(v)[a] = "aborted"
  BY DroppedBranch, ZenonT(30) DEF Closed, TypeOK, ShardTypeOK
<1>3. CASE BeginSingle(t)
  <2>1. PICK S \in SUBSET Backends : part' = [part EXCEPT ![t] = S]
    BY <1>3, Zenon DEF BeginSingle
  <2>2. AcShards' = [AcShards EXCEPT ![t] = XaShards(t)']
    BY <2>1, Zenon DEF AcShards, XaShards, TypeOK, SessTypeOK
  <2>3. XaShards(t)' \in SUBSET Backends
    BY <2>1, Zenon DEF XaShards, TypeOK, SessTypeOK
  <2>4. \A b \in Backends : AcRm[t][b] = "working"
    BY <1>1, <1>3, ViewOf, Zenon DEF BeginSingle, Decision, View
  <2>5. AcRm' = AcRm /\ AcTold' = AcTold
    BY <1>3, Zenon DEF BeginSingle, AcRm, AcTold
  <2>6. Promise!Enlist(t)
    BY <2>2, <2>3, <2>4, <2>5, Zenon DEF Promise!Enlist
  <2> QED
    BY <2>6, Zenon DEF Promise!ACNext
<1>4. CASE \/ BeginMulti(t) \/ StartDone(t) \/ Statement(t) \/ ExecDone(t)
           \/ (\E g \in {"commit", "rollback"} : Command(t, g)) \/ EndDone(t)
           \/ CommitLock(t) \/ CommitDone(t) \/ WriteXaCommitErrLog(t)
           \/ flushXaCommitErrLog(t)
  <2>1. UNCHANGED branch
    BY <1>4, Zenon DEF BeginMulti, StartDone, Statement, ExecDone, Command,
       EndDone, CommitLock, CommitDone, WriteXaCommitErrLog,
       flushXaCommitErrLog
  <2>2. AcRm' = AcRm
    BY <2>1, Zenon DEF AcRm
  <2>3. \A u \in Txns : XaShards(u)' = XaShards(u)
    <3>1. CASE Statement(t)
      BY <1>1, <3>1 DEF Decision, Statement, XaShards, TypeOK, SessTypeOK
    <3>2. CASE UNCHANGED part
      BY <3>2, Zenon DEF XaShards
    <3> QED
      BY <1>4, <3>1, <3>2, Zenon DEF BeginMulti, StartDone, ExecDone, Command,
         EndDone, CommitLock, CommitDone, WriteXaCommitErrLog,
         flushXaCommitErrLog, sessVars
  <2>4. AcShards' = AcShards
    BY <2>3, Zenon DEF AcShards
  <2>5. pc[t] # "done"
    BY <1>4, Zenon DEF BeginMulti, StartDone, Statement, ExecDone, Command,
       EndDone, CommitLock, CommitDone, WriteXaCommitErrLog,
       flushXaCommitErrLog, Retrying
  <2>6. reply[t] # "ok" /\ reply'[t] # "ok"
    <3>1. reply[t] # "ok"
      BY <1>1, <2>5, Zenon DEF Decision
    <3>2. reply'[t] \in {reply[t], "err", "none"}
      BY <1>4, Zenon DEF BeginMulti, StartDone, Statement, ExecDone, Command,
         EndDone, CommitLock, CommitDone, WriteXaCommitErrLog,
         flushXaCommitErrLog, sessVars, TypeOK, SessTypeOK
    <3> QED
      BY <3>1, <3>2, Zenon
  <2>7. \A u \in Txns \ {t} : reply'[u] = reply[u] /\ goal'[u] = goal[u]
    BY <1>4, ZenonT(30) DEF BeginMulti, StartDone, Statement, ExecDone, Command,
       EndDone, CommitLock, CommitDone, WriteXaCommitErrLog,
       flushXaCommitErrLog, sessVars, TypeOK, SessTypeOK
  <2>8. AcTold' = AcTold
    BY <2>6, <2>7, Zenon DEF AcTold
  <2> QED
    BY <2>2, <2>4, <2>8, Zenon DEF Promise!acVars
<1>5. CASE Abort(t)
  <2>1. \A u \in Txns : \A a \in Backends :
          \/ branch'[u][a] = branch[u][a]
          \/ branch[u][a] \in {"active", "idle"} /\ branch'[u][a] = "aborted"
    BY <1>2, <1>5, Zenon DEF Abort, TypeOK, ShardTypeOK
  <2>2. AcShards' = AcShards /\ AcTold' = AcTold
    BY <1>5, Zenon DEF Abort, sessVars, AcShards, AcTold, XaShards
  <2> QED
    BY <2>1, <2>2, DropsRollBack, Zenon
<1>6. CASE Finish(t)
  <2>1. \A u \in Txns : \A a \in Backends :
          \/ branch'[u][a] = branch[u][a]
          \/ /\ branch[u][a] \in {"active", "idle"}
             /\ branch'[u][a] = "aborted" /\ u = t
    BY <1>2, <1>6, ZenonT(30) DEF Finish, TypeOK, ShardTypeOK
  <2>2. AcShards' = AcShards /\ UNCHANGED goal
    BY <1>6, Zenon DEF Finish, AcShards, XaShards
  <2>3. \A u \in Txns \ {t} : reply'[u] = reply[u]
    BY <1>6, Zenon DEF Finish, TypeOK, SessTypeOK
  <2>4. t \notin AcTold
    BY <1>1, <1>6, Zenon DEF Finish, Decision, AcTold
  <2>5. CASE t \in AcTold'
    <3>1. AcTold' = AcTold \cup {t}
      BY <2>2, <2>3, <2>5, Zenon DEF AcTold
    <3>2. reply[t] # "err" /\ goal[t] = "commit"
      BY <1>6, <2>2, <2>5, Zenon DEF Finish, AcTold, TypeOK, SessTypeOK
    <3>3. Decided(t) /\ \A b \in Backends : branch[t][b] # "none" => b \in XaShards(t)
      BY <1>1, <1>6, <3>2, Zenon DEF Finish, Decision
    <3>4. \A b \in Backends : branch[t][b] \notin {"active", "idle"}
      BY <3>3, Zenon DEF Decided
    <3>5. AcRm' = AcRm
      BY <2>1, <3>4 DEF AcRm
    <3>6. Promise!AllPrepared(t)
      BY <3>3, DecidedView, Zenon
    <3>7. Promise!Acknowledge(t)
      BY <2>2, <3>1, <3>5, <3>6, Zenon DEF Promise!Acknowledge
    <3> QED
      BY <3>7, Zenon DEF Promise!ACNext
  <2>6. CASE t \notin AcTold'
    <3>1. AcTold' = AcTold
      BY <2>2, <2>3, <2>4, <2>6, Zenon DEF AcTold
    <3> QED
      BY <2>1, <2>2, <3>1, DropsRollBack, Zenon
  <2> QED
    BY <2>5, <2>6, Zenon
<1> QED
  BY <1>3, <1>4, <1>5, <1>6, Zenon DEF TxnStep

\* xacheck carries out the logged decision on one part, or does nothing that
\* AtomicCommit sees.
LEMMA CheckPromise ==
  ASSUME TypeOK, TypeOK', DecisionInv, CheckStep
  PROVE  [Promise!ACNext]_(Promise!acVars)
<1>1. UNCHANGED <<part, goal, reply>>
  BY Zenon DEF CheckStep, XaCommitsRetry, XaRecover, XaRetryShard, XaResolve,
     XaFlush, sessVars
<1>2. CASE UNCHANGED branch
  BY <1>1, <1>2, Zenon DEF AcShards, AcRm, AcTold, XaShards, Promise!acVars
<1>3. ASSUME NEW b \in Backends, XaRetryShard(b)
      PROVE  [Promise!ACNext]_(Promise!acVars)
  <2>1. xcur \in Txns /\ Decision(xcur) /\ LogAgrees(xcur, retrys[xcur])
    BY <1>3, XaRetryShardEffect, Zenon DEF DecisionInv, Decision
  <2>2. CASE retrys[xcur].state = "commit"
    BY <1>1, <1>3, <2>1, <2>2, XaRetryShardEffect, OneBranch, Zenon DEF
       LogAgrees
  <2>3. CASE retrys[xcur].state = "rollback"
    BY <1>1, <1>3, <2>1, <2>3, XaRetryShardEffect, OneBranch, Zenon
    DEF LogAgrees, AcTold, View
  <2> QED
    BY <1>3, <2>2, <2>3, XaRetryShardEffect, Zenon
<1> QED
  BY <1>2, <1>3, Zenon DEF CheckStep, XaCommitsRetry, XaRecover, XaResolve,
     XaFlush

\* Every step of XaCommit is a step of AtomicCommit or leaves its view alone.
LEMMA StepPromise ==
  TypeOK /\ TypeOK' /\ DecisionInv /\ [Next]_vars => [Promise!ACNext]_(Promise!acVars)
<1> SUFFICES ASSUME TypeOK, TypeOK', DecisionInv, [Next]_vars
             PROVE  [Promise!ACNext]_(Promise!acVars)
  BY Zenon
<1>1. ASSUME NEW t \in Txns, TxnStep(t) PROVE [Promise!ACNext]_(Promise!acVars)
  BY <1>1, TxnPromise, Zenon
<1>2. ASSUME NEW t \in Txns, NEW b \in Backends,
             ShardStep(t, b) \/ ConnLost(t, b)
      PROVE  [Promise!ACNext]_(Promise!acVars)
  BY <1>2, ShardPromise, ExecPromise, Zenon DEF ShardStep
<1>3. CASE CheckStep
  BY <1>3, CheckPromise, Zenon
<1>4. CASE Crash
  <2>1. \A u \in Txns : \A a \in Backends :
          \/ branch'[u][a] = branch[u][a]
          \/ branch[u][a] \in {"active", "idle"} /\ branch'[u][a] = "aborted"
    <3>1. ASSUME NEW u \in Txns, NEW a \in Backends
          PROVE  \/ Closed(u)[a] = branch[u][a]
                 \/ branch[u][a] \in {"active", "idle"} /\ Closed(u)[a] = "aborted"
      BY DroppedBranch, ZenonT(30) DEF Closed, TypeOK, ShardTypeOK
    <3> QED
      BY <1>4, <3>1, Zenon DEF Crash
  <2>2. AcShards' = AcShards /\ AcTold' = AcTold
    BY <1>4, Zenon DEF Crash, sessVars, AcShards, AcTold, XaShards
  <2> QED
    BY <2>1, <2>2, DropsRollBack, Zenon
<1>5. CASE Restart \/ (\E l \in Legs : ReadStep(l)) \/ UNCHANGED vars
  <2>1. UNCHANGED <<part, goal, reply, branch>>
    BY <1>5, Zenon DEF Restart, ReadStep, CommitRLock, ReadShard,
       CommitRUnlock, vars, sessVars
  <2> QED
    BY <2>1, Zenon DEF AcShards, AcRm, AcTold, XaShards, Promise!acVars
<1> QED
  BY <1>1, <1>2, <1>3, <1>4, <1>5, Zenon DEF Next

\* XaCommit starts where AtomicCommit may start.
LEMMA InitPromise == Init => Promise!ACInit
<1> SUFFICES ASSUME Init PROVE Promise!ACInit
  BY Zenon
<1>1. AcShards \in [Txns -> SUBSET Backends]
  BY Zenon DEF Init, AcShards, XaShards
<1>2. AcRm = [t \in Txns |-> [b \in Backends |-> "working"]]
  BY Zenon DEF Init, AcRm
<1>3. AcTold = {}
  BY Zenon DEF Init, AcTold
<1> QED
  BY <1>1, <1>2, <1>3, Zenon DEF Promise!ACInit

\* The rounds of executeXA, the xacheck log, the retries and the crashes
\* implement AtomicCommit, for every set of transactions and backends.
THEOREM Refinement == Spec => KeepsPromise
<1>1. Init => Promise!ACInit
  BY InitPromise, Zenon
<1>2. TypeOK /\ TypeOK' /\ DecisionInv /\ [Next]_vars =>
        [Promise!ACNext]_(Promise!acVars)
  BY StepPromise, Zenon
<1> QED
  BY <1>1, <1>2, DecisionCorrect, PTL DEF Spec, XaInv, KeepsPromise, Promise!ACSpec

\* A branch becomes committed, by xaCommit or by an xacheck retry, only when
\* every shard of its transaction has prepared.
THEOREM CommitOnlyPrepared == Spec => CommitNeedsAllPrepared
<1> DEFINE Good == \A t \in Txns : \A b \in Backends :
             branch'[t][b] = "committed" => branch[t][b] = "committed" \/ Decided(t)
<1>1. TypeOK /\ TypeOK' /\ DecisionInv /\ [Next]_vars => [Good]_vars
  <2> SUFFICES ASSUME TypeOK, TypeOK', DecisionInv, [Next]_vars,
                      NEW t \in Txns, NEW b \in Backends,
                      branch'[t][b] = "committed", branch[t][b] # "committed"
               PROVE  Decided(t)
    BY Zenon DEF vars
  <2>1. AcRm'[t][b] = "committed" /\ AcRm[t][b] # "committed"
    BY ViewOf, Zenon DEF View
  <2>2. PICK u \in Txns, a \in Backends : Promise!CommitOne(u, a)
    <3>1. AcRm \in [Txns -> [Backends -> Promise!RmStates]]
      BY DEF TypeOK, ShardTypeOK, AcRm, Promise!RmStates, BranchStates
    <3> QED
      BY <2>1, <3>1, StepPromise DEF Promise!ACNext, Promise!acVars,
         Promise!Enlist, Promise!Acknowledge, Promise!Prepare, Promise!RollBack
  <2>3. u = t /\ Promise!AllPrepared(u)
    BY <2>1, <2>2, Zenon DEF Promise!CommitOne, AcRm
  <2>4. \A c \in XaShards(t) : AcRm[t][c] \in {"prepared", "committed"}
    BY <2>3, ViewOf, Zenon DEF Promise!AllPrepared
  <2> QED
    BY <2>4, ViewOf, XaShardsType, Zenon DEF Decided, View, TypeOK
<1> QED
  BY <1>1, DecisionCorrect, PTL DEF Spec, XaInv, CommitNeedsAllPrepared

USE DEF AfterCommit

-----------------------------------------------------------------------------
(* A leg reads under the commit lock. *)

\* The commit lock keeps the rounds and the reads apart; what a leg has seen is
\* committed, and what it has read past without seeing has failed since.
Locked ==
  /\ Reading => writer = NoTxn
  /\ \A t \in Txns : pc[t] \in Retrying /\ XaShards(t) # {} => writer = t
LegRead(l, t) ==
  /\ \A b \in Backends : t \in saw[l][b] => branch[t][b] = "committed"
  /\ rpc[l] = "reading" =>
       \A b \in Backends \ rtodo[l] : branch[t][b] = "committed" => t \in saw[l][b] \/ t \in failed
LegWhole(l, t) ==
  rpc[l] # "idle" =>
    \A a, b \in XaShards(t) \ rtodo[l] : t \in saw[l][a] => t \in saw[l][b] \/ t \in failed
LegInv ==
  /\ Locked
  /\ \A t \in Txns : SomeCommitted(t) => pc[t] = "xaCommit" \/ t \in failed \/ AllCommitted(t)
  /\ \A l \in Legs : rpc[l] # "reading" => rtodo[l] = {}
  /\ \A l \in Legs, t \in Txns : LegRead(l, t) /\ LegWhole(l, t)

\* Who takes and gives back the lock, and who reads.
LEMMA LockBy ==
  ASSUME [Next]_vars, ~Crash
  PROVE  /\ UNCHANGED writer \/ \E t \in Txns : CommitLock(t) \/ CommitDone(t)
         /\ UNCHANGED readVars \/ \E l \in Legs : ReadStep(l)
<1>1. ASSUME NEW t \in Txns, TxnStep(t)
      PROVE  UNCHANGED readVars /\ (UNCHANGED writer \/ CommitLock(t) \/ CommitDone(t))
  BY <1>1, Zenon DEF TxnStep, BeginSingle, BeginMulti, StartDone, Statement, ExecDone, Command, EndDone,
     CommitLock, CommitDone, WriteXaCommitErrLog, flushXaCommitErrLog, Finish, Abort
<1>2. ASSUME NEW t \in Txns, NEW b \in Backends, ShardStep(t, b) \/ ConnLost(t, b)
      PROVE  UNCHANGED readVars /\ UNCHANGED writer
  BY <1>2, Zenon DEF ShardStep, XaShard, ExecShard, RetryShard, ConnLost
<1>3. CheckStep \/ Restart \/ UNCHANGED vars => UNCHANGED readVars /\ UNCHANGED writer
  BY Zenon DEF CheckStep, XaCommitsRetry, XaRecover, XaRetryShard, XaResolve, XaFlush, txnVars, Restart,
     vars, readVars
<1>4. (\E l \in Legs : ReadStep(l)) => UNCHANGED writer
  BY Zenon DEF ReadStep, CommitRLock, ReadShard, CommitRUnlock, txnVars
<1> QED
  BY <1>1, <1>2, <1>3, <1>4, Zenon DEF Next

\* A round holds the lock from its start to its end, and no leg reads meanwhile.
LEMMA LockStep == ASSUME XaInv, Locked, [Next]_vars, ~Crash PROVE Locked'
<1>1. /\ TypeOK /\ pc \in [Txns -> Phases] /\ rpc \in [Legs -> {"idle", "reading", "done"}]
      /\ \A t \in Txns : t # NoTxn
  BY XaAssumption, Zenon DEF XaInv, TypeOK, TxnTypeOK, ReadTypeOK
<1>2. ASSUME NEW l \in Legs, ReadStep(l) PROVE Locked'
  <2>1. writer' = writer /\ pc' = pc /\ part' = part
    BY <1>2, Zenon DEF ReadStep, CommitRLock, ReadShard, CommitRUnlock, txnVars, sessVars
  <2>2. Reading' => Reading \/ writer = NoTxn
    <3>1. ASSUME NEW m \in Legs, rpc'[m] = "reading" PROVE rpc[m] = "reading" \/ writer = NoTxn
      BY <1>1, <1>2, <3>1, Zenon DEF ReadStep, CommitRLock, ReadShard, CommitRUnlock
    <3> QED
      BY <3>1, Zenon DEF Reading
  <2> QED
    BY <2>1, <2>2, Zenon DEF Locked, XaShards
<1>3. ASSUME UNCHANGED readVars PROVE Locked'
  <2>1. Reading' <=> Reading
    BY <1>3, Zenon DEF Reading, readVars
  <2>2. Reading' => writer' = NoTxn
    <3>1. ASSUME NEW t \in Txns, CommitLock(t), Reading PROVE writer' = writer
      BY <3>1, Zenon DEF CommitLock
    <3>2. ASSUME NEW t \in Txns, CommitDone(t), writer = NoTxn PROVE writer' = NoTxn
      BY <3>2, Zenon DEF CommitDone, Release
    <3> QED
      BY <2>1, <3>1, <3>2, LockBy, Zenon DEF Locked
  <2>3. ASSUME NEW u \in Txns, pc'[u] \in Retrying, XaShards(u)' # {} PROVE writer' = u
    <3>1. CASE pc[u] \notin Retrying
      <4>1. TxnStep(u)
        BY <1>1, <2>3, <3>1, OwnMove, Zenon
      <4>2. CommitLock(u)
        BY <1>1, <2>3, <3>1, <4>1, Zenon DEF TxnStep, BeginSingle, BeginMulti, StartDone, Statement, ExecDone,
           Command, EndDone, CommitDone, WriteXaCommitErrLog, flushXaCommitErrLog, Finish, Abort, Round, Goto,
           Retrying
      <4>3. XaShards(u)' = XaShards(u)
        BY <4>2, Zenon DEF CommitLock, XaShards, sessVars
      <4> QED
        BY <2>3, <4>2, <4>3, Zenon DEF CommitLock
    <3>2. CASE pc[u] \in Retrying
      <4>1. XaShards(u)' = XaShards(u)
        <5>1. ASSUME NEW t \in Txns, TxnStep(t) PROVE part'[u] = part[u]
          <6>1. t = u => CommitDone(u)
            BY <3>2, <5>1, Zenon DEF TxnStep, BeginSingle, BeginMulti, StartDone, Statement, ExecDone, Command,
               EndDone, CommitLock, WriteXaCommitErrLog, flushXaCommitErrLog, Finish, Abort, Retrying
          <6> QED
            BY <1>1, <5>1, <6>1, OthersAlone, Zenon DEF CommitDone, sessVars
        <5>2. ASSUME NEW t \in Txns, NEW b \in Backends, ShardStep(t, b) PROVE part'[u] = part[u]
          BY <1>1, <5>2, ShardAlone, Zenon
        <5>3. CheckStep => part'[u] = part[u]
          BY <1>1, CheckAlone, Zenon DEF sessVars
        <5>4. ASSUME \/ \E t \in Txns, b \in Backends : ConnLost(t, b)
                     \/ \E l \in Legs : ReadStep(l)
                     \/ Restart \/ UNCHANGED vars
              PROVE  part'[u] = part[u]
          BY <1>1, <5>4, RestAlone, Zenon
        <5>5. part'[u] = part[u]
          BY <5>1, <5>2, <5>3, <5>4, Zenon DEF Next
        <5> QED
          BY <5>5, Zenon DEF XaShards
      <4>2. writer = u
        BY <2>3, <3>2, <4>1, Zenon DEF Locked
      <4>3. ASSUME NEW t \in Txns, CommitLock(t) PROVE writer' = writer
        BY <1>1, <4>2, <4>3, Zenon DEF CommitLock
      <4>4. ASSUME NEW t \in Txns, CommitDone(t) PROVE writer' = writer
        <5>1. t # u
          BY <1>1, <2>3, <4>4, Zenon DEF CommitDone, Goto, Retrying
        <5> QED
          BY <4>2, <4>4, <5>1, Zenon DEF CommitDone, Release
      <4> QED
        BY <4>2, <4>3, <4>4, LockBy, Zenon
    <3> QED
      BY <3>1, <3>2, Zenon
  <2> QED
    BY <2>2, <2>3, Zenon DEF Locked
<1> QED
  BY <1>2, <1>3, LockBy, Zenon

\* A transaction committed on some shard only is in its round, or has failed.
LEMMA TornStep ==
  ASSUME XaInv, RoundsInv, LegInv, [Next]_vars, ~Crash, NEW t \in Txns, SomeCommitted(t)'
  PROVE  pc'[t] = "xaCommit" \/ t \in failed' \/ AllCommitted(t)'
<1>1. TypeOK /\ Rounds(t) /\ pc \in [Txns -> Phases] /\ XaShards(t) \subseteq Backends
  BY XaShardsType, Zenon DEF XaInv, RoundsInv, TypeOK, TxnTypeOK
<1>2. ASSUME pc[t] = "xaCommit", pc'[t] # "xaCommit" PROVE CommitDone(t)
  <2>1. TxnStep(t)
    BY <1>1, <1>2, OwnMove, Zenon
  <2> QED
    BY <1>2, <2>1, Zenon DEF TxnStep, BeginSingle, BeginMulti, StartDone, Statement, ExecDone, Command,
       EndDone, CommitLock, WriteXaCommitErrLog, flushXaCommitErrLog, Finish, Abort
<1>3. CASE pc[t] = "xaCommit" /\ pc'[t] # "xaCommit"
  <2>1. todo[t] = {} /\ branch' = branch /\ failed' = failed /\ part' = part
    BY <1>2, <1>3, Zenon DEF CommitDone, Goto, sessVars
  <2>2. t \in failed \/ AllCommitted(t)
    BY <1>1, <1>3, <2>1, Zenon DEF Rounds, Retrying, AllCommitted
  <2>3. AllCommitted(t) => AllCommitted(t)'
    BY <2>1, Zenon DEF AllCommitted, XaShards
  <2> QED
    BY <2>1, <2>2, <2>3, Zenon
<1>4. CASE SomeCommitted(t) /\ pc[t] # "xaCommit"
  <2>1. t \in failed \/ AllCommitted(t)
    BY <1>4, Zenon DEF LegInv
  <2>2. XaShards(t)' = XaShards(t) /\ (t \in failed => t \in failed')
    BY <1>4, CommittedStep, Zenon
  <2>3. AllCommitted(t) => AllCommitted(t)'
    BY <1>1, <2>2, CommitsBy, Zenon DEF AllCommitted
  <2> QED
    BY <2>1, <2>2, <2>3, Zenon
<1>5. CASE ~SomeCommitted(t) /\ pc[t] # "xaCommit"
  <2>1. retrys[t].state = "commit" /\ pc[t] \in Settled
    BY <1>5, FirstCommit, Zenon
  <2>2. t \in failed
    BY <1>1, <2>1, Zenon DEF Rounds
  <2> QED
    BY <2>1, <2>2, SettledStep, Zenon
<1> QED
  BY <1>3, <1>4, <1>5, Zenon

\* What a read step leaves alone.
LEMMA ReadAlone ==
  ASSUME TypeOK, NEW m \in Legs, ReadStep(m)
  PROVE  /\ UNCHANGED <<pc, failed, branch, part>>
         /\ \A l \in Legs \ {m} : rpc'[l] = rpc[l] /\ rtodo'[l] = rtodo[l] /\ saw'[l] = saw[l]
         /\ \/ rpc[m] = "idle" /\ rpc'[m] = "reading" /\ rtodo'[m] = Backends /\ saw'[m] = saw[m]
            \/ rpc[m] = "reading" /\ rtodo[m] = {} /\ rpc'[m] = "done" /\ rtodo'[m] = {} /\ saw'[m] = saw[m]
            \/ \E a \in rtodo[m] :
                 /\ rpc'[m] = rpc[m] /\ rtodo'[m] = rtodo[m] \ {a}
                 /\ saw'[m][a] = {t \in Txns : branch[t][a] = "committed"}
                 /\ \A b \in Backends \ {a} : saw'[m][b] = saw[m][b]
<1>1. /\ rpc \in [Legs -> {"idle", "reading", "done"}] /\ rtodo \in [Legs -> SUBSET Backends]
      /\ saw \in [Legs -> [Backends -> SUBSET Txns]]
  BY Zenon DEF TypeOK, ReadTypeOK
<1>2. UNCHANGED <<pc, failed, branch, part>>
  BY Zenon DEF ReadStep, CommitRLock, ReadShard, CommitRUnlock, txnVars, sessVars
<1>3. CASE CommitRLock(m)
  BY <1>1, <1>2, <1>3, Zenon DEF CommitRLock
<1>4. CASE CommitRUnlock(m)
  BY <1>1, <1>2, <1>4, Zenon DEF CommitRUnlock
<1>5. ASSUME NEW a \in Backends, ReadShard(m, a)
      PROVE  /\ \A l \in Legs \ {m} : rpc'[l] = rpc[l] /\ rtodo'[l] = rtodo[l] /\ saw'[l] = saw[l]
             /\ a \in rtodo[m] /\ rpc'[m] = rpc[m] /\ rtodo'[m] = rtodo[m] \ {a}
             /\ saw'[m][a] = {t \in Txns : branch[t][a] = "committed"}
             /\ \A b \in Backends \ {a} : saw'[m][b] = saw[m][b]
  BY <1>1, <1>5, Zenon DEF ReadShard
<1> QED
  BY <1>2, <1>3, <1>4, <1>5, Zenon DEF ReadStep

\* What a leg has read stays right while it reads and afterwards.
LEMMA ReadKept ==
  ASSUME XaInv, RoundsInv, LegInv, Locked', [Next]_vars, ~Crash, NEW l \in Legs, NEW t \in Txns
  PROVE  LegRead(l, t)'
<1>1. TypeOK /\ Rounds(t) /\ LegRead(l, t) /\ rtodo \in [Legs -> SUBSET Backends]
  BY Zenon DEF XaInv, RoundsInv, LegInv, TypeOK, ReadTypeOK
<1>2. ASSUME NEW m \in Legs, ReadStep(m) PROVE LegRead(l, t)'
  <2>1. UNCHANGED <<pc, failed, branch, part>>
    BY <1>1, <1>2, ReadAlone, Zenon
  <2>2. CASE saw'[l] = saw[l] /\ rpc'[l] = rpc[l] /\ rtodo'[l] = rtodo[l]
    BY <1>1, <2>1, <2>2, Zenon DEF LegRead
  <2>3. CASE saw'[l] = saw[l] /\ (rtodo'[l] = Backends \/ rpc'[l] = "done")
    BY <1>1, <2>1, <2>3, Zenon DEF LegRead
  <2>4. ASSUME NEW a \in rtodo[l], rpc'[l] = rpc[l], rtodo'[l] = rtodo[l] \ {a},
               saw'[l][a] = {u \in Txns : branch[u][a] = "committed"},
               \A b \in Backends \ {a} : saw'[l][b] = saw[l][b]
        PROVE  LegRead(l, t)'
    <3>1. ASSUME NEW b \in Backends PROVE t \in saw'[l][b] => branch'[t][b] = "committed"
      <4>1. CASE b = a
        BY <2>1, <2>4, <4>1, Zenon
      <4>2. CASE b # a
        BY <1>1, <2>1, <2>4, <4>2, Zenon DEF LegRead
      <4> QED
        BY <4>1, <4>2, Zenon
    <3>2. ASSUME rpc'[l] = "reading", NEW b \in Backends \ rtodo'[l], branch'[t][b] = "committed"
          PROVE  t \in saw'[l][b] \/ t \in failed'
      <4>1. CASE b = a
        BY <2>1, <2>4, <3>2, <4>1, Zenon
      <4>2. CASE b # a
        BY <1>1, <2>1, <2>4, <3>2, <4>2, Zenon DEF LegRead
      <4> QED
        BY <4>1, <4>2, Zenon
    <3> QED
      BY <3>1, <3>2, Zenon DEF LegRead
  <2> QED
    BY <1>1, <1>2, <2>2, <2>3, <2>4, ReadAlone, ZenonT(30)
<1>3. ASSUME UNCHANGED readVars PROVE LegRead(l, t)'
  <2>1. rpc' = rpc /\ rtodo' = rtodo /\ saw' = saw
    BY <1>3, Zenon DEF readVars
  <2>2. \A b \in Backends : t \in saw'[l][b] => branch'[t][b] = "committed"
    BY <1>1, <2>1, CommitsBy, Zenon DEF LegRead
  <2>3. ASSUME rpc'[l] = "reading", NEW b \in Backends \ rtodo'[l], branch'[t][b] = "committed"
        PROVE  t \in saw'[l][b] \/ t \in failed'
    <3>1. CASE branch[t][b] = "committed"
      <4>1. t \in saw[l][b] \/ t \in failed
        BY <1>1, <2>1, <2>3, <3>1, Zenon DEF LegRead
      <4> QED
        BY <2>1, <3>1, <4>1, CommittedStep, Zenon DEF SomeCommitted
    <3>2. CASE branch[t][b] # "committed" /\ pc[t] = "xaCommit"
      <4>1. TypeOK' /\ Decision(t)'
        BY TypeStep, <1>1, DecisionStep, Zenon DEF DecisionInv, XaInv
      <4>2. XaShards(t)' # {}
        BY <2>3, <4>1 DEF Decision
      <4>3. writer' = NoTxn
        BY <2>3, Zenon DEF Locked, Reading
      <4>4. pc'[t] # "xaCommit"
        BY <4>2, <4>3, XaAssumption, Zenon DEF Locked, Retrying
      <4>5. TxnStep(t)
        BY <1>1, <3>2, <4>4, OwnMove, Zenon
      <4>6. CommitDone(t)
        BY <3>2, <4>5, Zenon DEF TxnStep, BeginSingle, BeginMulti, StartDone, Statement, ExecDone, Command,
           EndDone, CommitLock, WriteXaCommitErrLog, flushXaCommitErrLog, Finish, Abort
      <4> QED
        BY <2>3, <3>2, <4>6, Zenon DEF CommitDone
    <3>3. CASE branch[t][b] # "committed" /\ pc[t] # "xaCommit"
      <4>1. retrys[t].state = "commit"
        BY <2>3, <3>3, CommitsBy, Zenon
      <4>2. t \in failed /\ pc[t] \in Settled
        BY <1>1, <4>1, ZenonT(30) DEF Rounds, XaInv, DecisionInv, Decision, LogAgrees, Settled
      <4> QED
        BY <4>2, SettledStep, Zenon
    <3> QED
      BY <3>1, <3>2, <3>3, Zenon
  <2> QED
    BY <2>2, <2>3, Zenon DEF LegRead
<1> QED
  BY <1>2, <1>3, LockBy, Zenon

\* LegInv is inductive until a crash.
LEMMA LegStep == ASSUME XaInv, XaInv', RoundsInv, LegInv, [Next]_vars, ~Crash PROVE LegInv'
<1>1. TypeOK /\ Locked /\ rtodo \in [Legs -> SUBSET Backends] /\ rpc' \in [Legs -> {"idle", "reading", "done"}]
  BY Zenon DEF XaInv, LegInv, TypeOK, ReadTypeOK
<1>2. Locked'
  BY <1>1, LockStep, Zenon
<1>3. \A t \in Txns : SomeCommitted(t)' => pc'[t] = "xaCommit" \/ t \in failed' \/ AllCommitted(t)'
  BY TornStep, Zenon
<1>4. ASSUME NEW l \in Legs, rpc'[l] # "reading"
      PROVE  rtodo'[l] = {} /\ saw'[l] = saw[l] /\ rtodo[l] = {} /\ (rpc'[l] = "done" => rpc[l] # "idle")
  <2>1. rpc[l] # "reading" => rtodo[l] = {}
    BY Zenon DEF LegInv
  <2>2. CASE UNCHANGED readVars
    BY <1>4, <2>1, <2>2, Zenon DEF readVars
  <2>3. ASSUME NEW m \in Legs, ReadStep(m)
        PROVE  rtodo'[l] = {} /\ saw'[l] = saw[l] /\ rtodo[l] = {} /\ (rpc'[l] = "done" => rpc[l] # "idle")
    <3>1. CASE m # l
      BY <1>1, <1>4, <2>1, <2>3, <3>1, ReadAlone, Zenon
    <3>2. CASE m = l
      <4>1. rpc[l] = "reading" /\ rtodo[l] = {} /\ rpc'[l] = "done" /\ rtodo'[l] = {} /\ saw'[l] = saw[l]
        BY <1>1, <1>4, <2>1, <2>3, <3>2, ReadAlone, Zenon
      <4> QED
        BY <4>1, Zenon
    <3> QED
      BY <3>1, <3>2, Zenon
  <2> QED
    BY <2>2, <2>3, LockBy, Zenon
<1>5. \A l \in Legs, t \in Txns : LegRead(l, t)'
  BY <1>2, ReadKept, Zenon
<1>6. ASSUME NEW l \in Legs, NEW t \in Txns PROVE LegWhole(l, t)'
  <2> SUFFICES ASSUME rpc'[l] # "idle", NEW a \in XaShards(t)' \ rtodo'[l], NEW b \in XaShards(t)' \ rtodo'[l],
                      t \in saw'[l][a], t \notin failed'
               PROVE  t \in saw'[l][b]
    BY Zenon DEF LegWhole
  <2>1. a \in Backends /\ b \in Backends
    BY XaShardsType DEF XaInv, TypeOK, SessTypeOK, XaShards
  <2>2. SomeCommitted(t)'
    BY <1>5, <2>1, Zenon DEF LegRead, SomeCommitted
  <2>3. CASE rpc'[l] = "reading"
    <3>1. pc'[t] # "xaCommit"
      BY <1>2, <2>3, XaAssumption, Zenon DEF Locked, Reading, Retrying
    <3>2. AllCommitted(t)'
      BY <1>3, <2>2, <3>1, Zenon
    <3> QED
      BY <1>5, <2>1, <2>3, <3>2, Zenon DEF AllCommitted, LegRead
  <2>4. CASE rpc'[l] # "reading"
    <3>1. saw'[l] = saw[l] /\ rtodo[l] = {} /\ rpc[l] # "idle"
      BY <1>1, <1>4, <2>4, Zenon
    <3>2. SomeCommitted(t)
      BY <2>1, <3>1, Zenon DEF LegInv, LegRead, SomeCommitted
    <3>3. XaShards(t)' = XaShards(t) /\ t \notin failed
      BY <3>2, CommittedStep, Zenon
    <3> QED
      BY <3>1, <3>3, Zenon DEF LegInv, LegWhole
  <2> QED
    BY <2>3, <2>4, Zenon
<1>7. \A l \in Legs : rpc'[l] # "reading" => rtodo'[l] = {}
  BY <1>4, Zenon
<1> QED
  BY <1>2, <1>3, <1>5, <1>6, <1>7, Zenon DEF LegInv

\* Nothing is read and nothing is committed.
LEMMA InitLeg == Init => LegInv
BY DEF Init, LegInv, Locked, LegRead, LegWhole, Reading, SomeCommitted, Retrying

\* Until the proxy crashes, one round of reads under CommitRLock sees a write on
\* all of its shards or on none, unless the commit round of that write failed.
THEOREM LegSeesWhole == Spec => [](crashes = 0 => LegSnapshot)
<1> DEFINE I == crashes = 0 => LegInv
<1>1. XaInv /\ I => (crashes = 0 => LegSnapshot)
  <2> SUFFICES ASSUME LegInv PROVE LegSnapshot
    BY Zenon
  <2> QED
    BY Zenon DEF LegInv, LegWhole, LegSnapshot
<1>2. XaInv /\ XaInv' /\ RoundsInv /\ I /\ [Next]_vars => I'
  BY NoCrash, LegStep, Zenon DEF XaInv
<1>3. XaInv /\ XaInv' /\ RoundsInv /\ [Next]_vars => RoundsInv'
  BY RoundsStep, Zenon
<1>4. Init => I
  BY InitLeg, Zenon
<1> HIDE DEF I
<1> QED
  BY <1>1, <1>2, <1>3, <1>4, InitRounds, DecisionCorrect, PTL DEF Spec

=============================================================================
