------------------------------ MODULE TxnLife ------------------------------
(***************************************************************************)
(* One client session, the transactions it runs and everything that may    *)
(* end them from another goroutine: KILL, the idle transaction manager,    *)
(* the exit of the session and the shutdown of the proxy.                  *)
(*                                                                         *)
(* proxy/sessions.go, session.go, execute.go, multistmt_txn.go, kill.go    *)
(* and manager.go drive the transaction of backend/txn.go.  Finish and     *)
(* Abort exclude each other by txn.mu, but the rounds of a statement do    *)
(* not hold it: they overwrite txn.state, read txn.twopc and fetch         *)
(* connections while Abort walks through them.  A round is one call of     *)
(* execute or executeXA; its legs are the goroutines it starts, one for    *)
(* each backend, or one for each side of a UNION.                          *)
(***************************************************************************)
EXTENDS Integers, Sequences, FiniteSets

CONSTANTS Stmts,      \* the statements the client sends
          Killers,    \* who may end the session
          MaxStmts,   \* bound on the statements of the session
          MaxCloses,  \* bound on the passes of Sessions.Close
          MaxFaults   \* bound on errors of backends, pools and plans

Backends == 1..2
None == 0
Kinds == {"dml", "union", "ddl", "begin", "start", "commit", "rollback"}
KillerKinds == {"kill", "idle", "exit", "shutdown"}

ASSUME LifeAssumption ==
  /\ Stmts \subseteq Kinds /\ Killers \subseteq KillerKinds
  /\ MaxStmts \in Nat /\ MaxCloses \in Nat /\ MaxFaults \in Nat

VARIABLES
  inMap,   \* Sessions.sessions has the session
  open,    \* the connection of the client, as the proxy sees it
  bound,   \* session.transaction
  info,    \* session.query, empty when session.node is nil
  old,     \* the last packet is longer ago than IdleTxnTimeout
  ssmu,    \* Sessions.Close holds ss.mu
  pc, stmt, goal, round, leg, got, cur, sent,   \* the goroutine of the session
  tx,      \* the transactions, in the order of their creation
  conn,    \* the connections they took out of the pools
  nums,    \* TxnManager.txnNums
  kpc, ktx, ktodo,   \* the goroutines that end the session
  closes,  \* passes of Sessions.Close over the sessions
  outside, \* transactions whose write ran outside of an XA branch
  faults

sess == <<inMap, open, bound, info, old, ssmu>>
goro == <<pc, stmt, goal, round, leg, got, cur, sent>>
kill == <<kpc, ktx, ktodo, closes>>
lifeVars == <<sess, goro, tx, conn, nums, kill, outside, faults>>

NewTxn == [state |-> "Live", twopc |-> FALSE, multi |-> FALSE, req |-> FALSE,
           errors |-> FALSE, prep |-> {}, removed |-> 0]

LifeInit ==
  /\ inMap = TRUE /\ open = TRUE /\ bound = None /\ info = "" /\ old = FALSE /\ ssmu = FALSE
  /\ pc = "idle" /\ stmt = "dml" /\ goal = "commit" /\ round = "none"
  /\ leg = [l \in Backends |-> "done"] /\ got = [l \in Backends |-> None]
  /\ cur = None /\ sent = 0
  /\ tx = <<>> /\ conn = <<>> /\ nums = 0
  /\ kpc = [k \in Killers |-> "none"] /\ ktx = [k \in Killers |-> None]
  /\ ktodo = [k \in Killers |-> {}]
  /\ outside = {} /\ faults = 0 /\ closes = 0

T == tx[cur]
SetT(upd) == tx' = [tx EXCEPT ![cur] = upd]

\* Mutant: Abort does not release the lock.
MuFreeNever(t) == \A k \in Killers : ~(kpc[k] \in {"twopc", "over"} /\ ktx[k] = t)

\* txn.mu, held by an Abort from its first line to its last.
MuFree(t) == \A k \in Killers : ~(kpc[k] = "twopc" /\ ktx[k] = t)

Fault == faults < MaxFaults /\ faults' = faults + 1
-----------------------------------------------------------------------------
(* The goroutine of the session: a packet, the session it belongs to.      *)

Arrive(s) ==
  /\ pc = "idle" /\ open /\ sent < MaxStmts
  /\ sent' = sent + 1 /\ stmt' = s /\ old' = FALSE /\ pc' = "check" /\ goal' = "commit"
  /\ UNCHANGED <<inMap, open, bound, info, ssmu, round, leg, got, cur, tx, conn, nums, kill, outside, faults>>

Single == {"dml", "union"}
Multi == [s \in Single |-> IF s = "dml" THEN "mdml" ELSE "munion"]
IsMulti(s) == s \in {"mdml", "munion"}
Ends == {"commit", "rollback"}
Begins == {"begin", "start"}

\* getTxnSession returns nil for a session that was killed: the handler panics and
\* the listener closes the connection.
Check ==
  /\ pc = "check"
  /\ ~(stmt \in Ends /\ bound = None)
  /\ ~(stmt \in Begins \union {"ddl"} /\ bound # None)
  /\ pc' = IF ~inMap THEN "dead" ELSE IF bound # None THEN "bind" ELSE "create"
  /\ cur' = IF bound # None THEN bound ELSE cur
  /\ stmt' = IF stmt \in Single /\ bound # None THEN Multi[stmt] ELSE stmt
  /\ UNCHANGED <<sess, goal, round, leg, got, sent, tx, conn, nums, kill, outside, faults>>

\* A nested BEGIN, a DDL in a transaction, a COMMIT without one.
Refuse ==
  /\ pc = "check"
  /\ \/ stmt \in Ends /\ bound = None
     \/ stmt \in Begins \union {"ddl"} /\ bound # None
  /\ pc' = IF inMap THEN "idle" ELSE "dead"
  /\ UNCHANGED <<sess, stmt, goal, round, leg, got, cur, sent, tx, conn, nums, kill, outside, faults>>

CreateTxn ==
  /\ pc = "create"
  /\ tx' = Append(tx, [NewTxn EXCEPT !.multi = (stmt \in Begins)])
  /\ cur' = Len(tx) + 1
  /\ nums' = nums + 1
  /\ pc' = "bind"
  /\ UNCHANGED <<sess, stmt, goal, round, leg, got, sent, conn, kill, outside, faults>>

\* TxnBinding and MultiStmtTxnBinding: nothing happens when the session is gone.
BindEffect ==
  /\ bound' = IF inMap THEN cur ELSE bound
  /\ info' = IF inMap THEN IF stmt \in Begins THEN stmt ELSE "query" ELSE info

StartRound(r, t) ==
  /\ round' = r
  /\ leg' = [l \in Backends |-> "todo"]
  /\ got' = [l \in Backends |-> None]
  /\ pc' = "round"
  /\ SetT([t EXCEPT !.state = IF r = "run" /\ ~t.twopc THEN "ExecutingNormal" ELSE "ExecutingTwoPC"])

\* BeginScatter, CommitScatter and RollbackScatter set twopc and start their first round.
Scatter(r) == StartRound(r, [T EXCEPT !.twopc = TRUE, !.req = TRUE])

Binding ==
  /\ pc = "bind" /\ ~ssmu
  /\ BindEffect
  /\ \/ /\ stmt \in Single
        /\ pc' = "begin"
     \/ /\ stmt = "ddl" \/ IsMulti(stmt)
        /\ pc' = "plan"
     \/ /\ stmt \in Begins \union Ends
        /\ pc' = "scatter"
  /\ UNCHANGED <<inMap, open, old, ssmu, stmt, goal, round, leg, got, cur, sent, tx, conn, nums, kill, outside, faults>>

BeginScatter ==
  /\ pc = "scatter"
  /\ \/ /\ stmt \in Begins
        /\ Scatter("start")
        /\ UNCHANGED goal
     \/ /\ stmt \in Ends
        /\ Scatter("end")
        /\ goal' = stmt
  /\ UNCHANGED <<sess, stmt, cur, sent, conn, nums, kill, outside, faults>>

Begin ==
  /\ pc = "begin"
  /\ SetT([T EXCEPT !.twopc = TRUE])
  /\ pc' = "plan"
  /\ UNCHANGED <<sess, stmt, goal, round, leg, got, cur, sent, conn, nums, kill, outside, faults>>

\* A statement that cannot be planned.  In a multi-statement transaction the handler
\* returns without MultiStmtTxnUnBinding.
PlanFails ==
  /\ pc = "plan"
  /\ Fault
  /\ pc' = IF IsMulti(stmt) THEN "idle" ELSE "unbind"
  /\ UNCHANGED <<sess, stmt, goal, round, leg, got, cur, sent, tx, conn, nums, kill, outside>>

\* Execute of backend/txn.go looks at twopc, stores the request under txn.mu and does
\* XA START for the write of a single-statement transaction.
Execute ==
  /\ pc = "plan"
  /\ IF T.twopc THEN pc' = "request" /\ UNCHANGED <<round, leg, got, tx>> ELSE StartRound("run", T)
  /\ UNCHANGED <<sess, stmt, goal, cur, sent, conn, nums, kill, outside, faults>>

IsWrite(s) == s \in {"dml", "mdml"}

\* Mutant: no XA START before the request.
RequestNoStart ==
  /\ pc = "request" /\ MuFree(cur)
  /\ StartRound("run", [T EXCEPT !.req = TRUE])
  /\ UNCHANGED <<sess, stmt, goal, cur, sent, conn, nums, kill, outside, faults>>

Request ==
  /\ pc = "request" /\ MuFree(cur)
  /\ StartRound(IF IsWrite(stmt) /\ ~T.multi THEN "start" ELSE "run", [T EXCEPT !.req = TRUE])
  /\ UNCHANGED <<sess, stmt, goal, cur, sent, conn, nums, kill, outside, faults>>
-----------------------------------------------------------------------------
(* The legs of a round.                                                    *)

LegBackend(l) == IF stmt \in {"union", "munion"} /\ round = "run" THEN 1 ELSE l
Held(t, b) == {c \in DOMAIN conn : conn[c].tx = t /\ conn[c].be = b /\ conn[c].kind = "twopc"}
NewConn(l, kind) == [be |-> LegBackend(l), tx |-> cur, kind |-> kind, st |-> "open", xa |-> "none"]
UsesTwopc == round # "run" \/ T.twopc

InRound(l, s) == pc = "round" /\ leg[l] \in s
SetLeg(l, s) == leg' = [leg EXCEPT ![l] = s]
LegFrame == UNCHANGED <<sess, pc, stmt, goal, round, cur, sent, nums, kill>>

\* twopcConnection looks for the connection of the backend under RLock ...
twopcConnection(l) ==
  /\ InRound(l, {"todo"}) /\ UsesTwopc
  /\ IF Held(cur, LegBackend(l)) = {}
       THEN SetLeg(l, "want") /\ UNCHANGED got
       ELSE /\ SetLeg(l, "got")
            /\ got' = [got EXCEPT ![l] = CHOOSE c \in Held(cur, LegBackend(l)) : TRUE]
  /\ UNCHANGED <<tx, conn, outside, faults>> /\ LegFrame

Again(l) == leg[l] \in {"want2", "got2"}

\* ... and later stores the one it took from the pool over whatever is there.
StoreTwopc(l) ==
  /\ InRound(l, {"want", "want2"})
  /\ conn' = Append([c \in DOMAIN conn |->
                       IF c \in Held(cur, LegBackend(l)) THEN [conn[c] EXCEPT !.kind = "lost"] ELSE conn[c]],
                    NewConn(l, "twopc"))
  /\ got' = [got EXCEPT ![l] = Len(conn) + 1]
  /\ SetLeg(l, IF Again(l) THEN "got2" ELSE "got")
  /\ UNCHANGED <<tx, outside, faults>> /\ LegFrame

normalConnection(l) ==
  /\ InRound(l, {"todo"}) /\ ~UsesTwopc
  /\ conn' = Append(conn, NewConn(l, "normal"))
  /\ got' = [got EXCEPT ![l] = Len(conn) + 1]
  /\ SetLeg(l, "got")
  /\ UNCHANGED <<tx, outside, faults>> /\ LegFrame

GetFails(l) ==
  /\ InRound(l, {"want", "want2"}) \/ (InRound(l, {"todo"}) /\ ~UsesTwopc)
  /\ Fault
  /\ SetLeg(l, "failed")
  /\ UNCHANGED <<got, tx, conn, outside>> /\ LegFrame

C(l) == conn[got[l]]
\* A prepared branch belongs to its connection until that is gone.
Prepared(l) ==
  /\ LegBackend(l) \in T.prep
  /\ \A c \in DOMAIN conn : conn[c].tx = cur /\ conn[c].be = LegBackend(l) /\ conn[c].xa = "prepared" => c = got[l]

\* What MySQL answers to the command of this round on this connection.
Accepts(l) ==
  /\ C(l).st = "open"
  /\ CASE round = "start"    -> C(l).xa = "none"
       [] round = "run"      -> C(l).xa \in {"none", "active"}
       [] round = "end"      -> C(l).xa = "active"
       [] round = "prepare"  -> C(l).xa = "idle"
       [] round = "commit"   -> Prepared(l)
       [] round = "rollback" -> C(l).xa = "idle" \/ Prepared(l)

XaAfter == [start |-> "active", end |-> "idle", prepare |-> "prepared", commit |-> "none", rollback |-> "none"]

LegRuns(l) ==
  /\ InRound(l, {"got", "got2"}) /\ Accepts(l)
  /\ SetLeg(l, "done")
  /\ conn' = [conn EXCEPT ![got[l]].xa = IF round = "run" THEN @ ELSE XaAfter[round]]
  /\ tx' = [tx EXCEPT ![cur].prep = IF round = "prepare" THEN @ \union {LegBackend(l)}
                                    ELSE IF round \in {"commit", "rollback"} THEN @ \ {LegBackend(l)} ELSE @]
  /\ outside' = IF round = "run" /\ IsWrite(stmt) /\ C(l).xa # "active" THEN outside \union {cur} ELSE outside
  /\ UNCHANGED <<got, faults>> /\ LegFrame

\* An error packet or a dead connection.  XA COMMIT and XA ROLLBACK are tried again on
\* a new connection, unless the backend does not know the transaction.
Retries(l) ==
  /\ round \in {"commit", "rollback"} /\ ~Again(l)
  /\ C(l).st # "open" \/ Accepts(l)

incErrors(l) ==
  /\ IF Retries(l)
       THEN /\ conn' = [conn EXCEPT ![got[l]].kind = "lost", ![got[l]].st = "closed", ![got[l]].xa = "none"]
            /\ SetLeg(l, "want2")
       ELSE SetLeg(l, "failed") /\ UNCHANGED conn

LegRefused(l) ==
  /\ InRound(l, {"got", "got2"}) /\ ~Accepts(l)
  /\ incErrors(l)
  /\ UNCHANGED <<got, tx, outside, faults>> /\ LegFrame

LegFails(l) ==
  /\ InRound(l, {"got", "got2"}) /\ Accepts(l)
  /\ Fault
  /\ incErrors(l)
  /\ UNCHANGED <<got, tx, outside>> /\ LegFrame
-----------------------------------------------------------------------------
(* The end of a round, and what the handler does next.                     *)

RoundOver == pc = "round" /\ \A l \in Backends : leg[l] \in {"done", "failed"}
Failed == \E l \in Backends : leg[l] = "failed"
RoundFrame == UNCHANGED <<sess, stmt, cur, sent, conn, nums, kill, outside, faults>>

GoTo(p, t) ==
  /\ pc' = p /\ SetT(t)
  /\ leg' = [l \in Backends |-> "done"] /\ got' = [l \in Backends |-> None] /\ round' = "none"

\* Commit and RollbackPhaseOne read txn.req, which Execute sets only in twopc mode.
Phase(t, g) ==
  LET s == [t EXCEPT !.state = IF g = "commit" THEN "Committing" ELSE "Rollbacking"] IN
  /\ goal' = IF t.req THEN g ELSE "panic"
  /\ IF ~t.req \/ stmt = "union" THEN GoTo("unbind", s) ELSE StartRound("end", s)

\* Mutant: the error is not counted.
CountedNot == T

Counted == [T EXCEPT !.errors = @ \/ Failed]

AfterSingle(t) ==
  \/ /\ round \in {"start", "run"} /\ Failed
     /\ Phase(t, "rollback")
  \/ /\ round = "start" /\ ~Failed
     /\ StartRound("run", t) /\ UNCHANGED goal
  \/ /\ round = "run" /\ ~Failed
     /\ Phase(t, "commit")
  \/ /\ round = "end" /\ ~Failed
     /\ StartRound(IF goal = "commit" THEN "prepare" ELSE "rollback", t) /\ UNCHANGED goal
  \/ /\ round = "prepare" /\ ~Failed
     /\ StartRound("commit", t) /\ UNCHANGED goal
  \/ /\ (round \in {"end", "prepare"} /\ Failed) \/ round \in {"commit", "rollback"}
     /\ GoTo("unbind", t) /\ UNCHANGED goal

\* XA START of a statement of a multi-statement transaction: only after an Abort has
\* cleared isMultiStmtTxn.
AfterMulti(t) ==
  /\ UNCHANGED goal
  /\ IF round = "start" /\ ~Failed THEN StartRound("run", t)
     ELSE GoTo(IF Failed THEN "idle" ELSE "unbind", t)

AfterBegin(t) ==
  /\ UNCHANGED goal
  /\ GoTo(IF Failed THEN "finish" ELSE "idle", t)

\* A COMMIT or ROLLBACK that fails returns its error and leaves the transaction bound.
AfterEnd(t) ==
  /\ UNCHANGED goal
  /\ \/ /\ round \in {"end", "prepare"} /\ Failed
        /\ GoTo("idle", t)
     \/ /\ round \in {"end", "prepare"} /\ ~Failed
        /\ StartRound(IF round = "end" THEN "prepare" ELSE goal, t)
     \/ /\ round \in {"commit", "rollback"}
        /\ GoTo("unbind", t)

RoundEnds ==
  /\ RoundOver
  /\ \/ stmt \in Single /\ AfterSingle(Counted)
     \/ IsMulti(stmt) /\ AfterMulti(Counted)
     \/ stmt \in Begins /\ AfterBegin(Counted)
     \/ stmt \in Ends /\ AfterEnd(Counted)
     \/ stmt = "ddl" /\ GoTo("unbind", Counted) /\ UNCHANGED goal
  /\ RoundFrame

\* TxnUnBinding, MultiStmtTxnUnBinding.  A BEGIN that failed finishes first.
UnBinding ==
  /\ pc = "unbind" /\ ~ssmu
  /\ bound' = IF inMap /\ ~IsMulti(stmt) THEN None ELSE bound
  /\ info' = IF inMap THEN "" ELSE info
  /\ pc' = IF IsMulti(stmt) \/ stmt \in Begins THEN "idle" ELSE "finish"
  /\ UNCHANGED <<inMap, open, old, ssmu, stmt, goal, round, leg, got, cur, sent, tx, conn, nums, kill, outside, faults>>

\* Recycle puts a connection back unless its driver noticed that it is gone; a
\* connection that was killed between two statements looks alive.
Release(c) == IF T.errors \/ c.st = "closed" THEN "closed" ELSE "pooled"
Released(c) ==
  IF conn[c].tx # cur \/ conn[c].kind = "lost" THEN conn[c]
  ELSE [conn[c] EXCEPT !.st = Release(conn[c]), !.kind = IF @ = "twopc" THEN "lost" ELSE @,
                       !.xa = IF Release(conn[c]) = "pooled" THEN @ ELSE "none"]

Finish ==
  /\ pc = "finish" /\ MuFree(cur)
  /\ IF T.state = "Aborting"
       THEN SetT([T EXCEPT !.twopc = FALSE, !.multi = FALSE]) /\ UNCHANGED <<conn, nums>>
       ELSE /\ SetT([T EXCEPT !.twopc = FALSE, !.multi = FALSE, !.state = "Finishing", !.removed = @ + 1])
            /\ conn' = [c \in DOMAIN conn |-> Released(c)]
            /\ nums' = nums - 1
  /\ pc' = IF stmt \in Begins THEN "unbind" ELSE IF goal = "panic" THEN "dead" ELSE "idle"
  /\ UNCHANGED <<sess, stmt, goal, round, leg, got, cur, sent, kill, outside, faults>>
-----------------------------------------------------------------------------
(* Ending the session from outside.                                        *)

TimePasses ==
  /\ "idle" \in Killers /\ ~old /\ bound # None
  /\ old' = TRUE
  /\ UNCHANGED <<inMap, open, bound, info, ssmu, goro, tx, conn, nums, kill, outside, faults>>

\* killIdleTxn: the sessions to kill come from a snapshot.
IdleInfo(i) == i \in {"begin", ""}
SnapshotTxn ==
  /\ "idle" \in Killers /\ kpc["idle"] = "none" /\ ~ssmu
  /\ inMap /\ bound # None /\ old /\ IdleInfo(info)
  /\ kpc' = [kpc EXCEPT !["idle"] = "target"]
  /\ UNCHANGED <<sess, goro, tx, conn, nums, ktx, ktodo, closes, outside, faults>>

\* The goroutine of the session ends: the client quits, the connection was closed, or
\* the handler panicked.
Exits == pc \in {"idle", "dead"}

MayKill(k) ==
  CASE k = "kill"     -> kpc[k] = "none"
    [] k = "idle"     -> kpc[k] = "target"
    [] k = "exit"     -> kpc[k] = "none" /\ Exits
    [] k = "shutdown" -> kpc[k] = "none" /\ closes < MaxCloses

\* Sessions.Kill and Sessions.Remove: the session leaves the map first.
KillSession(k) ==
  /\ k # "shutdown" /\ MayKill(k) /\ ~ssmu
  /\ inMap' = FALSE
  /\ kpc' = [kpc EXCEPT ![k] = IF inMap THEN "close" ELSE "over"]
  /\ pc' = IF k = "exit" THEN "gone" ELSE pc
  /\ UNCHANGED <<open, bound, info, old, ssmu, stmt, goal, round, leg, got, cur, sent, tx, conn, nums, ktx, ktodo, closes, outside, faults>>

\* Sessions.Close keeps ss.mu and the session stays in the map until it removes itself;
\* after a second it closes the sessions again.
CloseSessions(k) ==
  /\ k = "shutdown" /\ MayKill(k) /\ inMap /\ ~ssmu
  /\ ssmu' = TRUE /\ closes' = closes + 1
  /\ kpc' = [kpc EXCEPT ![k] = "close"]
  /\ UNCHANGED <<inMap, open, bound, info, old, goro, tx, conn, nums, ktx, ktodo, outside, faults>>

Done(k) == IF k = "shutdown" THEN "none" ELSE "over"
Unlocked(k) == IF k = "shutdown" THEN FALSE ELSE ssmu

\* session.close: the connection of the client, then the transaction.
CloseSession(k) ==
  /\ kpc[k] = "close"
  /\ open' = FALSE
  /\ ktx' = [ktx EXCEPT ![k] = bound]
  /\ kpc' = [kpc EXCEPT ![k] = IF bound = None THEN Done(k) ELSE "lock"]
  /\ ssmu' = IF bound = None THEN Unlocked(k) ELSE ssmu
  /\ UNCHANGED <<inMap, bound, info, old, goro, tx, conn, nums, ktodo, closes, outside, faults>>

TwopcOf(t) == {c \in DOMAIN conn : conn[c].tx = t /\ conn[c].kind = "twopc"}
Cleared(t) == [tx[t] EXCEPT !.twopc = FALSE, !.multi = FALSE]

\* Mutant: Abort does not look at the state.
AbortLockUnchecked(k) ==
  /\ kpc[k] = "lock" /\ MuFree(ktx[k])
  /\ tx' = [tx EXCEPT ![ktx[k]].state = "Aborting"]
  /\ kpc' = [kpc EXCEPT ![k] = "twopc"]
  /\ ktodo' = [ktodo EXCEPT ![k] = TwopcOf(ktx[k])]
  /\ UNCHANGED <<sess, goro, conn, nums, ktx, closes, outside, faults>>

AbortLock(k) ==
  /\ kpc[k] = "lock" /\ MuFree(ktx[k])
  /\ IF tx[ktx[k]].state = "Finishing"
       THEN /\ tx' = [tx EXCEPT ![ktx[k]] = Cleared(ktx[k])]
            /\ kpc' = [kpc EXCEPT ![k] = Done(k)]
            /\ ssmu' = Unlocked(k) /\ UNCHANGED ktodo
       ELSE /\ tx' = [tx EXCEPT ![ktx[k]].state = "Aborting"]
            /\ kpc' = [kpc EXCEPT ![k] = "twopc"]
            /\ ktodo' = [ktodo EXCEPT ![k] = TwopcOf(ktx[k])]
            /\ UNCHANGED ssmu
  /\ UNCHANGED <<inMap, open, bound, info, old, goro, conn, nums, ktx, closes, outside, faults>>

Killed(c) == [conn[c] EXCEPT !.st = IF @ = "closed" THEN @ ELSE "killed", !.xa = "none"]

\* The loop over twopcConnections sees the entries that were there when it started;
\* one that is added meanwhile may be seen or not.
AbortTwopc(k, c) ==
  /\ kpc[k] = "twopc" /\ c \in TwopcOf(ktx[k])
  /\ conn' = [conn EXCEPT ![c] = [Killed(c) EXCEPT !.kind = "lost"]]
  /\ UNCHANGED <<sess, goro, tx, nums, kill, outside, faults>>

\* Mutant: Abort leaves the transaction in the manager.
AbortEndNoRemove(k) ==
  /\ kpc[k] = "twopc" /\ ktodo[k] \intersect TwopcOf(ktx[k]) = {}
  /\ conn' = [c \in DOMAIN conn |-> IF conn[c].tx = ktx[k] /\ conn[c].kind = "normal" THEN Killed(c) ELSE conn[c]]
  /\ tx' = [tx EXCEPT ![ktx[k]] = Cleared(ktx[k])]
  /\ kpc' = [kpc EXCEPT ![k] = Done(k)]
  /\ ktodo' = [ktodo EXCEPT ![k] = {}]
  /\ ssmu' = Unlocked(k)
  /\ UNCHANGED <<inMap, open, bound, info, old, goro, nums, ktx, closes, outside, faults>>

\* The normal connections, then the deferred functions of Abort.
AbortEnd(k) ==
  /\ kpc[k] = "twopc" /\ ktodo[k] \intersect TwopcOf(ktx[k]) = {}
  /\ conn' = [c \in DOMAIN conn |-> IF conn[c].tx = ktx[k] /\ conn[c].kind = "normal" THEN Killed(c) ELSE conn[c]]
  /\ nums' = nums - 1
  /\ tx' = [tx EXCEPT ![ktx[k]] = [Cleared(ktx[k]) EXCEPT !.removed = @ + 1]]
  /\ kpc' = [kpc EXCEPT ![k] = Done(k)]
  /\ ktodo' = [ktodo EXCEPT ![k] = {}]
  /\ ssmu' = Unlocked(k)
  /\ UNCHANGED <<inMap, open, bound, info, old, goro, ktx, closes, outside, faults>>
-----------------------------------------------------------------------------
LegStep(l) ==
  \/ twopcConnection(l) \/ StoreTwopc(l) \/ normalConnection(l) \/ GetFails(l)
  \/ LegRuns(l) \/ LegRefused(l) \/ LegFails(l)

SessionStep ==
  \/ Check \/ Refuse \/ CreateTxn \/ Binding \/ Begin \/ BeginScatter \/ Execute \/ Request
  \/ RoundEnds \/ UnBinding \/ Finish
  \/ \E l \in Backends : LegStep(l)

AbortStep(k) ==
  \/ CloseSession(k) \/ AbortLock(k) \/ AbortEnd(k)
  \/ \E c \in DOMAIN conn : AbortTwopc(k, c)

KillerStep(k) == KillSession(k) \/ CloseSessions(k) \/ AbortStep(k)

LifeNext ==
  \/ \E s \in Stmts : Arrive(s)
  \/ PlanFails
  \/ SessionStep
  \/ TimePasses
  \/ SnapshotTxn
  \/ \E k \in Killers : KillerStep(k)

LifeSpec == LifeInit /\ [][LifeNext]_lifeVars

\* The goroutines run; the ticker of the manager fires; time passes.
LifeFairness ==
  /\ WF_lifeVars(SessionStep) /\ WF_lifeVars(TimePasses) /\ WF_lifeVars(SnapshotTxn)
  /\ \A k \in Killers \ {"exit", "kill"} : WF_lifeVars(KillerStep(k))
  /\ \A k \in Killers : WF_lifeVars(AbortStep(k))
LifeFairSpec == LifeSpec /\ LifeFairness
-----------------------------------------------------------------------------
LifeTypeOK ==
  /\ {inMap, open, old, ssmu} \subseteq BOOLEAN
  /\ bound \in 0..Len(tx) /\ cur \in 0..Len(tx)
  /\ info \in {"", "query"} \union Begins
  /\ pc \in {"idle", "check", "create", "bind", "begin", "scatter", "plan", "request", "round",
            "unbind", "finish", "dead", "gone"}
  /\ stmt \in Kinds \union {"mdml", "munion"}
  /\ \A c \in DOMAIN conn :
       /\ conn[c].tx \in DOMAIN tx /\ conn[c].be \in Backends
       /\ conn[c].kind \in {"twopc", "normal", "lost"}
       /\ conn[c].st \in {"open", "killed", "closed", "pooled"}
  /\ \A t \in DOMAIN tx : \A b \in Backends : \A c, d \in Held(t, b) : c = d

\* A connection goes back to its pool with no XA branch left open on it: every error of
\* XA START, XA END or XA PREPARE makes Finish close the connections instead.
PooledNoBranch == \A c \in DOMAIN conn : conn[c].st = "pooled" => conn[c].xa = "none"

\* Abort never kills a connection that Finish has given back and that may serve another
\* session, although the killer read session.transaction before the transaction ended.
NoKillAfterRelease == [][\A c \in DOMAIN conn : conn[c].st = "pooled" => conn'[c].st = "pooled"]_lifeVars

Quiet == pc \in {"idle", "dead", "gone"} /\ \A k \in DOMAIN kpc : kpc[k] \in {"none", "target", "over"}

\* When nothing is running, a connection is still open only for the transaction that is
\* bound to the live session.
NoLeak == Quiet => \A c \in DOMAIN conn : conn[c].st = "open" => inMap /\ conn[c].tx = bound

\* A transaction is removed from the manager once: Finish and Abort do nothing after
\* each other.
RemovedOnce == \A t \in DOMAIN tx : tx[t].removed <= 1

\* When nothing is running, every transaction but the one of the live session has been
\* finished or aborted.
TxnEnds == Quiet => \A t \in DOMAIN tx : tx[t].removed = 0 => inMap /\ t = bound

\* The same whoever ends the session, but for what BEGIN started: a KILL that comes
\* before MultiStmtTxnBinding leaves that transaction with nobody.
SingleEnds == Quiet => \A t \in DOMAIN tx : tx[t].removed = 0 => tx[t].multi

\* A write of a transaction in twopc mode runs inside of an XA branch.
WritesInBranch == outside = {}

\* A connection that twopcConnection took is the one stored for its backend until it is
\* closed or killed.
StoredConn == \A c \in DOMAIN conn : conn[c].kind = "lost" => conn[c].st # "open"

\* Nobody but the client ends the session.
OnlyClient == DOMAIN kpc \subseteq {"exit"}

\* Every connection goes back to its pool with no branch on it, whoever ends the
\* session; while only the client does, and without UNION, none stays with a
\* transaction that is over, and none is lost by the statement that took it (Finish,
\* Abort, twopcConnection).
ConnsGoBack ==
  /\ LifeTypeOK /\ PooledNoBranch
  /\ OnlyClient /\ "union" \notin Stmts => NoLeak /\ StoredConn

\* A transaction of a single statement is removed from the manager, by Finish or by
\* Abort, whoever ends the session; while only the client does, every transaction is,
\* and exactly once.
EndedOnce == SingleEnds /\ (OnlyClient => TxnEnds /\ RemovedOnce)

\* A write of a transaction in twopc mode runs inside of an XA branch, as long as nobody
\* kills the session (Execute, Request).
WritesInside == OnlyClient => WritesInBranch

\* The goroutine of a statement does not write to the map of connections while Abort
\* ranges over it.
\* NOT KEPT by the code: see "Known disagreements" in the README.
NoMapRace ==
  ~ \E l \in Backends, k \in Killers :
      InRound(l, {"want", "want2"}) /\ kpc[k] = "twopc" /\ ktx[k] = cur

\* The idle transaction manager kills a session only while it runs no statement.
\* NOT KEPT by the code: see "Known disagreements" in the README.
IdleKillSparesBusy == [][kpc["idle"] = "target" /\ kpc'["idle"] = "close" => pc = "idle"]_lifeVars

IdleIn(infos) == inMap /\ bound # None /\ pc = "idle" /\ info \in infos
\* Every session that idles in a transaction is killed unless the client goes on.
\* NOT KEPT by the code: see "Known disagreements" in the README.
IdleTxnKilled == IdleIn({"begin", "start", "", "query"}) ~> (~inMap \/ pc # "idle")

\* A statement ends, whatever is killed meanwhile: nobody waits for txn.mu or ss.mu
\* for ever.
HandlerEnds == pc = "check" ~> pc \in {"idle", "dead", "gone"}
=============================================================================
