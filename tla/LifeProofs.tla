----------------------------- MODULE LifeProofs -----------------------------
(***************************************************************************)
(* Abort and Finish of one transaction (TxnLife): what Finish gave back to *)
(* a pool is nobody's to kill, although the rounds of a statement overwrite *)
(* txn.state without txn.mu.  For any statements, killers, number of       *)
(* statements, passes of Sessions.Close and failures.                      *)
(***************************************************************************)
EXTENDS TxnLife, TLAPS

TxnRecs ==
  [state : {"Live", "ExecutingNormal", "ExecutingTwoPC", "Committing", "Rollbacking", "Aborting", "Finishing"},
   twopc : BOOLEAN, multi : BOOLEAN, req : BOOLEAN, errors : BOOLEAN,
   prep : SUBSET Backends, removed : Nat]

ConnRecs ==
  [be : Backends, tx : Nat, kind : {"twopc", "normal", "lost"},
   st : {"open", "killed", "closed", "pooled"},
   xa : {"none", "active", "idle", "prepared"}]

Rounds == {"start", "run", "end", "prepare", "commit", "rollback"}

PcNames == {"idle", "check", "create", "bind", "begin", "scatter", "plan", "request", "round", "unbind", "finish",
            "dead", "gone"}
LegNames == {"todo", "want", "want2", "got", "got2", "done", "failed"}

KpcNames == {"none", "target", "close", "lock", "twopc", "over"}

\* What the goroutine of the session may leave behind in its own variables.
GoroTypes ==
  /\ cur \in 0..Len(tx) /\ pc \in PcNames
  /\ stmt \in Kinds \union {"mdml", "munion"} /\ goal \in {"commit", "rollback", "panic"}
  /\ round \in Rounds \union {"none"} /\ (pc = "round" => round # "none")
  /\ leg \in [Backends -> LegNames] /\ got \in [Backends -> Nat]

\* The types the argument uses: transactions and connections are never taken
\* away, and every connection belongs to a transaction there is.
LifeTypes ==
  /\ tx \in Seq(TxnRecs) /\ conn \in Seq(ConnRecs) /\ inMap \in BOOLEAN
  /\ bound \in 0..Len(tx) /\ GoroTypes
  /\ \A c \in 1..Len(conn) : conn[c].tx \in 1..Len(tx)
  /\ kpc \in [Killers -> KpcNames]
  /\ ktx \in [Killers -> 0..Len(tx)]
  /\ \A k \in Killers : kpc[k] \in {"lock", "twopc"} => ktx[k] # None

Fin(t) == tx[t].state = "Finishing"
Busy == {"bind", "begin", "scatter", "plan", "request", "round", "unbind", "finish"}

\* A handler that works on a transaction has one that Finish has not seen,
\* but for a BEGIN that failed: it finishes before it unbinds.
HandlerLive ==
  /\ pc \in Busy => cur # None
  /\ pc \in Busy /\ Fin(cur) => pc = "unbind" /\ stmt \in Begins
  /\ pc = "round" /\ stmt \in Ends => goal \in Ends
  /\ pc \in {"begin", "plan", "request"} => ~(stmt \in Ends)
  /\ pc = "finish" /\ inMap /\ bound = cur => stmt \in Begins

\* A session in the map is not bound to a transaction that is finished, but for
\* that BEGIN.
BoundLive ==
  bound # None /\ Fin(bound) /\ inMap => pc = "unbind" /\ bound = cur /\ stmt \in Begins

\* What is pooled was given back by Finish, which leaves the map of its
\* transaction empty.
PooledByFinish ==
  \A c \in 1..Len(conn) : conn[c].st = "pooled" => Fin(conn[c].tx) /\ conn[c].kind # "twopc"

\* An Abort that passed the test of the state works on a transaction that is
\* not finished until it is done.
AbortBeforeFinish == \A k \in Killers : kpc[k] = "twopc" => ~Fin(ktx[k])

\* The legs of a round work on connections of the transaction of the round.
LegsOwn ==
  pc = "round" => \A l \in Backends :
    leg[l] \in {"got", "got2"} => got[l] \in 1..Len(conn) /\ conn[got[l]].tx = cur

LifeInv == LifeTypes /\ HandlerLive /\ BoundLive /\ PooledByFinish /\ AbortBeforeFinish /\ LegsOwn

KeepsPooled == \A c \in DOMAIN conn : conn[c].st = "pooled" => conn'[c].st = "pooled"

\* A step that changes no transaction's being finished.
FinKept == /\ Len(tx') = Len(tx) /\ tx' \in Seq(TxnRecs)
           /\ \A t \in 1..Len(tx) : Fin(t)' <=> Fin(t)

\* What the types say of the two sequences and of the killers.
LEMMA LifeFacts ==
  ASSUME LifeInv
  PROVE  /\ tx \in Seq(TxnRecs) /\ Len(tx) \in Nat
         /\ conn \in Seq(ConnRecs) /\ Len(conn) \in Nat /\ DOMAIN conn = 1..Len(conn)
         /\ kpc \in [Killers -> KpcNames] /\ ktx \in [Killers -> 0..Len(tx)]
<1>1. tx \in Seq(TxnRecs) /\ conn \in Seq(ConnRecs)  BY Zenon DEF LifeInv, LifeTypes
<1>2. kpc \in [Killers -> KpcNames] /\ ktx \in [Killers -> 0..Len(tx)]  BY Zenon DEF LifeInv, LifeTypes
<1> QED  BY <1>1, <1>2

\* A step that changes none of its variables keeps LifeInv.
LEMMA LifeStutter ==
  ASSUME LifeInv, UNCHANGED <<tx, conn, bound, pc, stmt, goal, round, leg, got, cur, ktx, kpc, inMap>>
  PROVE  LifeInv'
<1>1. /\ tx' = tx /\ conn' = conn /\ bound' = bound /\ pc' = pc /\ stmt' = stmt /\ goal' = goal
      /\ round' = round /\ leg' = leg /\ got' = got /\ cur' = cur /\ ktx' = ktx /\ kpc' = kpc /\ inMap' = inMap
  BY Zenon
<1>2. GoroTypes'  BY <1>1, Zenon DEF LifeInv, LifeTypes, GoroTypes
<1>3. LifeTypes'  BY <1>1, <1>2, Zenon DEF LifeInv, LifeTypes
<1>4. HandlerLive'  BY <1>1, SMTT(20) DEF LifeInv, HandlerLive, Fin
<1>5. BoundLive'  BY <1>1, SMTT(20) DEF LifeInv, BoundLive, Fin
<1>6. PooledByFinish' /\ AbortBeforeFinish'  BY <1>1, Zenon DEF LifeInv, PooledByFinish, AbortBeforeFinish, Fin
<1>7. LegsOwn'  BY <1>1, Zenon DEF LifeInv, LegsOwn
<1> QED  BY <1>3, <1>4, <1>5, <1>6, <1>7, Zenon DEF LifeInv

\* Before the first packet there is no transaction and no connection.
LEMMA LifeInitInv == LifeInit => LifeInv
<1> SUFFICES ASSUME LifeInit PROVE LifeInv  BY Zenon
<1>1. tx = <<>> /\ conn = <<>> /\ Len(tx) = 0 /\ Len(conn) = 0 /\ pc = "idle" /\ cur = 0 /\ bound = 0
  BY Zenon DEF LifeInit, None
<1>2. tx \in Seq(TxnRecs) /\ conn \in Seq(ConnRecs)  BY <1>1
<1>3. \A k \in Killers : kpc[k] = "none" /\ ktx[k] = 0  BY Zenon DEF LifeInit, None
<1>4. kpc \in [Killers -> KpcNames] /\ leg \in [Backends -> LegNames]
  BY Zenon DEF LifeInit, LegNames, KpcNames
<1>10. ktx \in [Killers -> 0..0] /\ got \in [Backends -> Nat]
  <2>1. 0 \in 0..0 /\ 0 \in Nat  OBVIOUS
  <2> QED  BY <2>1, Zenon DEF LifeInit, None
<1>5. /\ inMap \in BOOLEAN /\ stmt \in Kinds \union {"mdml", "munion"}
      /\ goal \in {"commit", "rollback", "panic"} /\ round \in Rounds \union {"none"}
  BY Zenon DEF LifeInit, Kinds, Rounds
<1>6. LifeTypes  BY <1>1, <1>2, <1>3, <1>4, <1>5, <1>10 DEF LifeTypes, GoroTypes, PcNames
<1>7. HandlerLive /\ BoundLive /\ LegsOwn  BY <1>1, Zenon DEF HandlerLive, BoundLive, LegsOwn, Busy, None
<1>8. PooledByFinish  BY <1>1 DEF PooledByFinish
<1>9. AbortBeforeFinish  BY <1>3, Zenon DEF AbortBeforeFinish
<1> QED  BY <1>6, <1>7, <1>8, <1>9, Zenon DEF LifeInv

\* One transaction is overwritten, and what is finished stays as it was.
LEMMA SetOne ==
  ASSUME tx \in Seq(TxnRecs), NEW t \in 1..Len(tx), NEW r \in TxnRecs,
         tx' = [tx EXCEPT ![t] = r], r.state = "Finishing" <=> Fin(t)
  PROVE  FinKept
BY DEF FinKept, Fin

\* The steps of the handler between two rounds of one statement.
LEMMA StartRoundStep ==
  ASSUME LifeInv, NEW r \in Rounds, NEW t \in TxnRecs, StartRound(r, t), cur # None, ~Fin(cur)
  PROVE  /\ FinKept /\ pc' = "round" /\ round' = r
         /\ leg' = [l \in Backends |-> "todo"] /\ got' = [l \in Backends |-> None]
<1> DEFINE u == [t EXCEPT !.state = IF r = "run" /\ ~t.twopc THEN "ExecutingNormal" ELSE "ExecutingTwoPC"]
<1>1. u \in TxnRecs /\ u.state # "Finishing"  BY Zenon DEF TxnRecs
<1>2. tx \in Seq(TxnRecs) /\ cur \in 1..Len(tx)  BY DEF LifeInv, LifeTypes, GoroTypes, None
<1>3. tx' = [tx EXCEPT ![cur] = u]  BY Zenon DEF StartRound, SetT
<1>4. FinKept
  <2> HIDE DEF u
  <2> QED  BY <1>1, <1>2, <1>3, SetOne, Zenon
<1> QED  BY <1>4, Zenon DEF StartRound

\* The end of the rounds of a statement overwrites its transaction and resets the legs.
LEMMA GoToStep ==
  ASSUME LifeInv, NEW p, NEW t \in TxnRecs, GoTo(p, t), cur # None,
         t.state = "Finishing" <=> Fin(cur)
  PROVE  /\ FinKept /\ pc' = p /\ round' = "none"
         /\ leg' = [l \in Backends |-> "done"] /\ got' = [l \in Backends |-> None]
<1>2. tx \in Seq(TxnRecs) /\ cur \in 1..Len(tx)  BY DEF LifeInv, LifeTypes, GoroTypes, None
<1>3. tx' = [tx EXCEPT ![cur] = t]  BY Zenon DEF GoTo, SetT
<1>4. FinKept  BY <1>2, <1>3, SetOne, Zenon
<1> QED  BY <1>4, Zenon DEF GoTo

\* Nothing is pooled by a step that leaves the connections alone.
LEMMA PoolFrame == LifeInv /\ FinKept /\ UNCHANGED conn => PooledByFinish'
BY Zenon DEF LifeInv, LifeTypes, PooledByFinish, FinKept, Fin

\* An Abort goes on with the transaction it found.
LEMMA KillFrame == LifeInv /\ FinKept /\ UNCHANGED <<kpc, ktx>> => AbortBeforeFinish'
<1> SUFFICES ASSUME LifeInv, FinKept, UNCHANGED <<kpc, ktx>>, NEW k \in Killers, kpc[k] = "twopc"
             PROVE  ~(tx'[ktx[k]].state = "Finishing")
  BY Zenon DEF AbortBeforeFinish, Fin
<1>1. ktx[k] \in 1..Len(tx) /\ ~Fin(ktx[k])  BY DEF LifeInv, LifeTypes, AbortBeforeFinish, None
<1> QED  BY <1>1, Zenon DEF FinKept, Fin

\* A step that leaves the transactions alone finishes none.
LEMMA SameTx == LifeInv /\ UNCHANGED tx => FinKept
BY Zenon DEF LifeInv, LifeTypes, FinKept, Fin

\* A step of the handler that takes and gives back no connection.
LEMMA HandlerStep ==
  ASSUME LifeInv, FinKept, UNCHANGED <<conn, kpc, ktx, inMap>>, bound' \in 0..Len(tx), GoroTypes',
         pc' = "round" => \A l \in Backends : leg'[l] = "todo",
         HandlerLive', BoundLive'
  PROVE  LifeInv' /\ KeepsPooled
<1>1. LifeTypes'
  <2>1. /\ conn' = conn /\ kpc' = kpc /\ ktx' = ktx /\ inMap' = inMap /\ LifeTypes
        /\ Len(tx') = Len(tx) /\ tx' \in Seq(TxnRecs)
    BY Zenon DEF LifeInv, FinKept
  <2> QED  BY <2>1, Zenon DEF LifeTypes
<1>2. PooledByFinish' /\ AbortBeforeFinish'  BY PoolFrame, KillFrame, Zenon
<1>3. LegsOwn'  BY Zenon DEF LegsOwn
<1>4. KeepsPooled  BY Zenon DEF KeepsPooled
<1> QED  BY <1>1, <1>2, <1>3, <1>4, Zenon DEF LifeInv

\* A packet arrives: the handler has no transaction yet.
LEMMA ArriveInv == ASSUME LifeInv, NEW s \in Stmts, Arrive(s) PROVE LifeInv' /\ KeepsPooled
<1>1. FinKept /\ UNCHANGED <<conn, kpc, ktx, inMap, bound>>  BY SameTx, Zenon DEF Arrive, kill
<1>2. s \in Kinds  BY LifeAssumption, Zenon
<1>3. GoroTypes'  BY <1>1, <1>2, Zenon DEF LifeInv, LifeTypes, GoroTypes, PcNames, Arrive
<1>4. HandlerLive' /\ pc' # "round"  BY Zenon DEF Arrive, HandlerLive, Busy
<1>5. BoundLive'  BY <1>1 DEF LifeInv, LifeTypes, Arrive, BoundLive, Fin
<1> QED  BY <1>1, <1>3, <1>4, <1>5, HandlerStep, Zenon DEF LifeInv, LifeTypes

\* The handler looks up its session: what it finds bound in the map is not finished.
LEMMA CheckInv == ASSUME LifeInv, Check PROVE LifeInv' /\ KeepsPooled
<1>1. FinKept /\ UNCHANGED <<conn, kpc, ktx, inMap, bound, tx>>  BY SameTx, Zenon DEF Check, kill, sess
<1>2. GoroTypes'
  BY <1>1, Zenon DEF LifeInv, LifeTypes, GoroTypes, PcNames, Check, Kinds, Single, Multi
<1>3. BoundLive' /\ pc' # "round"  BY <1>1, Zenon DEF LifeInv, Check, BoundLive, Fin
<1>4. HandlerLive'
  BY <1>1, Zenon DEF LifeInv, Check, HandlerLive, BoundLive, Busy, Fin, None
<1> QED  BY <1>1, <1>2, <1>3, <1>4, HandlerStep, Zenon DEF LifeInv, LifeTypes

\* A statement that its session does not allow ends at once.
LEMMA RefuseInv == ASSUME LifeInv, Refuse PROVE LifeInv' /\ KeepsPooled
<1>1. FinKept /\ UNCHANGED <<conn, kpc, ktx, inMap, bound, tx>>  BY SameTx, Zenon DEF Refuse, kill, sess
<1>2. GoroTypes'  BY <1>1, Zenon DEF LifeInv, LifeTypes, GoroTypes, PcNames, Refuse
<1>3. BoundLive' /\ pc' # "round"  BY <1>1, Zenon DEF LifeInv, Refuse, BoundLive, Fin
<1>4. HandlerLive'  BY Zenon DEF Refuse, HandlerLive, Busy
<1> QED  BY <1>1, <1>2, <1>3, <1>4, HandlerStep, Zenon DEF LifeInv, LifeTypes

\* Begin sets twopc and leaves the state alone.
LEMMA BeginInv == ASSUME LifeInv, Begin PROVE LifeInv' /\ KeepsPooled
<1>1. cur \in 1..Len(tx) /\ ~Fin(cur) /\ tx[cur] \in TxnRecs
  BY DEF LifeInv, LifeTypes, GoroTypes, HandlerLive, Busy, Begin, None
<1>2. FinKept
  <2>1. tx' = [tx EXCEPT ![cur] = [tx[cur] EXCEPT !.twopc = TRUE]]  BY Zenon DEF Begin, SetT, T
  <2>2. [tx[cur] EXCEPT !.twopc = TRUE] \in TxnRecs /\ [tx[cur] EXCEPT !.twopc = TRUE].state = tx[cur].state
    BY <1>1, Zenon DEF TxnRecs
  <2> QED  BY <1>1, <2>1, <2>2, SetOne, Zenon DEF LifeInv, LifeTypes, Fin
<1>3. UNCHANGED <<conn, kpc, ktx, inMap, bound>>  BY Zenon DEF Begin, kill, sess
<1>4. GoroTypes'  BY <1>2, Zenon DEF LifeInv, LifeTypes, GoroTypes, PcNames, Begin, FinKept
<1>5. HandlerLive' /\ BoundLive' /\ pc' # "round"
  BY <1>1, <1>2, <1>3 DEF LifeInv, LifeTypes, HandlerLive, BoundLive, Begin, Busy, FinKept, Fin, None
<1> QED  BY <1>2, <1>3, <1>4, <1>5, HandlerStep, Zenon DEF LifeInv, LifeTypes

\* A statement that cannot be planned leaves its transaction bound or unbinds it.
LEMMA PlanFailsInv == ASSUME LifeInv, PlanFails PROVE LifeInv' /\ KeepsPooled
<1>1. FinKept /\ UNCHANGED <<conn, kpc, ktx, inMap, bound, tx>>  BY SameTx, Zenon DEF PlanFails, kill, sess
<1>2. GoroTypes'  BY <1>1, Zenon DEF LifeInv, LifeTypes, GoroTypes, PcNames, PlanFails
<1>3. BoundLive' /\ pc' # "round"  BY <1>1, Zenon DEF LifeInv, PlanFails, BoundLive, Fin
<1>4. HandlerLive'  BY <1>1 DEF LifeInv, PlanFails, HandlerLive, Busy, Fin
<1> QED  BY <1>1, <1>2, <1>3, <1>4, HandlerStep, Zenon DEF LifeInv, LifeTypes

\* TxnUnBinding: the session is free before Finish, or after it for a BEGIN that failed.
LEMMA UnBindingInv == ASSUME LifeInv, UnBinding PROVE LifeInv' /\ KeepsPooled
<1>1. FinKept /\ UNCHANGED <<conn, kpc, ktx, inMap, tx, cur, stmt, goal, round, leg, got>>
  BY SameTx, Zenon DEF UnBinding, kill
<1>2. pc = "unbind" /\ pc' \in {"idle", "finish"} /\ (pc' = "finish" => ~IsMulti(stmt) /\ ~(stmt \in Begins))
  BY Zenon DEF UnBinding
<1>3. (bound' = bound \/ bound' = None) /\ (inMap /\ bound' # None => bound' = bound /\ IsMulti(stmt))
  BY Zenon DEF UnBinding
<1>4. GoroTypes'  BY <1>1, <1>2, Zenon DEF LifeInv, LifeTypes, GoroTypes, PcNames
<1>5. bound' \in 0..Len(tx)  BY <1>3 DEF LifeInv, LifeTypes, None
<1>6. IsMulti(stmt) => ~(stmt \in Begins)  BY Zenon DEF IsMulti, Begins
<1>7. BoundLive' /\ pc' # "round"
  BY <1>1, <1>2, <1>3, <1>6, Zenon DEF LifeInv, BoundLive, Fin
<1>8. HandlerLive'
  BY <1>1, <1>2, <1>3, Zenon DEF LifeInv, HandlerLive, Busy, Fin
<1> QED  BY <1>1, <1>4, <1>5, <1>7, <1>8, HandlerStep, Zenon

\* What the handler has before a step of a statement.
LEMMA AtWork ==
  ASSUME LifeInv, pc \in Busy, pc # "unbind"
  PROVE  cur # None /\ cur \in 1..Len(tx) /\ ~Fin(cur) /\ tx[cur] \in TxnRecs
BY DEF LifeInv, LifeTypes, GoroTypes, HandlerLive, None

\* A round starts.
LEMMA RoundInv ==
  ASSUME LifeInv, NEW r \in Rounds, NEW t \in TxnRecs, StartRound(r, t), pc \in Busy, pc # "unbind",
         UNCHANGED <<conn, kpc, ktx, inMap, cur, stmt>>, bound' \in {bound, cur},
         goal' \in {"commit", "rollback", "panic"}, stmt \in Ends => goal' \in Ends
  PROVE  LifeInv' /\ KeepsPooled
<1>1. cur # None /\ cur \in 1..Len(tx) /\ ~Fin(cur)  BY AtWork, Zenon
<1>2. /\ FinKept /\ pc' = "round" /\ round' = r
      /\ leg' = [l \in Backends |-> "todo"] /\ got' = [l \in Backends |-> None]
  BY <1>1, StartRoundStep, Zenon
<1>3. leg' \in [Backends -> LegNames] /\ got' \in [Backends -> Nat]
  BY <1>2, Zenon DEF LegNames, None
<1>4. GoroTypes'
  BY <1>2, <1>3, Zenon DEF LifeInv, LifeTypes, GoroTypes, PcNames, FinKept, Rounds
<1>5. bound' \in 0..Len(tx)  BY <1>1 DEF LifeInv, LifeTypes
<1>6. ~Fin(cur)'  BY <1>1, <1>2, Zenon DEF FinKept, Fin
<1>7. HandlerLive'  BY <1>1, <1>2, <1>6, Zenon DEF HandlerLive
<1>8. BoundLive'  BY <1>1, <1>2, <1>5, <1>6 DEF LifeInv, BoundLive, FinKept, Fin, None
<1>9. \A l \in Backends : leg'[l] = "todo"  BY <1>2, Zenon
<1> QED  BY <1>2, <1>4, <1>5, <1>7, <1>8, <1>9, HandlerStep, Zenon

\* The last round of a statement is over.
LEMMA GoToInv ==
  ASSUME LifeInv, NEW p \in {"idle", "unbind", "finish"}, NEW t \in TxnRecs, GoTo(p, t), pc = "round",
         t.state # "Finishing", UNCHANGED <<conn, kpc, ktx, inMap, cur, stmt, bound>>,
         goal' \in {"commit", "rollback", "panic"}, p = "finish" => stmt \in Begins
  PROVE  LifeInv' /\ KeepsPooled
<1>1. cur # None /\ cur \in 1..Len(tx) /\ ~Fin(cur)  BY AtWork, Zenon DEF Busy
<1>2. /\ FinKept /\ pc' = p /\ round' = "none"
      /\ leg' = [l \in Backends |-> "done"] /\ got' = [l \in Backends |-> None]
  BY <1>1, GoToStep, Zenon
<1>3. leg' \in [Backends -> LegNames] /\ got' \in [Backends -> Nat]
  BY <1>2, Zenon DEF LegNames, None
<1>4. GoroTypes'
  BY <1>2, <1>3, Zenon DEF LifeInv, LifeTypes, GoroTypes, PcNames, FinKept, Rounds
<1>5. bound' \in 0..Len(tx)  BY Zenon DEF LifeInv, LifeTypes
<1>6. ~Fin(cur)'  BY <1>1, <1>2, Zenon DEF FinKept, Fin
<1>7. HandlerLive'  BY <1>1, <1>2, <1>6, Zenon DEF HandlerLive
<1>8. BoundLive'  BY <1>1, <1>2, <1>5, <1>6 DEF LifeInv, BoundLive, FinKept, Fin, None
<1> QED  BY <1>2, <1>4, <1>5, <1>7, <1>8, HandlerStep, Zenon

\* TxnBinding, MultiStmtTxnBinding: the session gets the transaction.
LEMMA BindingInv == ASSUME LifeInv, Binding PROVE LifeInv' /\ KeepsPooled
<1>1. pc = "bind" /\ pc \in Busy /\ bound' \in {bound, cur} /\ UNCHANGED <<conn, kpc, ktx, inMap, cur, stmt>>
  BY Zenon DEF Binding, BindEffect, Busy, kill
<1>2. UNCHANGED <<round, leg, got, goal, tx>>  BY Zenon DEF Binding
<1>3. cur # None /\ cur \in 1..Len(tx) /\ ~Fin(cur) /\ tx[cur] \in TxnRecs  BY <1>1, AtWork, Zenon
<1>4. (pc' \in {"begin", "plan"} /\ ~(stmt \in Ends)) \/ pc' = "scatter"
  BY Zenon DEF Binding, Ends, Single, IsMulti
<1>5. FinKept  BY <1>2, SameTx, Zenon
<1>6. GoroTypes'  BY <1>1, <1>2, <1>4, Zenon DEF LifeInv, LifeTypes, GoroTypes, PcNames
<1>7. bound' \in 0..Len(tx)  BY <1>1, <1>3 DEF LifeInv, LifeTypes
<1>8. HandlerLive'  BY <1>1, <1>2, <1>3, <1>4, Zenon DEF HandlerLive, Fin
<1>9. BoundLive'  BY <1>1, <1>2, <1>3, <1>5, Zenon DEF LifeInv, BoundLive, Fin
<1> QED  BY <1>1, <1>2, <1>4, <1>5, <1>6, <1>7, <1>8, <1>9, HandlerStep, Zenon

\* BeginScatter, CommitScatter, RollbackScatter: the first round of BEGIN, COMMIT and ROLLBACK.
LEMMA BeginScatterInv == ASSUME LifeInv, BeginScatter PROVE LifeInv' /\ KeepsPooled
<1>1. pc = "scatter" /\ pc \in Busy /\ UNCHANGED <<conn, kpc, ktx, inMap, cur, stmt, bound>>
  BY Zenon DEF BeginScatter, Busy, kill, sess
<1>2. cur # None /\ cur \in 1..Len(tx) /\ ~Fin(cur) /\ tx[cur] \in TxnRecs  BY <1>1, AtWork, Zenon
<1>3. ASSUME NEW r \in {"start", "end"}, Scatter(r),
             (stmt \in Begins /\ goal' = goal) \/ (stmt \in Ends /\ goal' = stmt)
      PROVE  LifeInv' /\ KeepsPooled
  <2> DEFINE u == [tx[cur] EXCEPT !.twopc = TRUE, !.req = TRUE]
  <2>1. u \in TxnRecs  BY <1>2, Zenon DEF TxnRecs
  <2>2. StartRound(r, u)  BY <1>3, Zenon DEF Scatter, T
  <2>3. goal' \in {"commit", "rollback", "panic"} /\ (stmt \in Ends => goal' \in Ends)
    BY <1>3, Zenon DEF LifeInv, LifeTypes, GoroTypes, Begins, Ends
  <2> QED
    <3> HIDE DEF u
    <3> QED  BY <1>1, <1>3, <2>1, <2>2, <2>3, RoundInv, Zenon DEF Rounds
<1> QED  BY <1>3, Zenon DEF BeginScatter

\* Execute reads twopc: the request comes next, or a round in normal mode.
LEMMA ExecuteInv == ASSUME LifeInv, Execute PROVE LifeInv' /\ KeepsPooled
<1>1. pc = "plan" /\ pc \in Busy /\ UNCHANGED <<conn, kpc, ktx, inMap, cur, stmt, goal, bound>>
  BY Zenon DEF Execute, Busy, kill, sess
<1>2. cur # None /\ cur \in 1..Len(tx) /\ ~Fin(cur) /\ tx[cur] \in TxnRecs  BY <1>1, AtWork, Zenon
<1>3. CASE pc' = "request" /\ UNCHANGED <<round, leg, got, tx>>
  <2>1. FinKept /\ UNCHANGED tx  BY <1>3, SameTx, Zenon
  <2>2. GoroTypes'  BY <1>1, <1>3, SMTT(20) DEF LifeInv, LifeTypes, GoroTypes, PcNames
  <2>3. HandlerLive'  BY <1>1, <1>2, <1>3, Zenon DEF LifeInv, HandlerLive, Fin
  <2>4. BoundLive'  BY <1>1, <1>2, <2>1, Zenon DEF LifeInv, BoundLive, Fin
  <2> QED  BY <1>1, <1>3, <2>1, <2>2, <2>3, <2>4, HandlerStep, Zenon DEF LifeInv, LifeTypes
<1>4. CASE StartRound("run", T)
  <2>1. goal' \in {"commit", "rollback", "panic"}  BY <1>1, Zenon DEF LifeInv, LifeTypes, GoroTypes
  <2>2. ~(stmt \in Ends)  BY <1>1, Zenon DEF LifeInv, HandlerLive
  <2> QED  BY <1>1, <1>2, <1>4, <2>1, <2>2, RoundInv, Zenon DEF Rounds, T
<1> QED  BY <1>3, <1>4, Zenon DEF Execute

\* Execute stores the request and starts XA START or the statement.
LEMMA RequestInv == ASSUME LifeInv, Request PROVE LifeInv' /\ KeepsPooled
<1>1. pc = "request" /\ pc \in Busy /\ UNCHANGED <<conn, kpc, ktx, inMap, cur, stmt, goal, bound>>
  BY Zenon DEF Request, Busy, kill, sess
<1>2. tx[cur] \in TxnRecs  BY <1>1, AtWork, Zenon
<1> DEFINE u == [tx[cur] EXCEPT !.req = TRUE]
           r == IF IsWrite(stmt) /\ ~T.multi THEN "start" ELSE "run"
<1>3. StartRound(r, u)  BY Zenon DEF Request, T
<1>4. u \in TxnRecs /\ r \in Rounds  BY <1>2, Zenon DEF TxnRecs, Rounds
<1>5. goal' \in {"commit", "rollback", "panic"}  BY <1>1, Zenon DEF LifeInv, LifeTypes, GoroTypes
<1>6. ~(stmt \in Ends)  BY <1>1, Zenon DEF LifeInv, HandlerLive
<1> HIDE DEF u, r
<1> QED  BY <1>1, <1>3, <1>4, <1>5, <1>6, RoundInv, Zenon

\* Commit and RollbackPhaseOne: a round, or the end of the statement.
LEMMA PhaseInv ==
  ASSUME LifeInv, NEW t \in TxnRecs, NEW g \in {"commit", "rollback"}, Phase(t, g), pc = "round",
         ~(stmt \in Ends), UNCHANGED <<conn, kpc, ktx, inMap, cur, stmt, bound>>
  PROVE  LifeInv' /\ KeepsPooled
<1> DEFINE u == [t EXCEPT !.state = IF g = "commit" THEN "Committing" ELSE "Rollbacking"]
<1>1. u \in TxnRecs /\ u.state # "Finishing"  BY Zenon DEF TxnRecs
<1>2. goal' \in {"commit", "rollback", "panic"}  BY Zenon DEF Phase
<1>3. GoTo("unbind", u) \/ StartRound("end", u)  BY Zenon DEF Phase
<1> HIDE DEF u
<1>4. CASE GoTo("unbind", u)  BY <1>1, <1>2, <1>4, GoToInv, Zenon
<1>5. CASE StartRound("end", u)  BY <1>1, <1>2, <1>5, RoundInv, Zenon DEF Rounds, Busy
<1> QED  BY <1>3, <1>4, <1>5, Zenon

\* The next round, or the end of the statement, for every kind of statement.
LEMMA RoundEndsInv == ASSUME LifeInv, RoundEnds PROVE LifeInv' /\ KeepsPooled
<1>1. pc = "round" /\ pc \in Busy /\ UNCHANGED <<conn, kpc, ktx, inMap, cur, stmt, bound>>
  BY Zenon DEF RoundEnds, RoundOver, RoundFrame, Busy, kill, sess
<1>2. ~Fin(cur) /\ tx[cur] \in TxnRecs  BY <1>1, AtWork, Zenon
<1>3. Counted \in TxnRecs /\ Counted.state # "Finishing"
  <2>1. (tx[cur].errors \/ Failed) \in BOOLEAN  BY Zenon
  <2> QED  BY <1>2, <2>1, Zenon DEF Counted, T, TxnRecs, Fin
<1>4. goal \in {"commit", "rollback", "panic"} /\ (stmt \in Ends => goal \in Ends)
  BY <1>1, Zenon DEF LifeInv, LifeTypes, GoroTypes, HandlerLive
<1>5. ASSUME NEW r \in Rounds, StartRound(r, Counted), UNCHANGED goal
      PROVE  LifeInv' /\ KeepsPooled
  BY <1>1, <1>3, <1>4, <1>5, RoundInv, Zenon
<1>6. ASSUME NEW p \in {"idle", "unbind", "finish"}, GoTo(p, Counted), UNCHANGED goal,
             p = "finish" => stmt \in Begins
      PROVE  LifeInv' /\ KeepsPooled
  BY <1>1, <1>3, <1>4, <1>6, GoToInv, Zenon
<1>7. ASSUME NEW g \in {"commit", "rollback"}, Phase(Counted, g), ~(stmt \in Ends)
      PROVE  LifeInv' /\ KeepsPooled
  BY <1>1, <1>3, <1>7, PhaseInv, Zenon
<1>8. CASE stmt \in Single /\ AfterSingle(Counted)
  <2>1. ~(stmt \in Ends)  BY <1>8, Zenon DEF Single, Ends
  <2> QED  BY <1>5, <1>6, <1>7, <1>8, <2>1, Zenon DEF AfterSingle, Rounds
<1>9. CASE AfterMulti(Counted)
  BY <1>5, <1>6, <1>9, Zenon DEF AfterMulti, Rounds
<1>10. CASE stmt \in Begins /\ AfterBegin(Counted)
  BY <1>6, <1>10, Zenon DEF AfterBegin
<1>11. CASE stmt \in Ends /\ AfterEnd(Counted)
  <2>1. goal \in Rounds  BY <1>4, <1>11, Zenon DEF Rounds, Ends
  <2> QED  BY <1>5, <1>6, <1>11, <2>1, Zenon DEF AfterEnd, Rounds
<1>12. CASE GoTo("unbind", Counted) /\ UNCHANGED goal
  BY <1>6, <1>12, Zenon
<1> QED  BY <1>8, <1>9, <1>10, <1>11, <1>12, Zenon DEF RoundEnds

\* CreateTxn adds a transaction that is not finished.
LEMMA CreateTxnInv == ASSUME LifeInv, CreateTxn PROVE LifeInv' /\ KeepsPooled
<1> DEFINE u == [NewTxn EXCEPT !.multi = (stmt \in Begins)]
<1>1. u \in TxnRecs /\ u.state # "Finishing"
  <2>1. (stmt \in Begins) \in BOOLEAN  OBVIOUS
  <2> QED  BY <2>1, Zenon DEF TxnRecs, NewTxn
<1>2. tx' = Append(tx, u) /\ cur' = Len(tx) + 1 /\ pc = "create" /\ pc' = "bind"
  BY Zenon DEF CreateTxn
<1>3. UNCHANGED <<conn, kpc, ktx, inMap, bound, stmt, goal, round, leg, got>>
  BY Zenon DEF CreateTxn, kill, sess
<1> HIDE DEF u
<1>4. tx \in Seq(TxnRecs) /\ Len(tx) \in Nat  BY DEF LifeInv, LifeTypes
<1>5. /\ tx' \in Seq(TxnRecs) /\ Len(tx') = Len(tx) + 1
      /\ \A t \in 1..Len(tx) : tx'[t] = tx[t]
      /\ tx'[Len(tx) + 1] = u
  BY <1>1, <1>2, <1>4
<1>6. GoroTypes'
  BY <1>2, <1>3, <1>4, <1>5 DEF LifeInv, LifeTypes, GoroTypes, PcNames
<1>7. LifeTypes'
  BY <1>3, <1>4, <1>5, <1>6 DEF LifeInv, LifeTypes
<1>8. HandlerLive'
  BY <1>1, <1>2, <1>4, <1>5 DEF HandlerLive, Fin, None
<1>9. BoundLive'
  BY <1>2, <1>3, <1>4, <1>5 DEF LifeInv, LifeTypes, BoundLive, Fin, None
<1>10. PooledByFinish'
  BY <1>3, <1>5, Zenon DEF LifeInv, LifeTypes, PooledByFinish, Fin
<1>11. AbortBeforeFinish'
  BY <1>3, <1>5 DEF LifeInv, LifeTypes, AbortBeforeFinish, Fin, None
<1>12. LegsOwn' /\ KeepsPooled  BY <1>2, <1>3, Zenon DEF LegsOwn, KeepsPooled
<1> QED  BY <1>7, <1>8, <1>9, <1>10, <1>11, <1>12, Zenon DEF LifeInv

-----------------------------------------------------------------------------
(* The legs of a round. *)

\* What a goroutine may do to the connections of the transaction t: it changes
\* them and may add one to them, and it gives none to a pool.
OwnConns(t) ==
  /\ conn' \in Seq(ConnRecs) /\ Len(conn') >= Len(conn)
  /\ \A c \in 1..Len(conn) :
       /\ conn'[c].tx = conn[c].tx
       /\ conn[c].tx # t => conn'[c] = conn[c]
       /\ conn'[c].st = "pooled" => conn[c].st = "pooled"
  /\ \A c \in 1..Len(conn') : c > Len(conn) => conn'[c].tx = t /\ conn'[c].st # "pooled"

\* While t is not finished, that touches nothing that is pooled.
LEMMA ConnsKept ==
  ASSUME LifeInv, FinKept, NEW t \in 1..Len(tx), ~Fin(t), OwnConns(t)
  PROVE  /\ \A c \in 1..Len(conn') : conn'[c].tx \in 1..Len(tx)
         /\ PooledByFinish' /\ KeepsPooled
<1>1. Len(tx) \in Nat /\ Len(conn) \in Nat /\ Len(conn') \in Nat /\ DOMAIN conn = 1..Len(conn)
  BY DEF LifeInv, LifeTypes, OwnConns
<1>2. \A c \in 1..Len(conn) : conn[c].st = "pooled" => Fin(conn[c].tx) /\ conn[c].kind # "twopc" /\ conn'[c] = conn[c]
  BY Zenon DEF LifeInv, PooledByFinish, OwnConns
<1>3. \A c \in 1..Len(conn') : conn'[c].tx \in 1..Len(tx)
  <2> TAKE c \in 1..Len(conn')
  <2>1. CASE c > Len(conn)  BY <2>1, Zenon DEF OwnConns
  <2>2. CASE c \in 1..Len(conn)  BY <2>2, Zenon DEF LifeInv, LifeTypes, OwnConns
  <2> QED  BY <1>1, <2>1, <2>2
<1>4. PooledByFinish'
  <2> SUFFICES ASSUME NEW c \in 1..Len(conn'), conn'[c].st = "pooled"
               PROVE  tx'[conn'[c].tx].state = "Finishing" /\ conn'[c].kind # "twopc"
    BY Zenon DEF PooledByFinish, Fin
  <2>1. c \in 1..Len(conn) /\ conn[c].st = "pooled"  BY <1>1 DEF OwnConns
  <2>2. conn'[c] = conn[c] /\ Fin(conn[c].tx) /\ conn[c].kind # "twopc"  BY <1>2, <2>1, Zenon
  <2>3. conn[c].tx \in 1..Len(tx)  BY <2>1, Zenon DEF LifeInv, LifeTypes
  <2> QED  BY <2>2, <2>3, Zenon DEF FinKept, Fin
<1>5. KeepsPooled  BY <1>1, <1>2, Zenon DEF KeepsPooled
<1> QED  BY <1>3, <1>4, <1>5, Zenon

OwnLegs ==
  /\ leg' \in [Backends -> LegNames] /\ got' \in [Backends -> Nat]
  /\ \A l \in Backends : leg'[l] \in {"got", "got2"} =>
       \/ leg[l] \in {"got", "got2"} /\ got'[l] = got[l]
       \/ got'[l] \in 1..Len(conn') /\ conn'[got'[l]].tx = cur

\* A leg touches nothing that is pooled: its transaction is not finished.
LEMMA LegInv ==
  ASSUME LifeInv, pc = "round", FinKept, OwnConns(cur), OwnLegs,
         UNCHANGED <<inMap, bound, pc, stmt, goal, round, cur, kpc, ktx>>
  PROVE  LifeInv' /\ KeepsPooled
<1>1. cur # None /\ cur \in 1..Len(tx) /\ ~Fin(cur)  BY AtWork, Zenon DEF Busy
<1>2. /\ tx' \in Seq(TxnRecs) /\ Len(tx') = Len(tx) /\ Len(conn) \in Nat /\ Len(conn') \in Nat
  BY DEF LifeInv, LifeTypes, FinKept, OwnConns
<1>3. /\ \A c \in 1..Len(conn') : conn'[c].tx \in 1..Len(tx)
      /\ PooledByFinish' /\ KeepsPooled
  BY <1>1, ConnsKept, Zenon
<1>4. GoroTypes'
  BY <1>2, Zenon DEF LifeInv, LifeTypes, GoroTypes, OwnLegs
<1>5. LifeTypes'
  BY <1>2, <1>3, <1>4, SMTT(20) DEF LifeInv, LifeTypes, OwnConns
<1>6. HandlerLive'
  BY <1>1, Zenon DEF LifeInv, HandlerLive, FinKept, Fin
<1>7. BoundLive'
  BY DEF LifeInv, LifeTypes, BoundLive, FinKept, Fin, None
<1>8. AbortBeforeFinish'  BY KillFrame, Zenon
<1>9. LegsOwn'
  BY <1>2, SMTT(20) DEF LifeInv, LegsOwn, OwnLegs, OwnConns
<1> QED  BY <1>3, <1>5, <1>6, <1>7, <1>8, <1>9, Zenon DEF LifeInv

\* The frame of a leg, and the leg that moves.
LEMMA LegFrameFacts ==
  ASSUME LifeInv, LegFrame, NEW l \in Backends, pc = "round"
  PROVE  /\ UNCHANGED <<inMap, bound, pc, stmt, goal, round, cur, kpc, ktx>>
         /\ LegBackend(l) \in Backends /\ round \in Rounds
         /\ leg \in [Backends -> LegNames] /\ got \in [Backends -> Nat]
         /\ conn \in Seq(ConnRecs) /\ Len(conn) \in Nat /\ DOMAIN conn = 1..Len(conn)
<1>1. UNCHANGED <<inMap, bound, pc, stmt, goal, round, cur, kpc, ktx>>  BY Zenon DEF LegFrame, sess, kill
<1>2. LegBackend(l) \in Backends  BY DEF LegBackend, Backends
<1>3. round \in Rounds  BY Zenon DEF LifeInv, LifeTypes, GoroTypes
<1> QED  BY <1>1, <1>2, <1>3 DEF LifeInv, LifeTypes, GoroTypes

\* The connections are left alone.
LEMMA SameConns == LifeInv /\ UNCHANGED conn => OwnConns(cur)
BY DEF LifeInv, LifeTypes, OwnConns

\* A connection is added for the leg.
LEMMA AppendConn ==
  ASSUME NEW s \in Seq(ConnRecs), conn \in Seq(ConnRecs), NEW r \in ConnRecs, conn' = Append(s, r),
         Len(s) = Len(conn), r.tx = cur, r.st # "pooled",
         \A c \in 1..Len(conn) : /\ s[c].tx = conn[c].tx /\ s[c].st = conn[c].st
                                 /\ conn[c].tx # cur => s[c] = conn[c]
  PROVE  OwnConns(cur) /\ Len(conn) + 1 \in 1..Len(conn') /\ conn'[Len(conn) + 1].tx = cur
<1>1. Len(conn) \in Nat /\ conn' \in Seq(ConnRecs) /\ Len(conn') = Len(conn) + 1  OBVIOUS
<1>2. \A c \in 1..Len(conn) : conn'[c] = s[c]  OBVIOUS
<1>3. conn'[Len(conn) + 1] = r  BY SMTT(20)
<1> QED  BY <1>1, <1>2, <1>3 DEF OwnConns

\* A connection from the pool is open and belongs to the transaction of the round.
LEMMA NewConnType ==
  ASSUME LifeInv, NEW l \in Backends, LegBackend(l) \in Backends, NEW k \in {"twopc", "normal"}
  PROVE  NewConn(l, k) \in ConnRecs /\ NewConn(l, k).tx = cur /\ NewConn(l, k).st = "open"
BY DEF LifeInv, LifeTypes, GoroTypes, NewConn, ConnRecs

\* twopcConnection finds a connection of the transaction, or goes to the pool.
LEMMA twopcConnectionInv ==
  ASSUME LifeInv, NEW l \in Backends, twopcConnection(l) PROVE LifeInv' /\ KeepsPooled
<1>1. pc = "round" /\ LegFrame /\ UNCHANGED <<tx, conn>>  BY Zenon DEF twopcConnection, InRound
<1>2. FinKept /\ OwnConns(cur)  BY <1>1, SameTx, SameConns, Zenon
<1>3. /\ UNCHANGED <<inMap, bound, pc, stmt, goal, round, cur, kpc, ktx>>
      /\ leg \in [Backends -> LegNames] /\ got \in [Backends -> Nat] /\ DOMAIN conn = 1..Len(conn)
  BY <1>1, LegFrameFacts, Zenon
<1>4. OwnLegs
  <2>1. CASE SetLeg(l, "want") /\ UNCHANGED got
    BY <1>3, <2>1, Zenon DEF OwnLegs, SetLeg, LegNames
  <2>2. CASE /\ Held(cur, LegBackend(l)) # {} /\ SetLeg(l, "got")
             /\ got' = [got EXCEPT ![l] = CHOOSE c \in Held(cur, LegBackend(l)) : TRUE]
    <3> DEFINE h == CHOOSE c \in Held(cur, LegBackend(l)) : TRUE
    <3>1. h \in Held(cur, LegBackend(l))  BY <2>2, Zenon
    <3>2. h \in 1..Len(conn) /\ conn[h].tx = cur  BY <1>3, <3>1, Zenon DEF Held
    <3>3. got' = [got EXCEPT ![l] = h]  BY <2>2, Zenon
    <3> HIDE DEF h
    <3>4. h \in Nat  BY <3>2
    <3> QED  BY <1>1, <1>3, <2>2, <3>2, <3>3, <3>4, Zenon DEF OwnLegs, SetLeg, LegNames
  <2> QED  BY <2>1, <2>2, Zenon DEF twopcConnection
<1> QED  BY <1>1, <1>2, <1>3, <1>4, LegInv, Zenon

\* A connection that leaves the map keeps its transaction and its state.
LEMMA LostConn ==
  ASSUME NEW r \in ConnRecs
  PROVE  /\ [r EXCEPT !.kind = "lost"] \in ConnRecs /\ [r EXCEPT !.kind = "lost"].tx = r.tx
         /\ [r EXCEPT !.kind = "lost"].st = r.st
BY Zenon DEF ConnRecs

\* twopcConnection stores a new connection over the one that is there.
LEMMA StoreTwopcInv ==
  ASSUME LifeInv, NEW l \in Backends, StoreTwopc(l) PROVE LifeInv' /\ KeepsPooled
<1>1. pc = "round" /\ LegFrame /\ UNCHANGED tx  BY Zenon DEF StoreTwopc, InRound
<1>2. FinKept  BY <1>1, SameTx, Zenon
<1>3. /\ UNCHANGED <<inMap, bound, pc, stmt, goal, round, cur, kpc, ktx>> /\ LegBackend(l) \in Backends
      /\ leg \in [Backends -> LegNames] /\ got \in [Backends -> Nat]
      /\ conn \in Seq(ConnRecs) /\ Len(conn) \in Nat /\ DOMAIN conn = 1..Len(conn)
  BY <1>1, LegFrameFacts, Zenon
<1> DEFINE s == [c \in DOMAIN conn |->
                   IF c \in Held(cur, LegBackend(l)) THEN [conn[c] EXCEPT !.kind = "lost"] ELSE conn[c]]
           n == NewConn(l, "twopc")
<1>4. conn' = Append(s, n)  BY Zenon DEF StoreTwopc
<1>5. n \in ConnRecs /\ n.tx = cur /\ n.st # "pooled"  BY <1>3, NewConnType, Zenon
<1>6. \A c \in 1..Len(conn) :
        /\ conn[c] \in ConnRecs /\ [conn[c] EXCEPT !.kind = "lost"] \in ConnRecs
        /\ [conn[c] EXCEPT !.kind = "lost"].tx = conn[c].tx /\ [conn[c] EXCEPT !.kind = "lost"].st = conn[c].st
  BY <1>3, LostConn
<1>7. s \in [1..Len(conn) -> ConnRecs]  BY <1>3, <1>6, Zenon
<1>8. s \in Seq(ConnRecs) /\ Len(s) = Len(conn)  BY <1>3, <1>7
<1>9. \A c \in 1..Len(conn) : /\ s[c].tx = conn[c].tx /\ s[c].st = conn[c].st
                              /\ conn[c].tx # cur => s[c] = conn[c]
  <2> TAKE c \in 1..Len(conn)
  <2>1. CASE c \in Held(cur, LegBackend(l))
    <3>1. s[c] = [conn[c] EXCEPT !.kind = "lost"] /\ conn[c].tx = cur  BY <1>3, <2>1, Zenon DEF Held
    <3> HIDE DEF s
    <3> QED  BY <1>6, <3>1, Zenon
  <2>2. CASE ~(c \in Held(cur, LegBackend(l)))
    <3>1. s[c] = conn[c]  BY <1>3, <2>2, SMTT(20)
    <3> QED  BY <3>1, Zenon
  <2> QED  BY <2>1, <2>2, Zenon
<1> HIDE DEF s, n
<1>10. OwnConns(cur) /\ Len(conn) + 1 \in 1..Len(conn') /\ conn'[Len(conn) + 1].tx = cur
  BY <1>3, <1>4, <1>5, <1>8, <1>9, AppendConn, Zenon
<1>11. OwnLegs
  <2>1. got' = [got EXCEPT ![l] = Len(conn) + 1] /\ \E p \in {"got", "got2"} : SetLeg(l, p)
    BY Zenon DEF StoreTwopc
  <2> QED  BY <1>3, <1>10, <2>1 DEF OwnLegs, SetLeg, LegNames
<1> QED  BY <1>1, <1>2, <1>3, <1>10, <1>11, LegInv, Zenon

\* normalConnection adds a connection.
LEMMA normalConnectionInv ==
  ASSUME LifeInv, NEW l \in Backends, normalConnection(l) PROVE LifeInv' /\ KeepsPooled
<1>1. pc = "round" /\ LegFrame /\ UNCHANGED tx  BY Zenon DEF normalConnection, InRound
<1>2. FinKept  BY <1>1, SameTx, Zenon
<1>3. /\ UNCHANGED <<inMap, bound, pc, stmt, goal, round, cur, kpc, ktx>> /\ LegBackend(l) \in Backends
      /\ leg \in [Backends -> LegNames] /\ got \in [Backends -> Nat]
      /\ conn \in Seq(ConnRecs) /\ Len(conn) \in Nat
  BY <1>1, LegFrameFacts, Zenon
<1> DEFINE n == NewConn(l, "normal")
<1>4. conn' = Append(conn, n)  BY Zenon DEF normalConnection
<1>5. n \in ConnRecs /\ n.tx = cur /\ n.st # "pooled"  BY <1>3, NewConnType, Zenon
<1> HIDE DEF n
<1>6. OwnConns(cur) /\ Len(conn) + 1 \in 1..Len(conn') /\ conn'[Len(conn) + 1].tx = cur
  BY <1>3, <1>4, <1>5, AppendConn, Zenon
<1>7. OwnLegs
  <2>1. got' = [got EXCEPT ![l] = Len(conn) + 1] /\ SetLeg(l, "got")  BY Zenon DEF normalConnection
  <2> QED  BY <1>3, <1>6, <2>1 DEF OwnLegs, SetLeg, LegNames
<1> QED  BY <1>1, <1>2, <1>3, <1>6, <1>7, LegInv, Zenon

\* The leg moves to a place where it has no connection, or keeps the one it has.
LEMMA LegMoves ==
  ASSUME LifeInv, NEW l \in Backends, NEW p \in {"want2", "done", "failed"}, SetLeg(l, p), UNCHANGED got
  PROVE  OwnLegs
BY Zenon DEF LifeInv, LifeTypes, GoroTypes, OwnLegs, SetLeg, LegNames

\* The pool has no connection for the leg.
LEMMA GetFailsInv ==
  ASSUME LifeInv, NEW l \in Backends, GetFails(l) PROVE LifeInv' /\ KeepsPooled
<1>1. pc = "round" /\ LegFrame /\ UNCHANGED <<tx, conn>>  BY Zenon DEF GetFails, InRound
<1>2. FinKept /\ OwnConns(cur)  BY <1>1, SameTx, SameConns, Zenon
<1>3. UNCHANGED <<inMap, bound, pc, stmt, goal, round, cur, kpc, ktx>>  BY <1>1, LegFrameFacts, Zenon
<1>4. OwnLegs  BY LegMoves, Zenon DEF GetFails
<1> QED  BY <1>1, <1>2, <1>3, <1>4, LegInv, Zenon

\* A leg changes its own connection, and gives it to no pool.
LEMMA OneConn ==
  ASSUME LifeInv, pc = "round", NEW l \in Backends, leg[l] \in {"got", "got2"}, NEW r \in ConnRecs,
         conn' = [conn EXCEPT ![got[l]] = r], r.tx = conn[got[l]].tx,
         r.st = "pooled" => conn[got[l]].st = "pooled"
  PROVE  OwnConns(cur)
<1>1. conn \in Seq(ConnRecs) /\ got[l] \in 1..Len(conn) /\ conn[got[l]].tx = cur
  BY Zenon DEF LifeInv, LifeTypes, LegsOwn
<1>2. conn' \in Seq(ConnRecs) /\ Len(conn') = Len(conn) /\ Len(conn) \in Nat  BY <1>1, SMTT(20)
<1>3. \A c \in 1..Len(conn) : conn'[c] = IF c = got[l] THEN r ELSE conn[c]  BY <1>1
<1> QED  BY <1>1, <1>2, <1>3 DEF OwnConns

\* After an error the leg closes its own connection and tries again, or gives up.
LEMMA incErrorsConns ==
  ASSUME LifeInv, pc = "round", NEW l \in Backends, leg[l] \in {"got", "got2"}, incErrors(l), UNCHANGED got
  PROVE  OwnConns(cur) /\ OwnLegs
<1>1. CASE SetLeg(l, "failed") /\ UNCHANGED conn  BY <1>1, SameConns, LegMoves, Zenon
<1>2. CASE /\ conn' = [conn EXCEPT ![got[l]].kind = "lost", ![got[l]].st = "closed", ![got[l]].xa = "none"]
           /\ SetLeg(l, "want2")
  <2> DEFINE r == [conn[got[l]] EXCEPT !.kind = "lost", !.st = "closed", !.xa = "none"]
  <2>1. conn \in Seq(ConnRecs) /\ got[l] \in 1..Len(conn) /\ conn[got[l]] \in ConnRecs
    BY DEF LifeInv, LifeTypes, LegsOwn
  <2>2. conn' = [conn EXCEPT ![got[l]] = r]  BY <1>2, <2>1, Zenon
  <2>3. r \in ConnRecs /\ r.tx = conn[got[l]].tx /\ r.st = "closed"  BY <2>1, Zenon DEF ConnRecs
  <2> HIDE DEF r
  <2> QED  BY <1>2, <2>2, <2>3, OneConn, LegMoves, Zenon
<1> QED  BY <1>1, <1>2, Zenon DEF incErrors

\* A backend refuses the command of the leg, or its connection fails.
LEMMA LegErrorInv ==
  ASSUME LifeInv, NEW l \in Backends, LegRefused(l) \/ LegFails(l) PROVE LifeInv' /\ KeepsPooled
<1>1. pc = "round" /\ LegFrame /\ UNCHANGED <<tx, got>> /\ incErrors(l) /\ leg[l] \in {"got", "got2"}
  BY Zenon DEF LegRefused, LegFails, InRound
<1>2. FinKept /\ OwnConns(cur) /\ OwnLegs  BY <1>1, SameTx, incErrorsConns, Zenon
<1>3. UNCHANGED <<inMap, bound, pc, stmt, goal, round, cur, kpc, ktx>>  BY <1>1, LegFrameFacts, Zenon
<1> QED  BY <1>1, <1>2, <1>3, LegInv, Zenon

\* A backend carries out the command of the leg: XA state and prepared branches change.
LEMMA LegRunsInv ==
  ASSUME LifeInv, NEW l \in Backends, LegRuns(l) PROVE LifeInv' /\ KeepsPooled
<1>1. pc = "round" /\ LegFrame /\ UNCHANGED got /\ SetLeg(l, "done") /\ leg[l] \in {"got", "got2"}
  BY Zenon DEF LegRuns, InRound
<1>2. /\ UNCHANGED <<inMap, bound, pc, stmt, goal, round, cur, kpc, ktx>>
      /\ LegBackend(l) \in Backends /\ round \in Rounds
  BY <1>1, LegFrameFacts, Zenon
<1>3. cur \in 1..Len(tx) /\ tx[cur] \in TxnRecs /\ tx \in Seq(TxnRecs)
  BY <1>1, AtWork, Zenon DEF Busy, LifeInv, LifeTypes
<1>4. FinKept
  <2> DEFINE b == LegBackend(l)
             p == IF round = "prepare" THEN tx[cur].prep \union {b}
                  ELSE IF round \in {"commit", "rollback"} THEN tx[cur].prep \ {b} ELSE tx[cur].prep
             u == [tx[cur] EXCEPT !.prep = p]
  <2>1. p \in SUBSET Backends
    <3>1. tx[cur].prep \in SUBSET Backends /\ b \in Backends  BY <1>2, <1>3, Zenon DEF TxnRecs
    <3> HIDE DEF b
    <3> QED  BY <3>1, Zenon
  <2>2. tx' = [tx EXCEPT ![cur] = u]  BY <1>3, Zenon DEF LegRuns
  <2> HIDE DEF p
  <2>3. u \in TxnRecs /\ u.state = tx[cur].state  BY <1>3, <2>1, SMTT(20) DEF TxnRecs
  <2> HIDE DEF u
  <2> QED  BY <1>3, <2>2, <2>3, SetOne, Zenon DEF Fin
<1>5. OwnConns(cur)
  <2> DEFINE x == IF round = "run" THEN conn[got[l]].xa ELSE XaAfter[round]
             r == [conn[got[l]] EXCEPT !.xa = x]
  <2>1. conn \in Seq(ConnRecs) /\ got[l] \in 1..Len(conn) /\ conn[got[l]] \in ConnRecs
    BY <1>1 DEF LifeInv, LifeTypes, LegsOwn
  <2>2. x \in {"none", "active", "idle", "prepared"}  BY <1>2, <2>1 DEF ConnRecs, XaAfter, Rounds
  <2>3. conn' = [conn EXCEPT ![got[l]] = r]  BY <2>1, Zenon DEF LegRuns
  <2> HIDE DEF x
  <2>4. r \in ConnRecs /\ r.tx = conn[got[l]].tx /\ r.st = conn[got[l]].st  BY <2>1, <2>2, SMTT(20) DEF ConnRecs
  <2> HIDE DEF r
  <2> QED  BY <1>1, <2>3, <2>4, OneConn, Zenon
<1>6. OwnLegs  BY <1>1, LegMoves, Zenon
<1> QED  BY <1>1, <1>2, <1>4, <1>5, <1>6, LegInv, Zenon

-----------------------------------------------------------------------------
(* Finish: the only step that finishes a transaction and fills a pool. *)

\* What Finish does to one connection: those of other transactions stay as they are.
LEMMA ReleasedConn ==
  ASSUME LifeInv, NEW c \in 1..Len(conn)
  PROVE  /\ Released(c) \in ConnRecs /\ Released(c).tx = conn[c].tx
         /\ conn[c].tx # cur => Released(c) = conn[c]
         /\ conn[c].tx = cur => Released(c).kind # "twopc"
<1>1. conn[c] \in ConnRecs  BY DEF LifeInv, LifeTypes
<1>2. CASE conn[c].tx # cur \/ conn[c].kind = "lost"  BY <1>1, <1>2, Zenon DEF Released
<1>3. CASE ~(conn[c].tx # cur \/ conn[c].kind = "lost")
  <2> DEFINE p == Release(conn[c])
             k == IF conn[c].kind = "twopc" THEN "lost" ELSE conn[c].kind
             x == IF p = "pooled" THEN conn[c].xa ELSE "none"
             r == [conn[c] EXCEPT !.st = p, !.kind = k, !.xa = x]
  <2>1. p \in {"closed", "pooled"}  BY Zenon DEF Release
  <2>2. k \in {"normal", "lost"}  BY <1>1, Zenon DEF ConnRecs
  <2>3. x \in {"none", "active", "idle", "prepared"}  BY <1>1, Zenon DEF ConnRecs
  <2>4. Released(c) = r  BY <1>1, <1>3, Zenon DEF Released, ConnRecs
  <2> HIDE DEF p, k, x
  <2>5. r \in ConnRecs /\ r.tx = conn[c].tx /\ r.kind # "twopc"  BY <1>1, <2>1, <2>2, <2>3, Zenon DEF ConnRecs
  <2> QED  BY <1>3, <2>4, <2>5, Zenon
<1> QED  BY <1>2, <1>3, Zenon

\* Finish: nothing after an Abort; else its connections are pooled, and no Abort is under way.
LEMMA FinishInv == ASSUME LifeInv, Finish PROVE LifeInv' /\ KeepsPooled
<1>1. /\ pc = "finish" /\ pc \in Busy /\ MuFree(cur) /\ pc' \in {"unbind", "dead", "idle"}
      /\ pc' = "unbind" <=> stmt \in Begins
      /\ UNCHANGED <<inMap, bound, stmt, goal, round, leg, got, cur, kpc, ktx>>
  BY Zenon DEF Finish, Busy, sess, kill
<1>2. cur # None /\ cur \in 1..Len(tx) /\ ~Fin(cur) /\ tx[cur] \in TxnRecs  BY <1>1, AtWork, Zenon
<1>3. /\ tx \in Seq(TxnRecs) /\ conn \in Seq(ConnRecs) /\ Len(conn) \in Nat /\ DOMAIN conn = 1..Len(conn)
  BY DEF LifeInv, LifeTypes
<1>4. CASE T.state = "Aborting"
  <2> DEFINE u == [tx[cur] EXCEPT !.twopc = FALSE, !.multi = FALSE]
  <2>1. tx' = [tx EXCEPT ![cur] = u] /\ UNCHANGED conn  BY <1>4, Zenon DEF Finish, SetT, T
  <2>2. u \in TxnRecs /\ u.state = tx[cur].state  BY <1>2, Zenon DEF TxnRecs
  <2> HIDE DEF u
  <2>3. FinKept  BY <1>2, <1>3, <2>1, <2>2, SetOne, ZenonT(30) DEF Fin
  <2>4. GoroTypes'  BY <1>1, <2>3, Zenon DEF LifeInv, LifeTypes, GoroTypes, PcNames, FinKept
  <2>5. HandlerLive'  BY <1>1, <1>2, <2>3, Zenon DEF HandlerLive, Busy, FinKept, Fin
  <2>6. BoundLive'  BY <1>1, <1>2, <2>3 DEF LifeInv, LifeTypes, BoundLive, FinKept, Fin, None
  <2> QED  BY <1>1, <2>1, <2>3, <2>4, <2>5, <2>6, HandlerStep, Zenon DEF LifeInv, LifeTypes
<1>5. CASE T.state # "Aborting"
  <2> DEFINE n == tx[cur].removed + 1
             u == [tx[cur] EXCEPT !.twopc = FALSE, !.multi = FALSE, !.state = "Finishing", !.removed = n]
             s == [c \in DOMAIN conn |-> Released(c)]
  <2>1. tx' = [tx EXCEPT ![cur] = u] /\ conn' = s  BY <1>5, Zenon DEF Finish, SetT, T
  <2>15. n \in Nat  BY <1>2 DEF TxnRecs
  <2> HIDE DEF n
  <2>2. u \in TxnRecs /\ u.state = "Finishing"  BY <1>2, <2>15, Zenon DEF TxnRecs
  <2> HIDE DEF u
  <2>3. /\ tx' \in Seq(TxnRecs) /\ Len(tx') = Len(tx) /\ Fin(cur)'
        /\ \A t \in 1..Len(tx) : t # cur => tx'[t] = tx[t]
    BY <1>1, <1>2, <1>3, <2>1, <2>2 DEF Fin
  <2>4. s \in [1..Len(conn) -> ConnRecs]  BY <1>3, ReleasedConn, Zenon
  <2>5. conn' \in Seq(ConnRecs) /\ Len(conn') = Len(conn) /\ \A c \in 1..Len(conn) : conn'[c] = Released(c)
    BY <1>3, <2>1, <2>4
  <2> HIDE DEF s
  <2>6. \A c \in 1..Len(conn') : conn'[c].tx \in 1..Len(tx)
    BY <2>5, ReleasedConn, SMTT(20) DEF LifeInv, LifeTypes
  <2>7. GoroTypes'  BY <1>1, <2>3, SMTT(20) DEF LifeInv, LifeTypes, GoroTypes, PcNames
  <2>8. LifeTypes'  BY <1>1, <2>3, <2>5, <2>6, <2>7, Zenon DEF LifeInv, LifeTypes
  <2>9. HandlerLive'  BY <1>1, <1>2, SMTT(20) DEF HandlerLive, Busy
  <2>10. BoundLive'
    <3> SUFFICES ASSUME bound # None, tx'[bound].state = "Finishing", inMap
                 PROVE  pc' = "unbind" /\ bound = cur /\ stmt \in Begins
      BY <1>1, Zenon DEF BoundLive, Fin
    <3>1. bound = cur
      <4>1. bound \in 1..Len(tx)  BY DEF LifeInv, LifeTypes, None
      <4>2. ~Fin(bound)  BY <1>1, Zenon DEF LifeInv, BoundLive
      <4> QED  BY <2>3, <4>1, <4>2, Zenon DEF Fin
    <3> QED  BY <1>1, <3>1, Zenon DEF LifeInv, HandlerLive
  <2>11. PooledByFinish'
    <3> SUFFICES ASSUME NEW c \in 1..Len(conn), conn'[c].st = "pooled"
                 PROVE  tx'[conn'[c].tx].state = "Finishing" /\ conn'[c].kind # "twopc"
      BY <2>5, Zenon DEF PooledByFinish, Fin
    <3>1. conn'[c] = Released(c) /\ conn'[c].tx = conn[c].tx /\ conn[c].tx \in 1..Len(tx)
      BY <2>5, ReleasedConn, Zenon DEF LifeInv, LifeTypes
    <3>2. CASE conn[c].tx = cur  BY <1>1, <2>3, <3>1, <3>2, ReleasedConn, ZenonT(30) DEF Fin
    <3>3. CASE conn[c].tx # cur
      <4>1. conn'[c] = conn[c]  BY <3>1, <3>3, ReleasedConn, Zenon
      <4>2. Fin(conn[c].tx) /\ conn[c].kind # "twopc"  BY <4>1, Zenon DEF LifeInv, PooledByFinish
      <4> QED  BY <2>3, <3>1, <3>3, <4>1, <4>2, Zenon DEF Fin
    <3> QED  BY <3>2, <3>3, Zenon
  <2>12. AbortBeforeFinish'
    <3> SUFFICES ASSUME NEW k \in Killers, kpc[k] = "twopc" PROVE ~(tx'[ktx[k]].state = "Finishing")
      BY <1>1, Zenon DEF AbortBeforeFinish, Fin
    <3>1. ktx[k] \in 1..Len(tx) /\ ~Fin(ktx[k])  BY DEF LifeInv, LifeTypes, AbortBeforeFinish, None
    <3>2. ktx[k] # cur  BY <1>1, Zenon DEF MuFree
    <3> QED  BY <2>3, <3>1, <3>2, Zenon DEF Fin
  <2>13. LegsOwn'  BY <1>1, Zenon DEF LegsOwn
  <2>14. KeepsPooled
    <3> SUFFICES ASSUME NEW c \in 1..Len(conn), conn[c].st = "pooled" PROVE conn'[c].st = "pooled"
      BY <1>3, Zenon DEF KeepsPooled
    <3>1. conn[c].tx # cur  BY <1>2, Zenon DEF LifeInv, PooledByFinish
    <3> QED  BY <2>5, <3>1, ReleasedConn, Zenon
  <2> QED  BY <2>8, <2>9, <2>10, <2>11, <2>12, <2>13, <2>14, Zenon DEF LifeInv
<1> QED  BY <1>4, <1>5, Zenon

-----------------------------------------------------------------------------
(* The goroutines that end the session. *)

\* A killer leaves the goroutine of the session alone, but for its exit.
LEMMA KillerInv ==
  ASSUME LifeInv, FinKept, inMap' \in {inMap, FALSE},
         UNCHANGED <<bound, stmt, goal, round, leg, got, cur>>,
         pc' = pc \/ (pc \in {"idle", "dead"} /\ pc' = "gone"),
         conn' \in Seq(ConnRecs), \A c \in 1..Len(conn') : conn'[c].tx \in 1..Len(tx),
         Len(conn') = Len(conn), \A c \in 1..Len(conn) : conn'[c].tx = conn[c].tx,
         PooledByFinish', kpc' \in [Killers -> KpcNames], ktx' \in [Killers -> 0..Len(tx)],
         \A k \in Killers : kpc'[k] \in {"lock", "twopc"} => ktx'[k] # None,
         AbortBeforeFinish'
  PROVE  LifeInv'
<1>1. tx' \in Seq(TxnRecs) /\ Len(tx') = Len(tx) /\ inMap' \in BOOLEAN  BY Zenon DEF FinKept, LifeInv, LifeTypes
<1>2. GoroTypes'  BY <1>1, Zenon DEF LifeInv, LifeTypes, GoroTypes, PcNames
<1>3. LifeTypes'  BY <1>1, <1>2, Zenon DEF LifeInv, LifeTypes, KpcNames
<1>4. HandlerLive'
  <2>1. CASE pc' = "gone"  BY <2>1, SMTT(20) DEF HandlerLive, Busy
  <2>2. CASE pc' = pc /\ pc \in Busy
    <3>1. cur \in 1..Len(tx)  BY <2>2 DEF LifeInv, LifeTypes, GoroTypes, HandlerLive, None
    <3>2. Fin(cur)' <=> Fin(cur)  BY <3>1, Zenon DEF FinKept, Fin
    <3>3. inMap' => inMap  BY Zenon
    <3> QED  BY <2>2, <3>2, <3>3, SMTT(20) DEF LifeInv, HandlerLive
  <2>3. CASE pc' = pc /\ ~(pc \in Busy)  BY <2>3, Zenon DEF HandlerLive, Busy
  <2> QED  BY <2>1, <2>2, <2>3, Zenon
<1>5. BoundLive'
  <2> SUFFICES ASSUME bound # None, tx'[bound].state = "Finishing", inMap'
               PROVE  pc' = "unbind" /\ bound = cur /\ stmt \in Begins
    BY Zenon DEF BoundLive, Fin
  <2>1. inMap  BY Zenon
  <2>2. bound \in 1..Len(tx)  BY DEF LifeInv, LifeTypes, None
  <2>3. Fin(bound)  BY <2>2, Zenon DEF FinKept, Fin
  <2> QED  BY <2>1, <2>3, Zenon DEF LifeInv, BoundLive
<1>6. LegsOwn'  BY Zenon DEF LifeInv, LegsOwn
<1> QED  BY <1>3, <1>4, <1>5, <1>6, SMTT(20) DEF LifeInv

\* A step of a killer that takes no lock of a transaction and no connection.
LEMMA KillerMoves ==
  ASSUME LifeInv, UNCHANGED <<tx, conn, bound, stmt, goal, round, leg, got, cur, ktx>>,
         inMap' \in {inMap, FALSE}, pc' = pc \/ (pc \in {"idle", "dead"} /\ pc' = "gone"),
         NEW k \in Killers, NEW p \in {"target", "close", "over"}, kpc' = [kpc EXCEPT ![k] = p]
  PROVE  LifeInv' /\ KeepsPooled
<1>1. FinKept /\ PooledByFinish'  BY SameTx, PoolFrame, Zenon
<1>2. kpc \in [Killers -> KpcNames] /\ ktx \in [Killers -> 0..Len(tx)]  BY Zenon DEF LifeInv, LifeTypes, KpcNames
<1>3. kpc' \in [Killers -> KpcNames]  BY <1>2, Zenon DEF KpcNames
<1>4. \A j \in Killers : kpc'[j] \in {"lock", "twopc"} => kpc'[j] = kpc[j]  BY <1>2, SMTT(20)
<1>5. \A j \in Killers : kpc'[j] \in {"lock", "twopc"} => ktx'[j] # None  BY <1>4, ZenonT(30) DEF LifeInv, LifeTypes
<1>6. AbortBeforeFinish'  BY <1>4, Zenon DEF LifeInv, AbortBeforeFinish, Fin
<1>7. /\ conn' \in Seq(ConnRecs) /\ \A c \in 1..Len(conn') : conn'[c].tx \in 1..Len(tx)
  BY SMTT(20) DEF LifeInv, LifeTypes
<1>8. LifeInv'  BY <1>1, <1>2, <1>3, <1>5, <1>6, <1>7, KillerInv, Zenon
<1> QED  BY <1>8, Zenon DEF KeepsPooled

\* Kill and Remove take the session out of the map; its exit ends its goroutine.
LEMMA KillSessionInv ==
  ASSUME LifeInv, NEW k \in Killers, KillSession(k) PROVE LifeInv' /\ KeepsPooled
<1>1. /\ UNCHANGED <<tx, conn, bound, stmt, goal, round, leg, got, cur, ktx>> /\ inMap' = FALSE
      /\ \E p \in {"close", "over"} : kpc' = [kpc EXCEPT ![k] = p]
  BY Zenon DEF KillSession
<1>2. pc' = pc \/ (pc \in {"idle", "dead"} /\ pc' = "gone")
  BY Zenon DEF KillSession, MayKill, Exits
<1> QED  BY <1>1, <1>2, KillerMoves, Zenon

\* Sessions.Close starts with the session.
LEMMA CloseSessionsInv ==
  ASSUME LifeInv, NEW k \in Killers, CloseSessions(k) PROVE LifeInv' /\ KeepsPooled
<1>1. /\ UNCHANGED <<tx, conn, bound, pc, stmt, goal, round, leg, got, cur, ktx, inMap>>
      /\ kpc' = [kpc EXCEPT ![k] = "close"]
  BY Zenon DEF CloseSessions, goro
<1> QED  BY <1>1, KillerMoves, Zenon

\* The idle transaction manager chooses the session.
LEMMA SnapshotTxnInv == ASSUME LifeInv, SnapshotTxn PROVE LifeInv' /\ KeepsPooled
<1>1. /\ UNCHANGED <<tx, conn, bound, pc, stmt, goal, round, leg, got, cur, ktx, inMap>>
      /\ "idle" \in Killers /\ kpc' = [kpc EXCEPT !["idle"] = "target"]
  BY Zenon DEF SnapshotTxn, goro, sess
<1> QED  BY <1>1, KillerMoves, ZenonT(30)

\* The last packet gets old.
LEMMA TimePassesInv == ASSUME LifeInv, TimePasses PROVE LifeInv' /\ KeepsPooled
<1>1. UNCHANGED <<tx, conn, bound, pc, stmt, goal, round, leg, got, cur, ktx, kpc, inMap>>
  BY Zenon DEF TimePasses, goro, kill
<1>2. LifeInv'  BY <1>1, LifeStutter, Zenon
<1> QED  BY <1>1, <1>2, Zenon DEF KeepsPooled

\* session.close reads the bound transaction, which may end before Abort has the lock.
LEMMA CloseSessionInv ==
  ASSUME LifeInv, NEW k \in Killers, CloseSession(k) PROVE LifeInv' /\ KeepsPooled
<1>1. /\ UNCHANGED <<tx, conn, bound, pc, stmt, goal, round, leg, got, cur, inMap>>
      /\ ktx' = [ktx EXCEPT ![k] = bound]
      /\ kpc' = [kpc EXCEPT ![k] = IF bound = None THEN Done(k) ELSE "lock"]
  BY Zenon DEF CloseSession, goro
<1>2. FinKept /\ PooledByFinish'  BY <1>1, SameTx, PoolFrame, Zenon
<1>3. kpc \in [Killers -> KpcNames] /\ ktx \in [Killers -> 0..Len(tx)] /\ bound \in 0..Len(tx)
  BY Zenon DEF LifeInv, LifeTypes, KpcNames
<1>4. Done(k) \in {"none", "over"}  BY Zenon DEF Done
<1>5. kpc' \in [Killers -> KpcNames] /\ ktx' \in [Killers -> 0..Len(tx)]  BY <1>1, <1>3, <1>4, SMTT(20) DEF KpcNames
<1>6. \A j \in Killers : kpc'[j] \in {"lock", "twopc"} => ktx'[j] # None
  BY <1>1, <1>3, <1>4, Zenon DEF LifeInv, LifeTypes
<1>7. \A j \in Killers : kpc'[j] = "twopc" => kpc[j] = "twopc" /\ ktx'[j] = ktx[j]
  BY <1>1, <1>3, <1>4, SMTT(20)
<1>8. AbortBeforeFinish'  BY <1>1, <1>7, SMTT(20) DEF LifeInv, AbortBeforeFinish, Fin
<1>9. /\ conn' \in Seq(ConnRecs) /\ \A c \in 1..Len(conn') : conn'[c].tx \in 1..Len(tx)
  BY <1>1, SMTT(20) DEF LifeInv, LifeTypes
<1>10. LifeInv'  BY <1>1, <1>2, <1>5, <1>6, <1>8, <1>9, KillerInv, Zenon
<1> QED  BY <1>1, <1>10, Zenon DEF KeepsPooled

\* The deferred functions of Abort leave the state of the transaction alone.
LEMMA ClearedTxn ==
  ASSUME LifeInv, NEW t \in 1..Len(tx)
  PROVE  tx[t] \in TxnRecs /\ Cleared(t) \in TxnRecs /\ Cleared(t).state = tx[t].state
<1>1. tx[t] \in TxnRecs  BY DEF LifeInv, LifeTypes
<1> QED  BY <1>1, Zenon DEF Cleared, TxnRecs

\* Abort has the lock: it does nothing to a transaction that is finished, and
\* no Finish may follow before it is done.
LEMMA AbortLockInv ==
  ASSUME LifeInv, NEW k \in Killers, AbortLock(k) PROVE LifeInv' /\ KeepsPooled
<1> DEFINE t == ktx[k]
<1>1. /\ UNCHANGED <<conn, bound, pc, stmt, goal, round, leg, got, cur, ktx, inMap>> /\ kpc[k] = "lock"
  BY Zenon DEF AbortLock, goro
<1>2. kpc \in [Killers -> KpcNames] /\ ktx \in [Killers -> 0..Len(tx)] /\ tx \in Seq(TxnRecs)
  BY Zenon DEF LifeInv, LifeTypes, KpcNames
<1>3. t \in 1..Len(tx)  BY <1>1, <1>2, SMTT(20) DEF LifeInv, LifeTypes, None
<1>4. /\ conn' \in Seq(ConnRecs) /\ \A c \in 1..Len(conn') : conn'[c].tx \in 1..Len(tx)
  BY <1>1, Zenon DEF LifeInv, LifeTypes
<1>5. ASSUME FinKept, NEW p \in {"none", "over", "twopc"}, kpc' = [kpc EXCEPT ![k] = p],
             p = "twopc" => ~Fin(t)
      PROVE  LifeInv' /\ KeepsPooled
  <2>1. kpc' \in [Killers -> KpcNames]  BY <1>2, <1>5, SMTT(20) DEF KpcNames
  <2>2. \A j \in Killers : kpc'[j] \in {"lock", "twopc"} => ktx'[j] # None
    BY <1>1, <1>2, <1>5, SMTT(20) DEF LifeInv, LifeTypes
  <2>3. AbortBeforeFinish'
    <3> SUFFICES ASSUME NEW j \in Killers, kpc'[j] = "twopc" PROVE ~(tx'[ktx[j]].state = "Finishing")
      BY <1>1, Zenon DEF AbortBeforeFinish, Fin
    <3>1. ktx[j] \in 1..Len(tx)  BY <1>1, <1>2, <2>2 DEF None
    <3>2. ~Fin(ktx[j])  BY <1>2, <1>5, Zenon DEF LifeInv, AbortBeforeFinish
    <3> QED  BY <1>5, <3>1, <3>2, Zenon DEF FinKept, Fin
  <2>4. PooledByFinish'  BY <1>1, <1>5, PoolFrame, SMTT(20)
  <2>5. LifeInv'  BY <1>1, <1>2, <1>4, <1>5, <2>1, <2>2, <2>3, <2>4, KillerInv, Zenon
  <2> QED  BY <1>1, <2>5, Zenon DEF KeepsPooled
<1>6. CASE tx[t].state = "Finishing"
  <2>1. tx' = [tx EXCEPT ![t] = Cleared(t)] /\ kpc' = [kpc EXCEPT ![k] = Done(k)]  BY <1>6, Zenon DEF AbortLock
  <2>2. FinKept  BY <1>2, <1>3, <2>1, ClearedTxn, SetOne, Zenon DEF Fin
  <2>3. Done(k) \in {"none", "over"}  BY Zenon DEF Done
  <2> QED  BY <1>5, <2>1, <2>2, <2>3, Zenon
<1>7. CASE tx[t].state # "Finishing"
  <2> DEFINE u == [tx[t] EXCEPT !.state = "Aborting"]
  <2>1. tx' = [tx EXCEPT ![t] = u] /\ kpc' = [kpc EXCEPT ![k] = "twopc"]  BY <1>2, <1>3, <1>7, Zenon DEF AbortLock
  <2>2. u \in TxnRecs /\ u.state # "Finishing"  BY <1>3, ClearedTxn, Zenon DEF TxnRecs
  <2> HIDE DEF u
  <2>3. FinKept  BY <1>2, <1>3, <1>7, <2>1, <2>2, SetOne, Zenon DEF Fin
  <2> QED  BY <1>5, <1>7, <2>1, <2>3, Zenon DEF Fin
<1> QED  BY <1>6, <1>7, Zenon

\* A killed connection is not pooled and stays with its transaction.
LEMMA KilledConn ==
  ASSUME LifeInv, NEW c \in 1..Len(conn)
  PROVE  /\ conn[c] \in ConnRecs /\ Killed(c) \in ConnRecs /\ Killed(c).tx = conn[c].tx
         /\ Killed(c).st # "pooled"
<1> DEFINE p == IF conn[c].st = "closed" THEN conn[c].st ELSE "killed"
<1>1. conn[c] \in ConnRecs  BY DEF LifeInv, LifeTypes
<1>2. p \in {"closed", "killed"}  BY Zenon
<1>3. Killed(c) = [conn[c] EXCEPT !.st = p, !.xa = "none"]  BY Zenon DEF Killed
<1> HIDE DEF p
<1> QED  BY <1>1, <1>2, <1>3, Zenon DEF ConnRecs

\* Abort kills connections of its transaction only.
LEMMA AbortConns ==
  ASSUME LifeInv, NEW k \in Killers, kpc[k] = "twopc", FinKept, OwnConns(ktx[k]), Len(conn') = Len(conn)
  PROVE  /\ conn' \in Seq(ConnRecs) /\ \A c \in 1..Len(conn') : conn'[c].tx \in 1..Len(tx)
         /\ \A c \in 1..Len(conn) : conn'[c].tx = conn[c].tx
         /\ PooledByFinish' /\ KeepsPooled
<1>1. ktx[k] \in 1..Len(tx) /\ ~Fin(ktx[k])  BY DEF LifeInv, LifeTypes, AbortBeforeFinish, None
<1>2. conn' \in Seq(ConnRecs) /\ \A c \in 1..Len(conn) : conn'[c].tx = conn[c].tx  BY Zenon DEF OwnConns
<1> QED  BY <1>1, <1>2, ConnsKept, Zenon

\* Abort kills a connection of the map, which holds no pooled one.
LEMMA AbortTwopcInv ==
  ASSUME LifeInv, NEW k \in Killers, NEW d \in DOMAIN conn, AbortTwopc(k, d) PROVE LifeInv' /\ KeepsPooled
<1>1. /\ UNCHANGED <<tx, bound, pc, stmt, goal, round, leg, got, cur, ktx, kpc, inMap>>
      /\ kpc[k] = "twopc" /\ conn[d].tx = ktx[k]
      /\ conn' = [conn EXCEPT ![d] = [Killed(d) EXCEPT !.kind = "lost"]]
  BY SMTT(20) DEF AbortTwopc, TwopcOf, goro, sess, kill
<1>2. conn \in Seq(ConnRecs) /\ Len(conn) \in Nat /\ d \in 1..Len(conn)  BY DEF LifeInv, LifeTypes
<1> DEFINE r == [Killed(d) EXCEPT !.kind = "lost"]
<1>3. r \in ConnRecs /\ r.tx = conn[d].tx /\ r.st # "pooled"
  BY <1>2, KilledConn, LostConn, Zenon
<1>4. conn' = [conn EXCEPT ![d] = r]  BY <1>1, Zenon
<1> HIDE DEF r
<1>5. conn' \in Seq(ConnRecs) /\ Len(conn') = Len(conn) /\ \A c \in 1..Len(conn) : conn'[c] = IF c = d THEN r ELSE conn[c]
  BY <1>2, <1>3, <1>4, SMTT(20)
<1>6. OwnConns(ktx[k])
  <2>1. \A c \in 1..Len(conn) : /\ conn'[c].tx = conn[c].tx
                                /\ conn[c].tx # ktx[k] => conn'[c] = conn[c]
                                /\ conn'[c].st = "pooled" => conn[c].st = "pooled"
    BY <1>1, <1>3, <1>5, Zenon
  <2> QED  BY <1>2, <1>5, <2>1 DEF OwnConns
<1>7. FinKept  BY <1>1, SameTx, Zenon
<1>8. /\ conn' \in Seq(ConnRecs) /\ \A c \in 1..Len(conn') : conn'[c].tx \in 1..Len(tx)
      /\ \A c \in 1..Len(conn) : conn'[c].tx = conn[c].tx
      /\ PooledByFinish' /\ KeepsPooled
  BY <1>1, <1>5, <1>6, <1>7, AbortConns, Zenon
<1>9. AbortBeforeFinish'  BY <1>1, <1>7, KillFrame, Zenon
<1>10. /\ kpc' \in [Killers -> KpcNames] /\ ktx' \in [Killers -> 0..Len(tx)]
       /\ \A j \in Killers : kpc'[j] \in {"lock", "twopc"} => ktx'[j] # None
  BY <1>1, Zenon DEF LifeInv, LifeTypes, KpcNames
<1> QED  BY <1>1, <1>5, <1>7, <1>8, <1>9, <1>10, KillerInv, Zenon

\* Abort kills the normal connections and lets go of the lock: the transaction is not finished yet.
LEMMA AbortEndInv ==
  ASSUME LifeInv, NEW k \in Killers, AbortEnd(k) PROVE LifeInv' /\ KeepsPooled
<1> DEFINE t == ktx[k]
           s == [c \in DOMAIN conn |-> IF conn[c].tx = t /\ conn[c].kind = "normal" THEN Killed(c) ELSE conn[c]]
           n == Cleared(t).removed + 1
           u == [Cleared(t) EXCEPT !.removed = n]
<1>1. /\ UNCHANGED <<bound, pc, stmt, goal, round, leg, got, cur, ktx, inMap>> /\ kpc[k] = "twopc"
      /\ kpc' = [kpc EXCEPT ![k] = Done(k)] /\ conn' = s /\ tx' = [tx EXCEPT ![t] = u]
  BY SMTT(20) DEF AbortEnd, goro
<1>2. /\ kpc \in [Killers -> KpcNames] /\ ktx \in [Killers -> 0..Len(tx)] /\ tx \in Seq(TxnRecs)
      /\ conn \in Seq(ConnRecs) /\ Len(conn) \in Nat /\ DOMAIN conn = 1..Len(conn)
  BY LifeFacts, Zenon
<1>3. t \in 1..Len(tx)  BY <1>1, <1>2, SMTT(20) DEF LifeInv, LifeTypes, None
<1>4. FinKept
  <2>1. Cleared(t) \in TxnRecs /\ Cleared(t).state = tx[t].state  BY <1>3, ClearedTxn, Zenon
  <2>2. n \in Nat  BY <2>1 DEF TxnRecs
  <2> HIDE DEF n
  <2>3. u \in TxnRecs /\ u.state = tx[t].state  BY <2>1, <2>2, Zenon DEF TxnRecs
  <2> HIDE DEF u
  <2> QED  BY <1>1, <1>2, <1>3, <2>3, SetOne, Zenon DEF Fin
<1>5. s \in [1..Len(conn) -> ConnRecs]  BY <1>2, KilledConn, Zenon
<1>6. conn' \in Seq(ConnRecs) /\ Len(conn') = Len(conn)  BY <1>1, <1>2, <1>5
<1>7. \A c \in 1..Len(conn) : conn'[c] = conn[c] \/ (conn[c].tx = t /\ conn'[c] = Killed(c))  BY <1>1, <1>2, SMTT(20)
<1> HIDE DEF s, u
<1>8. OwnConns(t)  BY <1>2, <1>6, <1>7, KilledConn, SMTT(20) DEF OwnConns
<1>9. /\ conn' \in Seq(ConnRecs) /\ \A c \in 1..Len(conn') : conn'[c].tx \in 1..Len(tx)
      /\ \A c \in 1..Len(conn) : conn'[c].tx = conn[c].tx
      /\ PooledByFinish' /\ KeepsPooled
  BY <1>1, <1>4, <1>6, <1>8, AbortConns, Zenon
<1>10. Done(k) \in {"none", "over"}  BY Zenon DEF Done
<1>11. kpc' \in [Killers -> KpcNames]  BY <1>1, <1>2, <1>10, Zenon DEF KpcNames
<1>12. \A j \in Killers : kpc'[j] \in {"lock", "twopc"} => kpc'[j] = kpc[j]  BY <1>1, <1>2, <1>10, SMTT(20)
<1>13. \A j \in Killers : kpc'[j] \in {"lock", "twopc"} => ktx'[j] # None  BY <1>1, <1>12, Zenon DEF LifeInv, LifeTypes
<1>14. AbortBeforeFinish'
  <2> SUFFICES ASSUME NEW j \in Killers, kpc'[j] = "twopc" PROVE ~(tx'[ktx[j]].state = "Finishing")
    BY <1>1, Zenon DEF AbortBeforeFinish, Fin
  <2>1. ktx[j] \in 1..Len(tx) /\ ~Fin(ktx[j])
    BY <1>1, <1>2, <1>12, <1>13 DEF LifeInv, AbortBeforeFinish, None
  <2> QED  BY <1>4, <2>1, Zenon DEF FinKept, Fin
<1> QED  BY <1>1, <1>2, <1>4, <1>6, <1>9, <1>11, <1>13, <1>14, KillerInv, Zenon

-----------------------------------------------------------------------------
\* Every step keeps the invariant and what is pooled.
LEMMA LifeNextInv == LifeInv /\ [LifeNext]_lifeVars => LifeInv' /\ (LifeNext => KeepsPooled)
<1> SUFFICES ASSUME LifeInv, [LifeNext]_lifeVars PROVE LifeInv' /\ (LifeNext => KeepsPooled)  BY Zenon
<1>1. ASSUME NEW s \in Stmts, Arrive(s) PROVE LifeInv' /\ KeepsPooled  BY <1>1, ArriveInv, Zenon
<1>2. CASE PlanFails  BY <1>2, PlanFailsInv, Zenon
<1>3. ASSUME NEW l \in Backends, LegStep(l) PROVE LifeInv' /\ KeepsPooled
  BY <1>3, twopcConnectionInv, StoreTwopcInv, normalConnectionInv, GetFailsInv, LegRunsInv, LegErrorInv, Zenon DEF LegStep
<1>4. CASE SessionStep
  BY <1>3, <1>4, CheckInv, RefuseInv, CreateTxnInv, BindingInv, BeginInv, BeginScatterInv, ExecuteInv, RequestInv,
     RoundEndsInv, UnBindingInv, FinishInv, Zenon DEF SessionStep
<1>5. CASE TimePasses  BY <1>5, TimePassesInv, Zenon
<1>6. CASE SnapshotTxn  BY <1>6, SnapshotTxnInv, Zenon
<1>7. ASSUME NEW k \in Killers, AbortStep(k) PROVE LifeInv' /\ KeepsPooled
  BY <1>7, CloseSessionInv, AbortLockInv, AbortEndInv, AbortTwopcInv, Zenon DEF AbortStep
<1>8. ASSUME NEW k \in Killers, KillerStep(k) PROVE LifeInv' /\ KeepsPooled
  BY <1>7, <1>8, KillSessionInv, CloseSessionsInv, Zenon DEF KillerStep
<1>9. CASE LifeNext  BY <1>1, <1>2, <1>4, <1>5, <1>6, <1>8, <1>9, Zenon DEF LifeNext
<1>10. CASE UNCHANGED lifeVars
  <2>1. UNCHANGED <<tx, conn, bound, pc, stmt, goal, round, leg, got, cur, ktx, kpc, inMap>>
    BY <1>10, SMTT(20) DEF lifeVars, sess, goro, kill
  <2>2. LifeInv'  BY <2>1, LifeStutter, Zenon
  <2> QED  BY <1>9, <2>2, Zenon
<1> QED  BY <1>9, <1>10, Zenon

\* Abort never kills, and nobody else takes, a connection that Finish has given back to
\* its pool, whatever the killers of the session read before the transaction ended: for
\* every statement, killer, number of statements and failures.
THEOREM ReleasedSpared == LifeSpec => NoKillAfterRelease
<1>1. LifeSpec => []LifeInv
  <2>1. LifeInv /\ [LifeNext]_lifeVars => LifeInv'  BY LifeNextInv, Zenon
  <2> QED  BY LifeInitInv, <2>1, PTL DEF LifeSpec
<1>2. LifeInv /\ [LifeNext]_lifeVars => [KeepsPooled]_lifeVars  BY LifeNextInv, Zenon
<1>3. []LifeInv /\ [][LifeNext]_lifeVars => [][KeepsPooled]_lifeVars  BY <1>2, PTL
<1>4. [][KeepsPooled]_lifeVars => NoKillAfterRelease  BY Zenon DEF NoKillAfterRelease, KeepsPooled
<1> QED  BY <1>1, <1>3, <1>4, PTL DEF LifeSpec

=============================================================================
