---------------------------- MODULE LimitProofs ----------------------------
(***************************************************************************)
(* What is counted and limited: the producers of a streamed SELECT         *)
(* (StreamFetch), for any number of shards and rows, and what the shifts   *)
(* of a proxy share (ShiftService), for any users, limits and requests.    *)
(***************************************************************************)
EXTENDS StreamFetch, ShiftService, FiniteSetTheorems, TLAPS

-----------------------------------------------------------------------------
(* Streams. *)

Done == {q \in Querys : prod[q] \in {"ended", "failed"}}

\* The counter never runs ahead of the producers that are done (some are done
\* without having counted), and the channel is closed when it has counted all.
ChanInv ==
  /\ prod \in [Querys -> {"none", "next", "holds", "ended", "failed"}]
  /\ rows \in [n : Int, finished : Nat, closed : BOOLEAN]
  /\ rows.finished <= Cardinality(Done)
  /\ rows.closed => rows.finished = Cardinality(Querys)
  /\ main.step \in {"fetch", "fields"} => rows.finished = 0 /\ \A q \in Querys : prod[q] = "none"

\* The caller.
MainType == main \in [step : {"fetch", "fields", "rows", "returned"}, next : Int, answer : {"none", "finished", "error"}]

\* The producers that are done are some of the queries.
LEMMA DoneFinite == /\ IsFiniteSet(Querys) /\ Cardinality(Querys) \in Nat /\ Cardinality(Querys) > 0
                    /\ \A s \in SUBSET Querys :
                         /\ IsFiniteSet(s) /\ Cardinality(s) \in Nat /\ Cardinality(s) <= Cardinality(Querys)
                         /\ Cardinality(s) = Cardinality(Querys) => s = Querys
<1>1. IsFiniteSet(Querys) /\ Querys # {}
  BY StreamAssumption, Zenon
<1>2. Cardinality(Querys) \in Nat /\ Cardinality(Querys) > 0
  BY <1>1, FS_CardinalityType, FS_EmptySet
<1> QED
  BY <1>1, <1>2, FS_Subset, FS_CardinalityType, Zenon

\* A channel that is closed has no producer at work.
LEMMA ChanQuiet == ChanInv => NoSendAfterClose
<1> SUFFICES ASSUME ChanInv, rows.closed PROVE \A q \in Querys : prod[q] \in {"ended", "failed"}
  BY Zenon DEF NoSendAfterClose
<1>1. Done \in SUBSET Querys
  BY Zenon DEF Done
<1>2. rows.finished = Cardinality(Querys) /\ rows.finished <= Cardinality(Done)
  BY Zenon DEF ChanInv
<1>3. Done = Querys
  BY <1>1, <1>2, DoneFinite
<1> QED
  BY <1>3, Zenon DEF Done

\* No producer runs before the fields are sent.
LEMMA ChanInit == StreamInit => ChanInv
<1> SUFFICES ASSUME StreamInit PROVE ChanInv
  BY Zenon
<1>1. Done \in SUBSET Querys
  BY Zenon DEF Done
<1>2. Cardinality(Done) \in Nat
  BY <1>1, DoneFinite, Zenon
<1> QED
  BY <1>2 DEF StreamInit, ChanInv

\* A step that leaves the channel, the producers and the early steps.
LEMMA ChanSame ==
  ASSUME ChanInv, UNCHANGED <<prod, rows>>, main'.step \in {"fetch", "fields"} => main.step \in {"fetch", "fields"}
  PROVE  ChanInv'
<1>1. Done' = Done
  BY Zenon DEF Done
<1> QED
  BY <1>1, Zenon DEF ChanInv

\* A producer that is done, and counts or not.
LEMMA ChanDone ==
  ASSUME ChanInv, NEW q \in Querys, prod[q] \in {"next", "holds"}, NEW how \in {"ended", "failed"},
         prod' = [prod EXCEPT ![q] = how], UNCHANGED main, Finished(q, how) \/ rows' = rows
  PROVE  ChanInv'
<1>1. Done \in SUBSET Querys /\ q \notin Done /\ Done' = Done \cup {q}
  BY Zenon DEF Done, ChanInv
<1>2. IsFiniteSet(Done) /\ Cardinality(Done) \in Nat
  BY <1>1, DoneFinite, Zenon
<1>3. Cardinality(Done') = Cardinality(Done) + 1
  BY <1>1, <1>2, FS_AddElement, SMTT(20)
<1>4. Cardinality(Done') <= Cardinality(Querys)
  <2>1. Done' \in SUBSET Querys
    BY <1>1, Zenon
  <2> QED
    BY <2>1, DoneFinite, Zenon
<1>5. prod' \in [Querys -> {"none", "next", "holds", "ended", "failed"}]
  BY Zenon DEF ChanInv
<1>6. main'.step \notin {"fetch", "fields"}
  BY Zenon DEF ChanInv
<1>7. rows.finished < Cardinality(Querys) /\ ~rows.closed
  BY <1>2, <1>3, <1>4, DoneFinite DEF ChanInv
<1>8. CASE Finished(q, how)
  <2> DEFINE all == rows.finished + 1 = Cardinality(Querys)
  <2>1. rows' = [n |-> rows.n, finished |-> rows.finished + 1, closed |-> all]
    BY <1>8, Zenon DEF Finished
  <2>2. all \in BOOLEAN
    BY Zenon
  <2>3. PICK c \in BOOLEAN : /\ rows' = [n |-> rows.n, finished |-> rows.finished + 1, closed |-> c]
                             /\ c => rows.finished + 1 = Cardinality(Querys)
    BY <2>1, <2>2, Zenon
  <2>4. /\ rows' \in [n : Int, finished : Nat, closed : BOOLEAN]
        /\ rows'.finished = rows.finished + 1 /\ rows'.closed = c
    BY <2>3 DEF ChanInv
  <2> QED
    BY <2>3, <2>4, <1>2, <1>3, <1>5, <1>6 DEF ChanInv
<1>9. CASE rows' = rows
  BY <1>9, <1>2, <1>3, <1>5, <1>6, <1>7 DEF ChanInv
<1> QED
  BY <1>8, <1>9, Zenon

\* Return leaves the channel and the producers.
LEMMA ReturnEffect ==
  ASSUME NEW a, Return(a)
  PROVE  /\ UNCHANGED <<prod, rows>> /\ recycled' = TRUE
         /\ shard' = [q \in Querys |-> IF shard[q] = "cursor" THEN "closed" ELSE shard[q]]
         /\ main' = [main EXCEPT !.step = "returned", !.answer = a]
BY Zenon DEF Return

\* The caller's steps.
LEMMA ChanMain ==
  ASSUME ChanInv, MainType, FetchConnection \/ FetchConnectionFails \/ WaitShards \/ \E ok \in BOOLEAN : SendFields(ok) \/ WaitRows(ok)
  PROVE  ChanInv'
<1>1. CASE \E a : Return(a)
  <2>1. UNCHANGED <<prod, rows>> /\ main'.step = "returned"
    BY <1>1, ReturnEffect, Zenon DEF MainType
  <2> QED
    BY <2>1, ChanSame, Zenon
<1>2. CASE FetchConnection
  BY <1>2, ChanSame, Zenon DEF FetchConnection, MainType
<1>3. CASE main.step = "fetch" /\ main' = [main EXCEPT !.step = "fields"] /\ UNCHANGED <<prod, rows>>
  BY <1>3, ChanSame, Zenon
<1>4. CASE SendFields(TRUE)
  <2>1. /\ main.step = "fields" /\ main' = [main EXCEPT !.step = "rows"] /\ UNCHANGED rows
        /\ prod' = [q \in Querys |-> "next"]
    BY <1>4, Zenon DEF SendFields
  <2>2. main'.step = "rows"
    BY <2>1, Zenon DEF MainType
  <2>3. rows.finished = 0
    BY <2>1, Zenon DEF ChanInv
  <2>4. Done' \in SUBSET Querys
    BY Zenon DEF Done
  <2>5. Cardinality(Done') \in Nat
    BY <2>4, DoneFinite, Zenon
  <2> QED
    BY <2>1, <2>2, <2>3, <2>5 DEF ChanInv
<1>5. SendFields(FALSE) => \E a : Return(a)
  BY Zenon DEF SendFields
<1> QED
  BY <1>1, <1>2, <1>3, <1>4, <1>5, Zenon DEF FetchConnectionFails, WaitShards, WaitRows

\* Every step.
LEMMA ChanNext == ASSUME ChanInv, MainType, [StreamNext]_streamVars PROVE ChanInv'
<1>1. CASE UNCHANGED streamVars
  BY <1>1, ChanSame, Zenon DEF streamVars
<1>2. CASE FetchConnection \/ FetchConnectionFails \/ WaitShards \/ \E ok \in BOOLEAN : SendFields(ok) \/ WaitRows(ok)
  BY <1>2, ChanMain, Zenon
<1>3. ASSUME NEW q \in Querys, NEW res \in {"cursor", "failed"}, Asked(q, res) PROVE ChanInv'
  BY <1>3, ChanSame, Zenon DEF Asked
<1>4. ASSUME NEW q \in Querys, prod[q] \in {"next", "holds"} PROVE main.step \notin {"fetch", "fields"}
  BY <1>4, Zenon DEF ChanInv
<1>5. ASSUME NEW q \in Querys, NEW ok \in BOOLEAN, NextRow(q, ok) PROVE ChanInv'
  <2>1. prod[q] = "next" /\ UNCHANGED main
    BY <1>5, Zenon DEF NextRow
  <2>2. CASE ok
    <3>1. prod' = [prod EXCEPT ![q] = "holds"] /\ rows' = rows
      BY <1>5, <2>2, Zenon DEF NextRow
    <3>2. prod' \in [Querys -> {"none", "next", "holds", "ended", "failed"}]
      BY <3>1, Zenon DEF ChanInv
    <3>3. \A r \in Querys : prod'[r] = prod[r] \/ {prod'[r], prod[r]} \subseteq {"next", "holds"}
      BY <2>1, <3>1, Zenon DEF ChanInv
    <3>4. Done' = Done
      BY <3>3, Zenon DEF Done
    <3> QED
      BY <1>4, <2>1, <3>1, <3>2, <3>4, Zenon DEF ChanInv
  <2>3. CASE ~ok
    <3>1. Finished(q, "failed")
      BY <1>5, <2>3, Zenon DEF NextRow
    <3> QED
      BY <2>1, <3>1, ChanDone, Zenon DEF Finished
  <2> QED
    BY <2>2, <2>3, Zenon
<1>6. ASSUME NEW q \in Querys, NoRow(q) PROVE ChanInv'
  BY <1>6, ChanDone, Zenon DEF NoRow, Finished
<1>7. ASSUME NEW q \in Querys, Stopped(q) PROVE ChanInv'
  BY <1>7, ChanDone, Zenon DEF Stopped
<1>8. ASSUME NEW q \in Querys, Push(q) PROVE ChanInv'
  <2>1. /\ prod[q] = "holds" /\ UNCHANGED main
        /\ prod' = [prod EXCEPT ![q] = "next"] /\ rows' = [rows EXCEPT !.n = @ + 1]
    BY <1>8, Zenon DEF Push
  <2>2. prod' \in [Querys -> {"none", "next", "holds", "ended", "failed"}]
    BY <2>1, Zenon DEF ChanInv
  <2>3. \A r \in Querys : prod'[r] = prod[r] \/ {prod'[r], prod[r]} \subseteq {"next", "holds"}
    BY <2>1, Zenon DEF ChanInv
  <2>4. Done' = Done
    BY <2>3, Zenon DEF Done
  <2>5. /\ rows' \in [n : Int, finished : Nat, closed : BOOLEAN]
        /\ rows'.finished = rows.finished /\ rows'.closed = rows.closed
    BY <2>1 DEF ChanInv
  <2> QED
    BY <1>4, <2>1, <2>2, <2>4, <2>5, Zenon DEF ChanInv
<1>9. ASSUME NEW ok \in BOOLEAN, Consume(ok) PROVE ChanInv'
  <2>1. rows' = [rows EXCEPT !.n = @ - 1] /\ UNCHANGED <<main, prod>>
    BY <1>9, Zenon DEF Consume
  <2>2. /\ rows' \in [n : Int, finished : Nat, closed : BOOLEAN]
        /\ rows'.finished = rows.finished /\ rows'.closed = rows.closed
    BY <2>1 DEF ChanInv
  <2>3. Done' = Done
    BY <2>1, Zenon DEF Done
  <2> QED
    BY <2>1, <2>2, <2>3, Zenon DEF ChanInv
<1>10. ASSUME NEW ok \in BOOLEAN, ConsumeEnd(ok) PROVE ChanInv'
  BY <1>10, ChanSame, Zenon DEF ConsumeEnd
<1> QED
  BY <1>1, <1>2, <1>3, <1>5, <1>6, <1>7, <1>8, <1>9, <1>10, Zenon DEF StreamNext

\* Where the caller is.
LEMMA MainNext == ASSUME MainType, [StreamNext]_streamVars PROVE MainType'
<1>1. ASSUME NEW a \in {"finished", "error"}, Return(a) PROVE MainType'
  BY <1>1, Zenon DEF Return, MainType
<1>2. CASE FetchConnection
  BY <1>2, StreamAssumption DEF FetchConnection, MainType
<1>3. CASE main' = [main EXCEPT !.step = "fields"] \/ main' = [main EXCEPT !.step = "rows"]
  BY <1>3, Zenon DEF MainType
<1>4. CASE UNCHANGED main
  BY <1>4, Zenon DEF MainType
<1>5. FetchConnectionFails => Return("error")
  BY Zenon DEF FetchConnectionFails
<1>6. WaitShards => Return("error") \/ main' = [main EXCEPT !.step = "fields"]
  BY Zenon DEF WaitShards
<1>7. ASSUME NEW ok \in BOOLEAN, SendFields(ok) PROVE MainType'
  BY <1>7, <1>1, <1>3, Zenon DEF SendFields
<1>8. ASSUME NEW ok \in BOOLEAN, WaitRows(ok) PROVE MainType'
  BY <1>8, <1>1, Zenon DEF WaitRows
<1>9. ASSUME NEW ok \in BOOLEAN, Consume(ok) \/ ConsumeEnd(ok) PROVE MainType'
  BY <1>9, <1>4, Zenon DEF Consume, ConsumeEnd
<1>10. ASSUME NEW q \in Querys, \/ \E res \in {"cursor", "failed"} : Asked(q, res)
                                \/ \E ok \in BOOLEAN : NextRow(q, ok)
                                \/ NoRow(q) \/ Push(q) \/ Stopped(q)
       PROVE  MainType'
  BY <1>10, <1>4, Zenon DEF Asked, NextRow, NoRow, Push, Stopped
<1>11. CASE UNCHANGED streamVars
  BY <1>11, <1>4, Zenon DEF streamVars
<1> QED
  BY <1>1, <1>2, <1>3, <1>5, <1>6, <1>7, <1>8, <1>9, <1>10, <1>11, Zenon DEF StreamNext

\* The consumer never closes the channel and a producer that is stopped does not
\* count: no producer is left to send when the last one that counts closes it.
THEOREM SendWhileOpen == StreamSpec => []NoSendAfterClose
<1>1. StreamInit => MainType
  BY DEF StreamInit, MainType
<1> QED
  BY <1>1, MainNext, ChanInit, ChanNext, ChanQuiet, PTL DEF StreamSpec

-----------------------------------------------------------------------------
\* A query is asked for before the caller waits for the cursors; a caller that has
\* returned has closed them.
IdleInv ==
  /\ shard \in [Querys -> {"none", "asking", "cursor", "failed", "closed"}]
  /\ recycled => main.step = "returned"
  /\ main.step \in {"fields", "rows", "returned"} => \A q \in Querys : shard[q] # "asking"
  /\ main.step = "returned" => \A q \in Querys : shard[q] # "cursor"

\* The caller returns when no query is under way.
LEMMA IdleReturn ==
  ASSUME MainType, IdleInv, NEW a, Return(a), \A q \in Querys : shard[q] # "asking"
  PROVE  IdleInv'
<1>1. /\ shard' = [q \in Querys |-> IF shard[q] = "cursor" THEN "closed" ELSE shard[q]]
      /\ main' = [main EXCEPT !.step = "returned", !.answer = a]
  BY Zenon DEF Return
<1>2. main'.step = "returned"
  BY <1>1, Zenon DEF MainType
<1> QED
  BY <1>1, <1>2, Zenon DEF IdleInv

\* Every step, when every backend gives a connection.
LEMMA IdleNext == ASSUME ~FetchFails, MainType, IdleInv, [StreamNext]_streamVars PROVE IdleInv'
<1>1. CASE UNCHANGED <<main, shard, recycled>>
  BY <1>1, Zenon DEF IdleInv
<1>2. CASE FetchConnection
  <2>1. /\ main.step = "fetch" /\ main.next \in Querys /\ main' = [main EXCEPT !.next = @ + 1]
        /\ shard' = [shard EXCEPT ![main.next] = "asking"] /\ UNCHANGED recycled
    BY <1>2, Zenon DEF FetchConnection
  <2>2. main'.step = "fetch"
    BY <2>1, Zenon DEF MainType
  <2> QED
    BY <2>1, <2>2, Zenon DEF IdleInv
<1>3. CASE WaitShards
  <2>1. \A q \in Querys : shard[q] # "asking"
    BY <1>3, Zenon DEF WaitShards
  <2>2. CASE Return("error")
    BY <2>1, <2>2, IdleReturn, Zenon
  <2>3. CASE main' = [main EXCEPT !.step = "fields"] /\ UNCHANGED <<shard, recycled>>
    <3>1. main'.step = "fields" /\ main.step = "fetch"
      BY <1>3, <2>3, Zenon DEF MainType, WaitShards
    <3> QED
      BY <2>1, <2>3, <3>1, Zenon DEF IdleInv
  <2> QED
    BY <1>3, <2>2, <2>3, Zenon DEF WaitShards
<1>4. ASSUME NEW ok \in BOOLEAN, SendFields(ok) PROVE IdleInv'
  <2>1. main.step = "fields" /\ \A q \in Querys : shard[q] # "asking"
    BY <1>4, Zenon DEF SendFields, IdleInv
  <2>2. CASE Return("error")
    BY <2>1, <2>2, IdleReturn, Zenon
  <2>3. CASE main' = [main EXCEPT !.step = "rows"] /\ UNCHANGED <<shard, recycled>>
    <3>1. main'.step = "rows"
      BY <2>3, Zenon DEF MainType
    <3> QED
      BY <2>1, <2>3, <3>1, Zenon DEF IdleInv
  <2> QED
    BY <1>4, <2>2, <2>3, Zenon DEF SendFields
<1>5. ASSUME NEW ok \in BOOLEAN, WaitRows(ok) PROVE IdleInv'
  <2>1. \A q \in Querys : shard[q] # "asking"
    BY <1>5, Zenon DEF WaitRows, IdleInv
  <2> QED
    BY <1>5, <2>1, IdleReturn, Zenon DEF WaitRows
<1>6. ASSUME NEW q \in Querys, NEW res \in {"cursor", "failed"}, Asked(q, res) PROVE IdleInv'
  <2>1. shard[q] = "asking" /\ shard' = [shard EXCEPT ![q] = res] /\ UNCHANGED <<main, recycled>>
    BY <1>6, Zenon DEF Asked
  <2> QED
    BY <2>1, Zenon DEF IdleInv
<1>7. \/ \E ok \in BOOLEAN : Consume(ok) \/ ConsumeEnd(ok)
      \/ \E q \in Querys : (\E ok \in BOOLEAN : NextRow(q, ok)) \/ NoRow(q) \/ Push(q) \/ Stopped(q)
      \/ UNCHANGED streamVars
      => UNCHANGED <<main, shard, recycled>>
  BY Zenon DEF Consume, ConsumeEnd, NextRow, NoRow, Push, Stopped, streamVars
<1> QED
  BY <1>1, <1>2, <1>3, <1>4, <1>5, <1>6, <1>7, Zenon DEF StreamNext, FetchConnectionFails

\* While every backend gives a connection, the connections go back with no query
\* running on them and no rows to be read (the cursors' Close, Finish).
THEOREM RecycledIsIdle == ASSUME ~FetchFails PROVE StreamSpec => []RecycledIdle
<1>1. StreamInit => MainType /\ IdleInv
  BY DEF StreamInit, MainType, IdleInv
<1>2. IdleInv => RecycledIdle
  BY Zenon DEF IdleInv, RecycledIdle
<1>3. MainType /\ IdleInv /\ [StreamNext]_streamVars => MainType' /\ IdleInv'
  BY MainNext, IdleNext, Zenon
<1> QED
  BY <1>1, <1>2, <1>3, PTL DEF StreamSpec

-----------------------------------------------------------------------------
(* The pool of connections.                                                *)

UserPcs == {"out", "acquire", "lock", "check", "hold", "nil"}

\* An open pool has a connection in the channel for every free slot and every
\* user that is about to take one.
SlotsMatch ==
  ~nilled => conns = slots + InHand({"lock"}) /\ conns + InHand({"check", "hold"}) <= Cap

SPoolInv == ShiftPoolTypeOK /\ SlotsMatch

\* How many users are at some place, before and after one of them moves.
LEMMA UserMoves ==
  ASSUME ShiftPoolTypeOK, NEW p, NEW a, NEW b, NEW u \in Users, UserMove(u, a, b)
  PROVE  /\ InHand(p) \in Nat /\ InHand(p)' \in Nat
         /\ (a \in p <=> b \in p) => InHand(p)' = InHand(p)
         /\ a \notin p /\ b \in p => InHand(p)' = InHand(p) + 1
         /\ a \in p /\ b \notin p => InHand(p)' = InHand(p) - 1
<1> DEFINE H == {v \in Users : upc[v] \in p}
<1>1. IsFiniteSet(H) /\ IsFiniteSet(H')
  BY ShiftPoolAssumption, FS_Subset, Zenon
<1>2. InHand(p) = Cardinality(H) /\ InHand(p)' = Cardinality(H')
  BY Zenon DEF InHand
<1>3. InHand(p) \in Nat /\ InHand(p)' \in Nat
  BY <1>1, <1>2, FS_CardinalityType, Zenon
<1>4. upc[u] = a /\ \A v \in Users : upc'[v] = IF v = u THEN b ELSE upc[v]
  BY Zenon DEF ShiftPoolTypeOK, UserMove, UserAt
<1>5. ASSUME a \in p <=> b \in p PROVE InHand(p)' = InHand(p)
  <2>1. H' = H
    BY <1>4, <1>5, Zenon
  <2>2. QED
    BY <1>2, <2>1, Zenon
<1>6. ASSUME a \notin p, b \in p PROVE InHand(p)' = InHand(p) + 1
  <2>1. H' = H \cup {u} /\ u \notin H
    BY <1>4, <1>6, Zenon
  <2>2. QED
    BY <1>1, <1>2, <2>1, FS_AddElement, Zenon
<1>7. ASSUME a \in p, b \notin p PROVE InHand(p)' = InHand(p) - 1
  <2>1. H' = H \ {u} /\ u \in H
    BY <1>4, <1>7, Zenon
  <2>2. QED
    BY <1>1, <1>2, <2>1, FS_RemoveElement, Zenon
<1>8. QED
  BY <1>3, <1>5, <1>6, <1>7, Zenon

\* What each step does to the two counts that the capacity depends on.
LEMMA UserCounts ==
  ASSUME ShiftPoolTypeOK, NEW u \in Users
  PROVE  LET l == InHand({"lock"})  h == InHand({"check", "hold"}) IN
         /\ l \in Nat /\ h \in Nat /\ h' \in Nat
         /\ PoolGet(u) \/ PutNil(u) \/ Usable(u) => l' = l /\ h' = h
         /\ PoolAcquire(u) => l' = l + 1 /\ h' = h
         /\ PoolTake(u) /\ ~nilled => l' = l - 1 /\ h' = h + 1
         /\ ReconnectFails(u) \/ Put(u) => l' = l /\ h' = h - 1
<1> DEFINE l == InHand({"lock"})
           h == InHand({"check", "hold"})
<1>1. l \in Nat /\ h \in Nat /\ h' \in Nat
  BY ShiftPoolAssumption, FS_Subset, FS_CardinalityType, Zenon DEF InHand
<1>2. ASSUME PoolGet(u) PROVE l' = l /\ h' = h
  <2>1. UserMove(u, "out", "acquire")
    BY <1>2, Zenon DEF PoolGet
  <2>2. InHand({"lock"})' = InHand({"lock"})
    BY <2>1, UserMoves
  <2>3. InHand({"check", "hold"})' = InHand({"check", "hold"})
    BY <2>1, UserMoves
  <2>4. QED
    BY <2>2, <2>3, Zenon
<1>3. ASSUME PutNil(u) PROVE l' = l /\ h' = h
  <2>1. UserMove(u, "nil", "out")
    BY <1>3, Zenon DEF PutNil
  <2>2. InHand({"lock"})' = InHand({"lock"})
    BY <2>1, UserMoves
  <2>3. InHand({"check", "hold"})' = InHand({"check", "hold"})
    BY <2>1, UserMoves
  <2>4. QED
    BY <2>2, <2>3, Zenon
<1>4. ASSUME Usable(u) PROVE l' = l /\ h' = h
  <2>1. UserMove(u, "check", "hold")
    BY <1>4, Zenon DEF Usable
  <2>2. InHand({"lock"})' = InHand({"lock"})
    BY <2>1, UserMoves
  <2>3. InHand({"check", "hold"})' = InHand({"check", "hold"})
    BY <2>1, UserMoves, Zenon
  <2>4. QED
    BY <2>2, <2>3, Zenon
<1>5. ASSUME PoolAcquire(u) PROVE l' = l + 1 /\ h' = h
  <2>1. UserMove(u, "acquire", "lock")
    BY <1>5, Zenon DEF PoolAcquire
  <2>2. InHand({"lock"})' = InHand({"lock"}) + 1
    BY <2>1, UserMoves
  <2>3. InHand({"check", "hold"})' = InHand({"check", "hold"})
    BY <2>1, UserMoves
  <2>4. QED
    BY <2>2, <2>3, Zenon
<1>6. ASSUME PoolTake(u), ~nilled PROVE l' = l - 1 /\ h' = h + 1
  <2>1. UserMove(u, "lock", "check")
    BY <1>6, Zenon DEF PoolTake
  <2>2. InHand({"lock"})' = InHand({"lock"}) - 1
    BY <2>1, UserMoves
  <2>3. InHand({"check", "hold"})' = InHand({"check", "hold"}) + 1
    <3>1. "lock" \notin {"check", "hold"} /\ "check" \in {"check", "hold"}
      BY Zenon
    <3>2. QED
      BY <2>1, <3>1, UserMoves, Zenon
  <2>4. QED
    BY <2>2, <2>3, Zenon
<1>7. ASSUME ReconnectFails(u) PROVE l' = l /\ h' = h - 1
  <2>1. UserMove(u, "check", "nil")
    BY <1>7, Zenon DEF ReconnectFails
  <2>2. InHand({"lock"})' = InHand({"lock"})
    BY <2>1, UserMoves
  <2>3. InHand({"check", "hold"})' = InHand({"check", "hold"}) - 1
    BY <2>1, UserMoves
  <2>4. QED
    BY <2>2, <2>3, Zenon
<1>8. ASSUME Put(u) PROVE l' = l /\ h' = h - 1
  <2>1. UserMove(u, "hold", "out")
    BY <1>8, Zenon DEF Put
  <2>2. InHand({"lock"})' = InHand({"lock"})
    BY <2>1, UserMoves
  <2>3. InHand({"check", "hold"})' = InHand({"check", "hold"}) - 1
    BY <2>1, UserMoves
  <2>4. QED
    BY <2>2, <2>3, Zenon
<1>9. QED
  BY <1>1, <1>2, <1>3, <1>4, <1>5, <1>6, <1>7, <1>8, Zenon

\* The places of the users and the flag keep their types.
LEMMA UserTypes ==
  ASSUME ShiftPoolTypeOK, SPoolNext
  PROVE  upc' \in [Users -> UserPcs] /\ nilled' \in BOOLEAN
<1>1. upc \in [Users -> UserPcs] /\ nilled \in BOOLEAN
  BY Zenon DEF ShiftPoolTypeOK, UserPcs
<1>2. \A x \in UserPcs, v \in Users : [upc EXCEPT ![v] = x] \in [Users -> UserPcs]
  BY <1>1, Zenon
<1>3. {"out", "acquire", "lock", "check", "hold", "nil"} \subseteq UserPcs
  BY Zenon DEF UserPcs
<1>4. ASSUME NEW u \in Users, NEW a, NEW b \in UserPcs, UserMove(u, a, b)
      PROVE  upc' \in [Users -> UserPcs]
  BY <1>2, <1>4, Zenon DEF UserMove
<1>5. ASSUME NEW u \in Users,
             PoolGet(u) \/ PoolAcquire(u) \/ PoolTake(u) \/ Usable(u)
             \/ ReconnectFails(u) \/ Put(u) \/ PutNil(u)
      PROVE  upc' \in [Users -> UserPcs] /\ nilled' = nilled
  BY <1>3, <1>4, <1>5, Zenon DEF PoolGet, PoolAcquire, PoolTake, Usable, ReconnectFails, Put,
     PutNil
<1>6. ASSUME PoolClose PROVE upc' = upc /\ nilled' = TRUE
  BY <1>6, Zenon DEF PoolClose
<1>7. QED
  BY <1>1, <1>5, <1>6, Zenon DEF SPoolNext

\* The counters of the pool, taken together.
PoolCounts ==
  /\ conns \in 0..Cap /\ slots \in 0..Cap /\ gets \in 0..MaxGets
  /\ spoolFaults \in 0..MaxSPoolFaults

\* Every step of the pool keeps a connection for each slot and each user about
\* to take one.
LEMMA SPoolStepInv ==
  ASSUME SPoolInv, SPoolNext
  PROVE  SPoolInv'
<1> DEFINE l == InHand({"lock"})
           h == InHand({"check", "hold"})
<1>1. /\ PoolCounts /\ Cap \in Nat /\ MaxGets \in Nat /\ MaxSPoolFaults \in Nat
      /\ ShiftPoolTypeOK
  BY ShiftPoolAssumption, Zenon DEF SPoolInv, ShiftPoolTypeOK, PoolCounts
<1>2. ~nilled => conns = slots + l /\ conns + h <= Cap
  BY Zenon DEF SPoolInv, SlotsMatch
<1>3. PoolCounts' /\ SlotsMatch'
  <2>1. ASSUME NEW u \in Users, PoolGet(u) PROVE PoolCounts' /\ SlotsMatch'
    <3>1. /\ l' = l /\ h' = h /\ conns' = conns /\ slots' = slots /\ nilled' = nilled
          /\ gets' = gets + 1 /\ gets < MaxGets /\ spoolFaults' = spoolFaults
      BY <1>1, <2>1, UserCounts, Zenon DEF PoolGet
    <3>2. l \in Nat /\ h \in Nat /\ h' \in Nat
      BY <1>1, UserCounts, Zenon
    <3>3. QED
      BY <1>1, <1>2, <2>1, <3>1, <3>2 DEF PoolCounts, SlotsMatch
  <2>2. ASSUME NEW u \in Users, PoolAcquire(u) PROVE PoolCounts' /\ SlotsMatch'
    <3>1. /\ l' = l + 1 /\ h' = h /\ conns' = conns /\ slots' = slots - 1 /\ slots > 0 /\ nilled' = nilled
          /\ gets' = gets /\ spoolFaults' = spoolFaults
      BY <1>1, <2>2, UserCounts, Zenon DEF PoolAcquire
    <3>2. l \in Nat /\ h \in Nat /\ h' \in Nat
      BY <1>1, UserCounts, Zenon
    <3>3. QED
      BY <1>1, <1>2, <2>2, <3>1, <3>2 DEF PoolCounts, SlotsMatch
  <2>3. ASSUME NEW u \in Users, PoolTake(u), ~nilled PROVE PoolCounts' /\ SlotsMatch'
    <3>1. /\ l' = l - 1 /\ h' = h + 1 /\ conns' = conns - 1 /\ conns > 0 /\ slots' = slots
          /\ gets' = gets /\ spoolFaults' = spoolFaults
      BY <1>1, <2>3, UserCounts, Zenon DEF PoolTake
    <3>2. l \in Nat /\ h \in Nat /\ h' \in Nat
      BY <1>1, UserCounts, Zenon
    <3>3. QED
      BY <1>1, <1>2, <2>3, <3>1, <3>2 DEF PoolCounts, SlotsMatch
  <2>4. ASSUME NEW u \in Users, PoolTake(u), nilled PROVE PoolCounts' /\ SlotsMatch'
    <3>1. /\ conns' = conns /\ slots' = slots /\ nilled'
          /\ gets' = gets /\ spoolFaults' = spoolFaults
      BY <1>1, <2>4, UserCounts, Zenon DEF PoolTake
    <3>2. l \in Nat /\ h \in Nat /\ h' \in Nat
      BY <1>1, UserCounts, Zenon
    <3>3. QED
      BY <1>1, <1>2, <2>4, <3>1, <3>2, Zenon DEF PoolCounts, SlotsMatch
  <2>5. ASSUME NEW u \in Users, Usable(u) PROVE PoolCounts' /\ SlotsMatch'
    <3>1. /\ l' = l /\ h' = h /\ conns' = conns /\ slots' = slots /\ nilled' = nilled
          /\ gets' = gets /\ spoolFaults' = spoolFaults
      BY <1>1, <2>5, UserCounts, Zenon DEF Usable
    <3>2. l \in Nat /\ h \in Nat /\ h' \in Nat
      BY <1>1, UserCounts, Zenon
    <3>3. QED
      BY <1>1, <1>2, <2>5, <3>1, <3>2, Zenon DEF PoolCounts, SlotsMatch
  <2>6. ASSUME NEW u \in Users, ReconnectFails(u) PROVE PoolCounts' /\ SlotsMatch'
    <3>1. /\ l' = l /\ h' = h - 1 /\ conns' = conns /\ slots' = slots /\ nilled' = nilled
          /\ gets' = gets /\ spoolFaults' = spoolFaults + 1 /\ spoolFaults < MaxSPoolFaults
      BY <1>1, <2>6, UserCounts, Zenon DEF ReconnectFails
    <3>2. l \in Nat /\ h \in Nat /\ h' \in Nat
      BY <1>1, UserCounts, Zenon
    <3>3. QED
      BY <1>1, <1>2, <2>6, <3>1, <3>2 DEF PoolCounts, SlotsMatch
  <2>7. ASSUME NEW u \in Users, Put(u), ~nilled PROVE PoolCounts' /\ SlotsMatch'
    <3>1. /\ l' = l /\ h' = h - 1 /\ conns' = conns + 1 /\ slots' = slots + 1
          /\ gets' = gets /\ spoolFaults' = spoolFaults
      BY <1>1, <2>7, UserCounts, Zenon DEF Put
    <3>2. l \in Nat /\ h \in Nat /\ h' \in Nat
      BY <1>1, UserCounts, Zenon
    <3>3. QED
      BY <1>1, <1>2, <2>7, <3>1, <3>2 DEF PoolCounts, SlotsMatch
  <2>8. ASSUME NEW u \in Users, Put(u), nilled PROVE PoolCounts' /\ SlotsMatch'
    <3>1. /\ conns' = conns /\ slots' = slots /\ nilled'
          /\ gets' = gets /\ spoolFaults' = spoolFaults
      BY <1>1, <2>8, UserCounts, Zenon DEF Put
    <3>2. l \in Nat /\ h \in Nat /\ h' \in Nat
      BY <1>1, UserCounts, Zenon
    <3>3. QED
      BY <1>1, <1>2, <2>8, <3>1, <3>2, Zenon DEF PoolCounts, SlotsMatch
  <2>9. ASSUME NEW u \in Users, PutNil(u) PROVE PoolCounts' /\ SlotsMatch'
    <3>1. /\ l' = l /\ h' = h /\ conns' = conns /\ slots' = slots /\ nilled' = nilled
          /\ gets' = gets /\ spoolFaults' = spoolFaults
      BY <1>1, <2>9, UserCounts, Zenon DEF PutNil
    <3>2. l \in Nat /\ h \in Nat /\ h' \in Nat
      BY <1>1, UserCounts, Zenon
    <3>3. QED
      BY <1>1, <1>2, <2>9, <3>1, <3>2, Zenon DEF PoolCounts, SlotsMatch
  <2>10. ASSUME PoolClose PROVE PoolCounts' /\ SlotsMatch'
    BY <1>1, <2>10 DEF PoolClose, PoolCounts, SlotsMatch
  <2>11. QED
    BY <2>1, <2>2, <2>3, <2>4, <2>5, <2>6, <2>7, <2>8, <2>9, <2>10, Zenon DEF SPoolNext
<1>4. QED
  BY <1>1, <1>3, UserTypes, Zenon DEF SPoolInv, ShiftPoolTypeOK, PoolCounts, UserPcs

\* The pool of a shift never blocks under its mutex.
THEOREM PoolNeverBlocks ==
  SPoolSpec => [](ShiftPoolTypeOK /\ NeverStuck /\ PutNeverBlocks)
<1>1. SPoolInit => SPoolInv
  <2>1. ASSUME SPoolInit PROVE InHand({"lock"}) = 0 /\ InHand({"check", "hold"}) = 0
    <3>1. \A u \in Users : upc[u] = "out"
      BY <2>1, Zenon DEF SPoolInit
    <3>2. {u \in Users : upc[u] \in {"lock"}} = {} /\ {u \in Users : upc[u] \in {"check", "hold"}} = {}
      BY <3>1, Zenon
    <3>3. QED
      BY <3>2, FS_EmptySet, Zenon DEF InHand
  <2>2. ASSUME SPoolInit PROVE PoolCounts /\ SlotsMatch
    <3>1. conns = Cap /\ slots = Cap /\ gets = 0 /\ spoolFaults = 0
      BY <2>2, Zenon DEF SPoolInit
    <3>2. QED
      BY <2>1, <2>2, <3>1, ShiftPoolAssumption DEF PoolCounts, SlotsMatch
  <2>3. ASSUME SPoolInit PROVE upc \in [Users -> UserPcs] /\ nilled \in BOOLEAN
    BY <2>3, Zenon DEF SPoolInit, UserPcs
  <2>4. QED
    BY <2>2, <2>3, Zenon DEF SPoolInv, ShiftPoolTypeOK, PoolCounts, UserPcs
<1>2. SPoolInv /\ [SPoolNext]_spoolVars => SPoolInv'
  <2>1. ASSUME SPoolInv, UNCHANGED spoolVars PROVE SPoolInv'
    BY <2>1, Zenon DEF SPoolInv, ShiftPoolTypeOK, SlotsMatch, InHand, spoolVars
  <2>2. QED
    BY <2>1, SPoolStepInv, Zenon
<1>3. SPoolInv => ShiftPoolTypeOK /\ NeverStuck /\ PutNeverBlocks
  <2>1. InHand({"lock"}) \in Nat
    BY ShiftPoolAssumption, FS_Subset, FS_CardinalityType, Zenon DEF InHand
  <2>2. SPoolInv => slots \in Nat /\ SlotsMatch /\ ShiftPoolTypeOK
    BY DEF SPoolInv, ShiftPoolTypeOK
  <2>3. QED
    BY <2>1, <2>2 DEF SlotsMatch, NeverStuck, PutNeverBlocks
<1>4. QED
  BY <1>1, <1>2, <1>3, PTL DEF SPoolSpec

-----------------------------------------------------------------------------
(* The throttle.                                                           *)

ClientPcs == {"idle", "lock", "wait", "run", "panic"}
LimitTypes == limit \in Nat /\ rate \in [limit : Nat, used : Nat]
AcquireTypes == thMu \in Clients \cup {Admin} /\ cpc \in [Clients -> ClientPcs]
ThrottleCounts == behind \in 0..Width-1 /\ sets \in 0..MaxSets /\ acquires \in 0..MaxAcquires

ThrottleInv == LimitTypes /\ AcquireTypes /\ ThrottleCounts /\ WithinLimit /\ BehindIsThrottled

\* Integer division of the limit: at least one as long as the divisor fits.
LEMMA Quotient ==
  ASSUME NEW a \in Nat, NEW b \in Nat \ {0}
  PROVE  a \div b \in Nat /\ (b <= a => a \div b >= 1)
OBVIOUS

\* The wrapped distance of two positions is a position.
LEMMA DistanceInRange ==
  ASSUME NEW m \in Positions, NEW s \in Positions
  PROVE  Distance(m, s) \in 0..Width-1
<1>1. m \in 0..Width-1 /\ s \in 0..Width-1 /\ Width \in Nat \ {0}
  BY ThrottleAssumption, Zenon
<1>2. m + Width - s \in Nat
  BY <1>1
<1>3. QED
  BY <1>1, <1>2 DEF Distance

\* The limit a shift sets is positive while the shift is not too far behind.
LEMMA LimitPositive ==
  ASSUME NEW d \in Nat
  PROVE  Limits(d) \in Nat /\ (d < LimitsMax * (CfgBehinds + 1) => Limits(d) > 0)
<1> DEFINE a == LimitsMax * (CfgBehinds + 1)
<1>1. a \in Nat
  BY ThrottleAssumption
<1> DEFINE l == a \div (d + 1)
<1>2. l \in Nat /\ (d + 1 <= a => l >= 1)
  <2> HIDE DEF a
  <2>1. d + 1 \in Nat \ {0}
    OBVIOUS
  <2>2. QED
    BY <1>1, <2>1, Quotient, Zenon
<1>3. Limits(d) = IF l # 0 /\ l < LimitsMin THEN LimitsMin ELSE l
  BY Zenon DEF Limits
<1> HIDE DEF l, a
<1>4. LimitsMin \in Nat
  BY ThrottleAssumption, Zenon
<1>5. QED
  <2>1. Limits(d) \in Nat /\ (d < a => Limits(d) > 0)
    BY <1>1, <1>2, <1>3, <1>4
  <2>2. QED
    BY <2>1, Zenon DEF a
\* Set leaves the limiter at l, with no query granted.
LEMMA SetStep ==
  ASSUME ThrottleInv, NEW l \in Nat, Set(l), behind' \in 0..Width-1,
         behind' > 0 /\ behind' < LimitsMax * (CfgBehinds + 1) => l > 0
  PROVE  ThrottleInv'
<1>1. limit' = l /\ rate' = [limit |-> l, used |-> 0] /\ thMu' = thMu /\ cpc' = cpc
      /\ acquires' = acquires /\ sets' = sets + 1 /\ sets < MaxSets
  BY Zenon DEF Set
<1>2. LimitTypes' /\ WithinLimit'
  BY <1>1 DEF LimitTypes, WithinLimit
<1>3. AcquireTypes'
  BY <1>1, Zenon DEF ThrottleInv, AcquireTypes
<1>4. ThrottleCounts'
  BY <1>1, ThrottleAssumption DEF ThrottleInv, ThrottleCounts
<1>5. BehindIsThrottled'
  BY <1>1, Zenon DEF BehindIsThrottled
<1>6. QED
  BY <1>2, <1>3, <1>4, <1>5, Zenon DEF ThrottleInv

\* Every step of the throttle, of the shift that sets it and of the
\* administrator keeps the invariant.
LEMMA ThrottleStepInv ==
  ASSUME ThrottleInv, ThrottleNext
  PROVE  ThrottleInv'
<1>1. \A x \in ClientPcs, c \in Clients : [cpc EXCEPT ![c] = x] \in [Clients -> ClientPcs]
  BY Zenon DEF ThrottleInv, AcquireTypes
<1>2. {"idle", "lock", "wait", "run", "panic"} \subseteq ClientPcs
  BY Zenon DEF ClientPcs
<1>3. ASSUME NEW c \in Clients, Acquire(c) PROVE ThrottleInv'
  <2>1. limit' = limit /\ rate' = rate /\ thMu' = thMu /\ behind' = behind /\ sets' = sets
        /\ acquires < MaxAcquires /\ acquires' = acquires + 1
    BY <1>3, Zenon DEF Acquire
  <2>2. LimitTypes' /\ WithinLimit' /\ BehindIsThrottled'
    BY <2>1, Zenon DEF ThrottleInv, LimitTypes, WithinLimit, BehindIsThrottled
  <2>3. AcquireTypes'
    BY <1>1, <1>2, <1>3, <2>1, Zenon DEF ThrottleInv, AcquireTypes, Acquire
  <2>4. ThrottleCounts'
    BY <2>1, ThrottleAssumption DEF ThrottleInv, ThrottleCounts
  <2>5. QED
    BY <2>2, <2>3, <2>4, Zenon DEF ThrottleInv
<1>4. ASSUME NEW c \in Clients, Lock(c) \/ Release(c) PROVE ThrottleInv'
  <2>1. limit' = limit /\ rate' = rate /\ behind' = behind /\ sets' = sets
        /\ acquires' = acquires
    BY <1>4, Zenon DEF Lock, Release
  <2>2. AcquireTypes'
    BY <1>1, <1>2, <1>4, Zenon DEF ThrottleInv, AcquireTypes, Lock, Release
  <2>3. QED
    BY <2>1, <2>2, Zenon
       DEF ThrottleInv, LimitTypes, ThrottleCounts, WithinLimit, BehindIsThrottled
<1>5. ASSUME NEW c \in Clients, Wait(c) PROVE ThrottleInv'
  <2>1. limit' = limit /\ behind' = behind /\ sets' = sets /\ acquires' = acquires
    BY <1>5, Zenon DEF Wait
  <2>2. AcquireTypes'
    BY <1>1, <1>2, <1>5, Zenon DEF ThrottleInv, AcquireTypes, Wait
  <2>3. rate' = rate \/ (rate.used < rate.limit /\ rate' = [rate EXCEPT !.used = @ + 1])
    BY <1>5, Zenon DEF Wait
  <2>4. LimitTypes' /\ WithinLimit'
    BY <2>1, <2>3 DEF ThrottleInv, LimitTypes, WithinLimit
  <2>5. QED
    BY <2>1, <2>2, <2>4, Zenon DEF ThrottleInv, ThrottleCounts, BehindIsThrottled
<1>6. ASSUME Second PROVE ThrottleInv'
  <2>1. limit' = limit /\ behind' = behind /\ sets' = sets /\ acquires' = acquires
        /\ thMu' = thMu /\ cpc' = cpc
    BY <1>6, Zenon DEF Second
  <2>2. LimitTypes' /\ WithinLimit'
    BY <1>6, <2>1 DEF ThrottleInv, LimitTypes, WithinLimit, Second
  <2>3. QED
    BY <2>1, <2>2, Zenon DEF ThrottleInv, AcquireTypes, ThrottleCounts, BehindIsThrottled
<1>7. ASSUME NEW m \in Positions, NEW s \in Positions, NEW f \in BOOLEAN, ShiftThrottle(m, s, f)
      PROVE  ThrottleInv'
  <2>1. Set(Limits(Distance(m, s))) /\ behind' = Distance(m, s)
    BY <1>7, Zenon DEF ShiftThrottle
  <2>2. Distance(m, s) \in 0..Width-1 /\ Distance(m, s) \in Nat
    BY DistanceInRange, ThrottleAssumption
  <2>3. QED
    BY <2>1, <2>2, LimitPositive, SetStep, Zenon
<1>8. ASSUME NEW l \in Nat, Set(l), behind' = 0 PROVE ThrottleInv'
  <2>1. 0 \in 0..Width-1 /\ ~(0 > 0)
    BY ThrottleAssumption
  <2>2. QED
    BY <1>8, <2>1, SetStep, Zenon
<1>9. ASSUME ShiftUnlimit PROVE ThrottleInv'
  <2>1. 0 \in Nat
    BY Zenon
  <2>2. QED
    BY <1>8, <1>9, <2>1, Zenon DEF ShiftUnlimit
<1>10. ASSUME NEW l \in AdminLimits, AdminSet(l) PROVE ThrottleInv'
  BY <1>8, <1>10, ThrottleAssumption, Zenon DEF AdminSet
<1>11. QED
  BY <1>3, <1>4, <1>5, <1>6, <1>7, <1>9, <1>10, Zenon DEF ThrottleNext

\* The limiter keeps to its limit, and is on while a shift is behind.
THEOREM ThrottleHolds ==
  ThrottleSpec => [](ThrottleTypeOK /\ WithinLimit /\ BehindIsThrottled)
<1>1. ThrottleInit => ThrottleInv
  <2>1. ASSUME ThrottleInit PROVE LimitTypes /\ WithinLimit
    BY <2>1 DEF ThrottleInit, LimitTypes, WithinLimit
  <2>2. ASSUME ThrottleInit PROVE AcquireTypes
    BY <2>2, Zenon DEF ThrottleInit, AcquireTypes, ClientPcs
  <2>3. ASSUME ThrottleInit PROVE ThrottleCounts /\ BehindIsThrottled
    BY <2>3, ThrottleAssumption DEF ThrottleInit, ThrottleCounts, BehindIsThrottled
  <2>4. QED
    BY <2>1, <2>2, <2>3, Zenon DEF ThrottleInv
<1>2. ThrottleInv /\ [ThrottleNext]_throttleVars => ThrottleInv'
  <2>1. ASSUME ThrottleInv, UNCHANGED throttleVars PROVE ThrottleInv'
    BY <2>1, Zenon DEF ThrottleInv, LimitTypes, AcquireTypes, ThrottleCounts, WithinLimit,
                       BehindIsThrottled, throttleVars
  <2>2. QED
    BY <2>1, ThrottleStepInv, Zenon
<1>3. ThrottleInv => ThrottleTypeOK /\ WithinLimit /\ BehindIsThrottled
  BY Zenon DEF ThrottleInv, LimitTypes, AcquireTypes, ThrottleCounts, ThrottleTypeOK, ClientPcs
<1>4. QED
  BY <1>1, <1>2, <1>3, PTL DEF ThrottleSpec

-----------------------------------------------------------------------------
(* The manager.                                                            *)

HandlerPcs == {"idle", "start", "starting", "add", "wait", "waiting", "end"}
ShiftPhases == {"none", "copy", "ro", "switched", "done", "fail"}
Statuses == {"none", "success", "fail"}
CleanerPcs == {"idle", "status", "drop"}
LockPcs == {"starting", "add"}
WaitPcs == {"wait", "waiting"}

RegistryTypes ==
  /\ alived \in [Keys -> Handlers \cup {None}] /\ mu \in Handlers \cup {None}
  /\ hpc \in [Handlers -> HandlerPcs] /\ key \in [Handlers -> Keys \cup {None}]

\* Who holds the lock is starting a shift that is not registered, and who waits
\* for a shift has it registered.
Registry ==
  /\ \A h \in Handlers : hpc[h] # "idle" => key[h] \in Keys
  /\ \A h \in Handlers : hpc[h] \in LockPcs => mu = h /\ alived[key[h]] = None
  /\ mu # None => hpc[mu] \in LockPcs
  /\ \A h \in Handlers : hpc[h] \in WaitPcs => alived[key[h]] = h
  /\ \A k \in Alived : key[alived[k]] = k /\ hpc[alived[k]] \in WaitPcs

FewAlived == IsFiniteSet(Alived) /\ Cardinality(Alived) <= MaxAlived

\* The types of the rest; NEODB CLEANUP has a key from its first step on.
OtherMgrTypes ==
  /\ finished \in [Keys -> Statuses] /\ shift \in [Handlers -> ShiftPhases]
  /\ migrate \in [Keys -> Handlers \cup {None}] /\ readonly \in BOOLEAN
  /\ stopped \subseteq Handlers /\ robbed \subseteq Handlers
  /\ cleaner \in CleanerPcs \X (Keys \cup {None}) /\ mgrFaults \in 0..MaxMgrFaults
  /\ cleaner[1] # "idle" => cleaner[2] \in Keys

MgrInv == RegistryTypes /\ Registry /\ FewAlived /\ OtherMgrTypes

\* The places of a handler, apart by what they mean for the lock and the registry.
LEMMA MgrNames ==
  /\ \A x : x \in HandlerPcs <=> x = "idle" \/ x = "start" \/ x \in LockPcs \/ x \in WaitPcs \/ x = "end"
  /\ \A x : x \in LockPcs <=> x = "starting" \/ x = "add"
  /\ \A x : x \in WaitPcs <=> x = "wait" \/ x = "waiting"
  /\ "idle" \notin LockPcs \cup WaitPcs /\ "start" \notin LockPcs \cup WaitPcs
  /\ "end" \notin LockPcs \cup WaitPcs /\ LockPcs \cap WaitPcs = {}
  /\ "idle" \notin {"start", "starting", "add", "wait", "waiting", "end"}
BY Zenon DEF HandlerPcs, LockPcs, WaitPcs

\* A handler moves: the places of the others stay.
LEMMA HandlerMoves ==
  ASSUME RegistryTypes, NEW h \in Handlers, NEW a, NEW b \in HandlerPcs, HandlerGoto(h, a, b)
  PROVE  /\ hpc[h] = a /\ hpc' \in [Handlers -> HandlerPcs]
         /\ \A g \in Handlers : hpc'[g] = IF g = h THEN b ELSE hpc[g]
BY Zenon DEF RegistryTypes, HandlerGoto

\* A handler keeps the registry; the alived instances change one at a time.
LEMMA RegistryStep ==
  ASSUME RegistryTypes, Registry, NEW h \in Handlers,
         Handle(h) \/ \E k \in Keys : Request(h, k)
  PROVE  RegistryTypes' /\ Registry'
<1>0. None \notin Handlers /\ None \notin Keys
  BY ManagerAssumption, Zenon
<1>1. ASSUME NEW k \in Keys, Request(h, k) PROVE RegistryTypes' /\ Registry'
  <2>1. HandlerGoto(h, "idle", "start")
    BY <1>1, Zenon DEF Request
  <2>2. alived' = alived /\ mu' = mu /\ key' = [key EXCEPT ![h] = k]
    BY <1>1, Zenon DEF Request, mgr
  <2>3. "start" \in HandlerPcs
    BY Zenon DEF HandlerPcs
  <2>4. /\ hpc[h] = "idle" /\ hpc' \in [Handlers -> HandlerPcs]
        /\ \A g \in Handlers : hpc'[g] = IF g = h THEN "start" ELSE hpc[g]
    BY <2>1, <2>3, HandlerMoves, Zenon
  <2>5. RegistryTypes'
    BY <2>2, <2>4, Zenon DEF RegistryTypes
  <2>6. \A g \in Handlers : key'[g] = IF g = h THEN k ELSE key[g]
    BY <2>2, Zenon DEF RegistryTypes
  <2>7. Registry'
    BY <1>0, <1>1, <2>2, <2>4, <2>6, MgrNames DEF RegistryTypes, Registry, Alived
  <2>8. QED
    BY <2>5, <2>7, Zenon
<1>2. ASSUME StartShiftInstance(h), alived[key[h]] # None PROVE RegistryTypes' /\ Registry'
  <2>1. HandlerGoto(h, "start", "end")
    BY <1>2, Zenon DEF StartShiftInstance
  <2>2. alived' = alived /\ mu' = mu /\ key' = key
    BY <1>2, Zenon DEF StartShiftInstance
  <2>3. "end" \in HandlerPcs
    BY Zenon DEF HandlerPcs
  <2>4. /\ hpc[h] = "start" /\ hpc' \in [Handlers -> HandlerPcs]
        /\ \A g \in Handlers : hpc'[g] = IF g = h THEN "end" ELSE hpc[g]
    BY <2>1, <2>3, HandlerMoves, Zenon
  <2>5. RegistryTypes'
    BY <2>2, <2>4, Zenon DEF RegistryTypes
  <2>6. Registry'
    BY <1>0, <1>2, <2>2, <2>4, MgrNames DEF RegistryTypes, Registry, Alived
  <2>7. QED
    BY <2>5, <2>6, Zenon
<1>3. ASSUME StartShiftInstance(h), alived[key[h]] = None PROVE RegistryTypes' /\ Registry'
  <2>1. HandlerGoto(h, "start", "starting")
    BY <1>3, Zenon DEF StartShiftInstance
  <2>2. alived' = alived /\ mu = None /\ mu' = h /\ key' = key
    BY <1>3, Zenon DEF StartShiftInstance
  <2>3. "starting" \in HandlerPcs
    BY Zenon DEF HandlerPcs
  <2>4. /\ hpc[h] = "start" /\ hpc' \in [Handlers -> HandlerPcs]
        /\ \A g \in Handlers : hpc'[g] = IF g = h THEN "starting" ELSE hpc[g]
    BY <2>1, <2>3, HandlerMoves, Zenon
  <2>5. RegistryTypes'
    BY <2>2, <2>4, Zenon DEF RegistryTypes
  <2>6. Registry'
    BY <1>0, <1>3, <2>2, <2>4, MgrNames DEF RegistryTypes, Registry, Alived
  <2>7. QED
    BY <2>5, <2>6, Zenon
<1>4. ASSUME Started(h) PROVE RegistryTypes' /\ Registry'
  <2>1. HandlerGoto(h, "starting", "add")
    BY <1>4, Zenon DEF Started
  <2>2. alived' = alived /\ mu' = mu /\ key' = key
    BY <1>4, Zenon DEF Started, mgr
  <2>3. "add" \in HandlerPcs
    BY Zenon DEF HandlerPcs
  <2>4. /\ hpc[h] = "starting" /\ hpc' \in [Handlers -> HandlerPcs]
        /\ \A g \in Handlers : hpc'[g] = IF g = h THEN "add" ELSE hpc[g]
    BY <2>1, <2>3, HandlerMoves, Zenon
  <2>5. RegistryTypes'
    BY <2>2, <2>4, Zenon DEF RegistryTypes
  <2>6. Registry'
    BY <1>0, <1>4, <2>2, <2>4, MgrNames DEF RegistryTypes, Registry, Alived
  <2>7. QED
    BY <2>5, <2>6, Zenon
<1>5. ASSUME StartInstanceFails(h) PROVE RegistryTypes' /\ Registry'
  <2>1. HandlerGoto(h, "starting", "end")
    BY <1>5, Zenon DEF StartInstanceFails
  <2>2. alived' = alived /\ mu' = None /\ key' = key
    BY <1>5, Zenon DEF StartInstanceFails
  <2>3. "end" \in HandlerPcs
    BY Zenon DEF HandlerPcs
  <2>4. /\ hpc[h] = "starting" /\ hpc' \in [Handlers -> HandlerPcs]
        /\ \A g \in Handlers : hpc'[g] = IF g = h THEN "end" ELSE hpc[g]
    BY <2>1, <2>3, HandlerMoves, Zenon
  <2>5. RegistryTypes'
    BY <2>2, <2>4, Zenon DEF RegistryTypes
  <2>6. Registry'
    BY <1>0, <1>5, <2>2, <2>4, MgrNames DEF RegistryTypes, Registry, Alived
  <2>7. QED
    BY <2>5, <2>6, Zenon
<1>6. ASSUME AddAnAlivedInstance(h), Cardinality(Alived) < MaxAlived PROVE RegistryTypes' /\ Registry'
  <2>1. HandlerGoto(h, "add", "wait")
    BY <1>6, Zenon DEF AddAnAlivedInstance
  <2>2. alived' = [alived EXCEPT ![key[h]] = h] /\ mu' = None /\ key' = key
    BY <1>6, Zenon DEF AddAnAlivedInstance
  <2>3. "wait" \in HandlerPcs
    BY Zenon DEF HandlerPcs
  <2>4. /\ hpc[h] = "add" /\ hpc' \in [Handlers -> HandlerPcs]
        /\ \A g \in Handlers : hpc'[g] = IF g = h THEN "wait" ELSE hpc[g]
    BY <2>1, <2>3, HandlerMoves, Zenon
  <2>5. RegistryTypes'
    BY <2>2, <2>4, Zenon DEF RegistryTypes
  <2>6. key[h] \in Keys /\ \A k \in Keys : alived'[k] = IF k = key[h] THEN h ELSE alived[k]
    <3>1. "add" # "idle"
      BY Zenon
    <3>2. key[h] \in Keys
      BY <2>4, <3>1, Zenon DEF Registry
    <3>3. QED
      BY <2>2, <3>2, Zenon DEF RegistryTypes
  <2>7. Registry'
    BY <1>0, <1>6, <2>2, <2>4, <2>6, MgrNames DEF RegistryTypes, Registry, Alived
  <2>8. QED
    BY <2>5, <2>7, Zenon
<1>7. ASSUME AddAnAlivedInstance(h), ~(Cardinality(Alived) < MaxAlived) PROVE RegistryTypes' /\ Registry'
  <2>1. HandlerGoto(h, "add", "end")
    BY <1>7, Zenon DEF AddAnAlivedInstance
  <2>2. alived' = alived /\ mu' = None /\ key' = key
    BY <1>7, Zenon DEF AddAnAlivedInstance
  <2>3. "end" \in HandlerPcs
    BY Zenon DEF HandlerPcs
  <2>4. /\ hpc[h] = "add" /\ hpc' \in [Handlers -> HandlerPcs]
        /\ \A g \in Handlers : hpc'[g] = IF g = h THEN "end" ELSE hpc[g]
    BY <2>1, <2>3, HandlerMoves, Zenon
  <2>5. RegistryTypes'
    BY <2>2, <2>4, Zenon DEF RegistryTypes
  <2>6. Registry'
    BY <1>0, <1>7, <2>2, <2>4, MgrNames DEF RegistryTypes, Registry, Alived
  <2>7. QED
    BY <2>5, <2>6, Zenon
<1>8. ASSUME WaitInstanceFinish(h) PROVE RegistryTypes' /\ Registry'
  <2>0. hpc[h] = "wait" /\ alived[key[h]] # None
    BY <1>0, <1>8, MgrNames, Zenon DEF Registry, WaitInstanceFinish
  <2>1. HandlerGoto(h, "wait", "waiting")
    BY <2>0, <1>8, Zenon DEF WaitInstanceFinish
  <2>2. alived' = alived /\ mu = None /\ mu' = None /\ key' = key
    BY <2>0, <1>8, Zenon DEF WaitInstanceFinish
  <2>3. "waiting" \in HandlerPcs
    BY Zenon DEF HandlerPcs
  <2>4. /\ hpc[h] = "wait" /\ hpc' \in [Handlers -> HandlerPcs]
        /\ \A g \in Handlers : hpc'[g] = IF g = h THEN "waiting" ELSE hpc[g]
    BY <2>1, <2>3, HandlerMoves, Zenon
  <2>5. RegistryTypes'
    BY <2>2, <2>4, Zenon DEF RegistryTypes
  <2>6. Registry'
    BY <1>0, <1>8, <2>2, <2>4, MgrNames DEF RegistryTypes, Registry, Alived
  <2>7. QED
    BY <2>5, <2>6, Zenon
<1>9. ASSUME UpdateFinishedInstance(h) PROVE RegistryTypes' /\ Registry'
  <2>1. HandlerGoto(h, "waiting", "end")
    BY <1>9, Zenon DEF UpdateFinishedInstance
  <2>2. alived' = [alived EXCEPT ![key[h]] = None] /\ mu' = mu /\ key' = key
    BY <1>9, Zenon DEF UpdateFinishedInstance
  <2>3. "end" \in HandlerPcs
    BY Zenon DEF HandlerPcs
  <2>4. /\ hpc[h] = "waiting" /\ hpc' \in [Handlers -> HandlerPcs]
        /\ \A g \in Handlers : hpc'[g] = IF g = h THEN "end" ELSE hpc[g]
    BY <2>1, <2>3, HandlerMoves, Zenon
  <2>5. RegistryTypes'
    BY <2>2, <2>4, Zenon DEF RegistryTypes
  <2>6. key[h] \in Keys /\ \A k \in Keys : alived'[k] = IF k = key[h] THEN None ELSE alived[k]
    <3>1. "waiting" # "idle"
      BY Zenon
    <3>2. key[h] \in Keys
      BY <2>4, <3>1, Zenon DEF Registry
    <3>3. QED
      BY <2>2, <3>2, Zenon DEF RegistryTypes
  <2>7. Registry'
    BY <1>0, <1>9, <2>2, <2>4, <2>6, MgrNames DEF RegistryTypes, Registry, Alived
  <2>8. QED
    BY <2>5, <2>7, Zenon
<1>10. QED
  BY <1>1, <1>2, <1>3, <1>4, <1>5, <1>6, <1>7, <1>8, <1>9, Zenon DEF Handle
\* The registry grows below the limit only.
LEMMA FewStep ==
  ASSUME RegistryTypes, Registry, FewAlived, NEW h \in Handlers, Handle(h)
  PROVE  FewAlived'
<1>1. ASSUME alived' = alived PROVE FewAlived'
  BY <1>1, Zenon DEF FewAlived, Alived
<1>2. ASSUME AddAnAlivedInstance(h), Cardinality(Alived) < MaxAlived PROVE FewAlived'
  <2>1. alived' = [alived EXCEPT ![key[h]] = h] /\ hpc[h] = "add"
    BY <1>2, Zenon DEF AddAnAlivedInstance, HandlerGoto
  <2>2. "add" # "idle" /\ "add" \in LockPcs
    BY Zenon DEF LockPcs
  <2>3. key[h] \in Keys /\ alived[key[h]] = None /\ h # None
    BY <2>1, <2>2, ManagerAssumption, Zenon DEF Registry
  <2>4. Alived' = Alived \cup {key[h]} /\ key[h] \notin Alived
    BY <2>1, <2>3, Zenon DEF Alived, RegistryTypes
  <2>5. /\ IsFiniteSet(Alived \cup {key[h]})
        /\ Cardinality(Alived \cup {key[h]}) = Cardinality(Alived) + 1
    BY <2>4, FS_AddElement, Zenon DEF FewAlived
  <2>6. Cardinality(Alived) \in Nat
    BY FS_CardinalityType, Zenon DEF FewAlived
  <2>7. Cardinality(Alived) + 1 <= MaxAlived
    BY <1>2, <2>6, ManagerAssumption
  <2>8. QED
    BY <2>4, <2>5, <2>7, Zenon DEF FewAlived
<1>3. ASSUME UpdateFinishedInstance(h) PROVE FewAlived'
  <2>1. alived' = [alived EXCEPT ![key[h]] = None]
    BY <1>3, Zenon DEF UpdateFinishedInstance
  <2>2. Alived' \subseteq Alived
    BY <2>1, Zenon DEF Alived, RegistryTypes
  <2>3. /\ IsFiniteSet(Alived') /\ Cardinality(Alived') <= Cardinality(Alived)
        /\ Cardinality(Alived') \in Nat /\ Cardinality(Alived) \in Nat
    BY <2>2, FS_Subset, FS_CardinalityType, Zenon DEF FewAlived
  <2>4. QED
    BY <2>3, ManagerAssumption DEF FewAlived
<1>4. Handle(h) => alived' = alived \/ UpdateFinishedInstance(h)
                   \/ (AddAnAlivedInstance(h) /\ Cardinality(Alived) < MaxAlived)
  BY Zenon DEF Handle, StartShiftInstance, Started, StartInstanceFails, AddAnAlivedInstance,
               WaitInstanceFinish, mgr
<1>5. QED
  BY <1>1, <1>2, <1>3, <1>4, Zenon

\* The other variables keep their types.
LEMMA OtherStep ==
  ASSUME RegistryTypes, OtherMgrTypes, MgrNext
  PROVE  OtherMgrTypes'
<1>1. /\ \A h \in Handlers, x \in ShiftPhases : [shift EXCEPT ![h] = x] \in [Handlers -> ShiftPhases]
      /\ \A k : \A x \in Handlers \cup {None} :
           [migrate EXCEPT ![k] = x] \in [Keys -> Handlers \cup {None}]
      /\ \A k : \A x \in Statuses : [finished EXCEPT ![k] = x] \in [Keys -> Statuses]
  <2>1. /\ shift \in [Handlers -> ShiftPhases] /\ finished \in [Keys -> Statuses]
        /\ migrate \in [Keys -> Handlers \cup {None}]
    BY Zenon DEF OtherMgrTypes
  <2>2. QED
    BY <2>1, Zenon
<1>2. {"none", "copy", "ro", "switched", "done", "fail"} \subseteq ShiftPhases
      /\ {"none", "success", "fail"} \subseteq Statuses
  BY Zenon DEF ShiftPhases, Statuses
<1>3. ASSUME NEW h \in Handlers, MgrFault PROVE mgrFaults' \in 0..MaxMgrFaults
  BY <1>3, ManagerAssumption DEF OtherMgrTypes, MgrFault
<1>4. ASSUME NEW h \in Handlers, StartShiftInstance(h) PROVE OtherMgrTypes'
  BY <1>1, <1>2, <1>3, <1>4, Zenon DEF OtherMgrTypes, StartShiftInstance
<1>5. ASSUME NEW h \in Handlers, Started(h) PROVE OtherMgrTypes'
  BY <1>1, <1>2, <1>3, <1>5, Zenon DEF OtherMgrTypes, Started, ShiftTo, mgr
<1>6. ASSUME NEW h \in Handlers, StartInstanceFails(h) PROVE OtherMgrTypes'
  BY <1>1, <1>2, <1>3, <1>6, Zenon DEF OtherMgrTypes, StartInstanceFails
<1>7. ASSUME NEW h \in Handlers, AddAnAlivedInstance(h) PROVE OtherMgrTypes'
  BY <1>1, <1>2, <1>3, <1>7, Zenon DEF OtherMgrTypes, AddAnAlivedInstance
<1>8. ASSUME NEW h \in Handlers, WaitInstanceFinish(h) PROVE OtherMgrTypes'
  BY <1>1, <1>2, <1>3, <1>8, Zenon DEF OtherMgrTypes, WaitInstanceFinish
<1>9. ASSUME NEW h \in Handlers, UpdateFinishedInstance(h) PROVE OtherMgrTypes'
  BY <1>1, <1>2, <1>3, <1>9, Zenon DEF OtherMgrTypes, UpdateFinishedInstance
<1>10. ASSUME NEW h \in Handlers, CutOver(h) PROVE OtherMgrTypes'
  BY <1>1, <1>2, <1>3, <1>10, Zenon DEF OtherMgrTypes, CutOver, ShiftTo, mgr
<1>11. ASSUME NEW h \in Handlers, Switch(h) PROVE OtherMgrTypes'
  BY <1>1, <1>2, <1>3, <1>11, Zenon DEF OtherMgrTypes, Switch, ShiftTo, mgr
<1>12. ASSUME NEW h \in Handlers, ShiftCloses(h) PROVE OtherMgrTypes'
  BY <1>1, <1>2, <1>3, <1>12, Zenon DEF OtherMgrTypes, ShiftCloses, ShiftTo, mgr
<1>13. ASSUME NEW h \in Handlers, ShiftFails(h) PROVE OtherMgrTypes'
  BY <1>1, <1>2, <1>3, <1>13, Zenon DEF OtherMgrTypes, ShiftFails, mgr
<1>14. ASSUME NEW h \in Handlers, NEW x \in Keys, Request(h, x) PROVE OtherMgrTypes'
  BY <1>14, Zenon DEF OtherMgrTypes, Request, mgr
<1>15. ASSUME NEW x \in Keys, CleanupFinds(x) PROVE OtherMgrTypes'
  <2>1. <<"status", x>> \in CleanerPcs \X (Keys \cup {None}) /\ <<"status", x>>[2] = x
    BY Zenon DEF CleanerPcs
  <2>2. QED
    BY <1>15, <2>1, Zenon DEF OtherMgrTypes, CleanupFinds, mgr
<1>16. cleaner[2] \in Keys \cup {None} /\ <<"idle", None>> \in CleanerPcs \X (Keys \cup {None})
      /\ <<"drop", cleaner[2]>> \in CleanerPcs \X (Keys \cup {None})
  BY Zenon DEF OtherMgrTypes, CleanerPcs
<1>17. ASSUME CleanupGetStatus PROVE OtherMgrTypes'
  <2>1. <<"idle", None>>[1] = "idle" /\ <<"drop", cleaner[2]>>[2] = cleaner[2] /\ "status" # "idle"
    BY Zenon
  <2>2. cleaner' \in CleanerPcs \X (Keys \cup {None}) /\ (cleaner'[1] # "idle" => cleaner'[2] \in Keys)
    BY <1>16, <1>17, <2>1, Zenon DEF OtherMgrTypes, CleanupGetStatus
  <2>3. QED
    BY <1>17, <2>2, Zenon DEF OtherMgrTypes, CleanupGetStatus, mgr
<1>18. ASSUME CleanupDrops PROVE OtherMgrTypes'
  <2>1. cleaner[2] \in Keys /\ <<"idle", None>>[1] = "idle"
    BY <1>18, Zenon DEF OtherMgrTypes, CleanupDrops
  <2>2. robbed' \subseteq Handlers
    BY <1>18, <2>1, Zenon DEF OtherMgrTypes, CleanupDrops
  <2>3. QED
    BY <1>1, <1>16, <1>18, <2>1, <2>2, Zenon DEF OtherMgrTypes, CleanupDrops, mgr
<1>19. ASSUME StopAllInstance PROVE OtherMgrTypes'
  BY <1>19, <1>16, Zenon DEF OtherMgrTypes, RegistryTypes, Alived, StopAllInstance, mgr
<1>20. QED
  BY <1>4, <1>5, <1>6, <1>7, <1>8, <1>9, <1>10, <1>11, <1>12, <1>13, <1>14, <1>15, <1>17,
     <1>18, <1>19, Zenon DEF MgrNext, Handle, RunShift

\* The invariant of the manager is inductive.
LEMMA MgrStepInv ==
  ASSUME MgrInv, MgrNext
  PROVE  MgrInv'
<1>1. OtherMgrTypes'
  BY OtherStep, Zenon DEF MgrInv
<1>2. ASSUME UNCHANGED <<alived, mu, hpc, key>> PROVE RegistryTypes' /\ Registry' /\ FewAlived'
  BY <1>2, Zenon DEF MgrInv, RegistryTypes, Registry, FewAlived, Alived
<1>3. ASSUME NEW h \in Handlers, Handle(h) PROVE RegistryTypes' /\ Registry' /\ FewAlived'
  BY <1>3, RegistryStep, FewStep, Zenon DEF MgrInv
<1>4. ASSUME NEW h \in Handlers, NEW k \in Keys, Request(h, k)
      PROVE  RegistryTypes' /\ Registry' /\ FewAlived'
  <2>1. alived' = alived
    BY <1>4, Zenon DEF Request, mgr
  <2>2. QED
    BY <1>4, <2>1, RegistryStep, Zenon DEF MgrInv, FewAlived, Alived
<1>5. ASSUME NEW h \in Handlers, RunShift(h) PROVE UNCHANGED <<alived, mu, hpc, key>>
  BY <1>5, Zenon DEF RunShift, CutOver, Switch, ShiftCloses, ShiftFails, mgr
<1>6. ASSUME (\E k \in Keys : CleanupFinds(k)) \/ CleanupGetStatus \/ CleanupDrops \/ StopAllInstance
      PROVE  UNCHANGED <<alived, mu, hpc, key>>
  BY <1>6, Zenon DEF CleanupFinds, CleanupGetStatus, CleanupDrops, StopAllInstance, mgr
<1>7. QED
  BY <1>1, <1>2, <1>3, <1>4, <1>5, <1>6, Zenon DEF MgrInv, MgrNext

\* The manager has each instance once, within its limit, and its lock back.
THEOREM ManagerHolds ==
  MgrSpec => [](MgrTypeOK /\ RegisteredOnce /\ LockReleased)
<1>1. MgrInit => MgrInv
  <2>1. ASSUME MgrInit PROVE RegistryTypes /\ Registry
    <3>1. "idle" \in HandlerPcs /\ "idle" \notin LockPcs /\ "idle" \notin WaitPcs
      BY Zenon DEF HandlerPcs, LockPcs, WaitPcs
    <3>2. QED
      BY <2>1, <3>1, Zenon DEF MgrInit, RegistryTypes, Registry, Alived
  <2>2. ASSUME MgrInit PROVE FewAlived
    <3>1. Alived = {}
      BY <2>2, Zenon DEF MgrInit, Alived
    <3>2. IsFiniteSet(Alived) /\ Cardinality(Alived) = 0
      BY <3>1, FS_EmptySet, Zenon
    <3>3. QED
      BY <3>2, ManagerAssumption DEF FewAlived
  <2>3. ASSUME MgrInit PROVE OtherMgrTypes
    <3>1. /\ "none" \in Statuses /\ "none" \in ShiftPhases
          /\ <<"idle", None>> \in CleanerPcs \X (Keys \cup {None}) /\ 0 \in 0..MaxMgrFaults
          /\ <<"idle", None>>[1] = "idle"
      BY ManagerAssumption DEF Statuses, ShiftPhases, CleanerPcs
    <3>2. QED
      BY <2>3, <3>1, Zenon DEF MgrInit, OtherMgrTypes
  <2>4. QED
    BY <2>1, <2>2, <2>3, Zenon DEF MgrInv
<1>2. MgrInv /\ [MgrNext]_mgrVars => MgrInv'
  <2>1. ASSUME MgrInv, UNCHANGED mgrVars PROVE MgrInv'
    BY <2>1, Zenon DEF MgrInv, RegistryTypes, Registry, FewAlived, OtherMgrTypes, Alived,
       mgrVars, mgr
  <2>2. QED
    BY <2>1, MgrStepInv, Zenon
<1>3. MgrInv => MgrTypeOK /\ RegisteredOnce /\ LockReleased
  <2>1. MgrInv => MgrTypeOK
    BY Zenon DEF MgrInv, RegistryTypes, OtherMgrTypes, MgrTypeOK, HandlerPcs, Statuses,
       ShiftPhases,
                 CleanerPcs
  <2>2. MgrInv => RegisteredOnce /\ LockReleased
    BY Zenon DEF MgrInv, Registry, FewAlived, RegisteredOnce, LockReleased, WaitPcs, LockPcs
  <2>3. QED
    BY <2>1, <2>2, Zenon
<1>4. QED
  BY <1>1, <1>2, <1>3, PTL DEF MgrSpec

-----------------------------------------------------------------------------
(* The limits together.                                                    *)

\* The limits of a shift hold in every state (ShiftLimits).
THEOREM ServiceLimited == ServiceSpec => []ShiftLimits
<1>1. (ShiftPoolTypeOK /\ NeverStuck /\ PutNeverBlocks)
      /\ (ThrottleTypeOK /\ WithinLimit /\ BehindIsThrottled)
      /\ (MgrTypeOK /\ RegisteredOnce /\ LockReleased) => ShiftLimits
  BY Zenon DEF ShiftLimits
<1>2. QED
  BY <1>1, PoolNeverBlocks, ThrottleHolds, ManagerHolds, PTL DEF ServiceSpec
=============================================================================
