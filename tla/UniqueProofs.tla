---------------------------- MODULE UniqueProofs ----------------------------
(***************************************************************************)
(* What belongs to one owner at a time: the connections of a pool          *)
(* (ConnPool), for any callers, capacity, dials, queries and faults; the   *)
(* ids of one proxy (AutoIncrement) and the names of XA branches (XaIds),  *)
(* for any number of handlers, rows, transactions, crashes and restarts.   *)
(***************************************************************************)
EXTENDS ConnPool, AutoIncrement, XaIds, TLAPS

-----------------------------------------------------------------------------
(* The pool. *)

\* Every connection made so far, 1 to n, is held by one process h, or is once in
\* the channel q, or neither.
Own(h, q, n) ==
  /\ n \in Nat /\ h \in [Procs -> 0..n] /\ q \in Seq(1..n)
  /\ \A p, r \in Procs : p # r /\ h[p] = h[r] => h[p] = NoConn
  /\ \A i, j \in 1..Len(q) : i # j => q[i] # q[j]
  /\ \A p \in Procs, i \in 1..Len(q) : h[p] # q[i]

\* A connection leaves the channel and is closed.
LEMMA OwnTail == ASSUME NEW h, NEW q, NEW n, Own(h, q, n), q # <<>> PROVE Own(h, Tail(q), n)
<1>1. q \in Seq(1..n) /\ n \in Nat
  BY Zenon DEF Own
<1>2. /\ Tail(q) \in Seq(1..n) /\ Len(Tail(q)) = Len(q) - 1
      /\ \A i \in 1..Len(Tail(q)) : i + 1 \in 1..Len(q) /\ Tail(q)[i] = q[i + 1]
  BY <1>1
<1>3. \A i, j \in 1..Len(Tail(q)) : i # j => i + 1 # j + 1
  OBVIOUS
<1>4. \A i, j \in 1..Len(Tail(q)) : i # j => Tail(q)[i] # Tail(q)[j]
  <2> SUFFICES ASSUME NEW i \in 1..Len(Tail(q)), NEW j \in 1..Len(Tail(q)), i # j
               PROVE  Tail(q)[i] # Tail(q)[j]
    BY Zenon
  <2>1. q[i + 1] # q[j + 1]
    BY <1>2, <1>3, Zenon DEF Own
  <2> QED
    BY <2>1, <1>2, Zenon
<1>5. \A p \in Procs, i \in 1..Len(Tail(q)) : h[p] # Tail(q)[i]
  BY <1>2, Zenon DEF Own
<1> QED
  BY <1>2, <1>4, <1>5, Zenon DEF Own

\* A process takes the first one.
LEMMA OwnTake ==
  ASSUME NEW h, NEW q, NEW n, Own(h, q, n), q # <<>>, NEW p \in Procs
  PROVE  Own([h EXCEPT ![p] = Head(q)], Tail(q), n)
<1> DEFINE g == [h EXCEPT ![p] = Head(q)]
<1>1. q \in Seq(1..n) /\ n \in Nat /\ h \in [Procs -> 0..n]
  BY Zenon DEF Own
<1>2. /\ Head(q) = q[1] /\ Head(q) \in 1..n /\ 1 \in 1..Len(q)
      /\ \A i \in 1..Len(Tail(q)) : i + 1 \in 1..Len(q) /\ 1 # i + 1 /\ Tail(q)[i] = q[i + 1]
  BY <1>1
<1>3. g \in [Procs -> 0..n] /\ g[p] = Head(q) /\ \A r \in Procs : r # p => g[r] = h[r]
  BY <1>1, <1>2
<1> HIDE DEF g
<1>4. Own(h, Tail(q), n)
  BY OwnTail, Zenon
<1>5. \A i \in 1..Len(Tail(q)) : Tail(q)[i] # Head(q)
  BY <1>2, ZenonT(30) DEF Own
<1>6. \A r \in Procs : h[r] # Head(q)
  BY <1>2, Zenon DEF Own
<1>7. Own(g, Tail(q), n)
  BY <1>3, <1>4, <1>5, <1>6, Zenon DEF Own
<1> QED
  BY <1>7, Zenon DEF g

\* A process makes a new one.
LEMMA OwnDial ==
  ASSUME NEW h, NEW q, NEW n, Own(h, q, n), NEW p \in Procs
  PROVE  Own([h EXCEPT ![p] = n + 1], q, n + 1)
<1> DEFINE g == [h EXCEPT ![p] = n + 1]
<1>1. q \in Seq(1..n) /\ n \in Nat /\ h \in [Procs -> 0..n]
  BY Zenon DEF Own
<1>2. /\ g \in [Procs -> 0..(n + 1)] /\ g[p] = n + 1
      /\ \A r \in Procs : r # p => g[r] = h[r] /\ h[r] # n + 1
  BY <1>1
<1>3. q \in Seq(1..(n + 1)) /\ n + 1 \in Nat /\ \A i \in 1..Len(q) : q[i] # n + 1
  BY <1>1
<1> HIDE DEF g
<1>4. Own(g, q, n + 1)
  BY <1>2, <1>3, Zenon DEF Own
<1> QED
  BY <1>4, Zenon DEF g

\* A process gives its own up.
LEMMA OwnDrop ==
  ASSUME NEW h, NEW q, NEW n, Own(h, q, n), NEW p \in Procs
  PROVE  Own([h EXCEPT ![p] = NoConn], q, n)
<1> DEFINE g == [h EXCEPT ![p] = NoConn]
<1>1. q \in Seq(1..n) /\ n \in Nat /\ h \in [Procs -> 0..n]
  BY Zenon DEF Own
<1>2. g \in [Procs -> 0..n] /\ g[p] = NoConn /\ \A r \in Procs : r # p => g[r] = h[r]
  BY <1>1 DEF NoConn
<1>3. \A i \in 1..Len(q) : q[i] # NoConn
  BY <1>1 DEF NoConn
<1> HIDE DEF g
<1>4. Own(g, q, n)
  BY <1>2, <1>3, Zenon DEF Own
<1> QED
  BY <1>4, Zenon DEF g

\* A process puts it back.
LEMMA OwnPut ==
  ASSUME NEW h, NEW q, NEW n, Own(h, q, n), NEW p \in Procs, h[p] # NoConn
  PROVE  Own([h EXCEPT ![p] = NoConn], Append(q, h[p]), n)
<1> DEFINE g == [h EXCEPT ![p] = NoConn]
           a == Append(q, h[p])
<1>1. q \in Seq(1..n) /\ n \in Nat /\ h \in [Procs -> 0..n] /\ h[p] \in 1..n
  BY DEF Own, NoConn
<1>2. g[p] = NoConn /\ \A r \in Procs : r # p => g[r] = h[r]
  BY <1>1, Zenon
<1>3. /\ a \in Seq(1..n) /\ Len(a) = Len(q) + 1 /\ a[Len(q) + 1] = h[p] /\ Len(q) \in Nat
      /\ \A i \in 1..Len(a) : i = Len(q) + 1 \/ (i \in 1..Len(q) /\ a[i] = q[i])
  BY <1>1
<1>4. Own(g, q, n)
  BY OwnDrop, Zenon
<1> HIDE DEF g, a
<1>5. \A i \in 1..Len(q) : q[i] # h[p]
  BY Zenon DEF Own
<1>6. \A r \in Procs : g[r] # h[p]
  BY <1>1, <1>2, Zenon DEF Own
<1>7. \A i, j \in 1..Len(a) : i # j => a[i] # a[j]
  BY <1>3, <1>4, <1>5, Zenon DEF Own
<1>8. \A r \in Procs, i \in 1..Len(a) : g[r] # a[i]
  BY <1>3, <1>4, <1>6, Zenon DEF Own
<1>9. Own(g, a, n)
  BY <1>3, <1>4, <1>7, <1>8, Zenon DEF Own
<1> QED
  BY <1>9, Zenon DEF g, a

-----------------------------------------------------------------------------
Labels == {"idle", "recv", "closed", "held", "exec", "wait", "waitErr", "ready", "failed", "put",
           "armed", "fired"}
Holding == {"held", "exec", "wait", "waitErr", "ready", "failed", "put"}

\* Who is past Get has a connection.
PoolInv ==
  /\ Own(hold, idle, dials) /\ pc \in [Procs -> Labels]
  /\ \A p \in Procs : pc[p] \in Holding => hold[p] # NoConn

\* The connections have one owner.
LEMMA PoolOwner == PoolInv => SingleOwner
<1> SUFFICES ASSUME PoolInv PROVE SingleOwner
  BY Zenon
<1>1. DOMAIN idle = 1..Len(idle)
  BY DEF PoolInv, Own
<1> QED
  BY <1>1, Zenon DEF PoolInv, Own, SingleOwner

\* Nobody has a connection, there is none.
LEMMA PoolInit == Init => PoolInv
<1> SUFFICES ASSUME Init PROVE PoolInv
  BY Zenon
<1>1. 1..Len(idle) = {} /\ idle \in Seq(1..0)
  BY DEF Init
<1>2. \A p \in Procs : hold[p] = NoConn /\ pc[p] = "idle"
  BY Zenon DEF Init
<1>3. hold \in [Procs -> 0..0] /\ pc \in [Procs -> Labels] /\ dials = 0
  BY DEF Init, NoConn, Labels
<1>4. Own(hold, idle, 0)
  BY <1>1, <1>2, <1>3, Zenon DEF Own
<1> QED
  BY <1>2, <1>3, <1>4, Zenon DEF PoolInv, Holding

\* A process that moves to label l, with or without its connection.
LEMMA PoolMove ==
  ASSUME PoolInv, NEW p \in Procs, NEW l \in Labels, pc' = [pc EXCEPT ![p] = l], Own(hold', idle', dials'),
         l \in Holding => hold'[p] # NoConn, \A r \in Procs : r # p => hold'[r] = hold[r]
  PROVE  PoolInv'
<1>1. pc' \in [Procs -> Labels] /\ pc'[p] = l /\ \A r \in Procs : r # p => pc'[r] = pc[r]
  BY Zenon DEF PoolInv
<1>2. \A r \in Procs : pc'[r] \in Holding => hold'[r] # NoConn
  BY <1>1, Zenon DEF PoolInv
<1> QED
  BY <1>1, <1>2, Zenon DEF PoolInv

\* reconnect, after a connection has left the channel or not.
LEMMA PoolReconnect ==
  ASSUME PoolInv, NEW p \in Procs, NEW d, NEW g, reconnect(p, d, g), Own(hold, idle', dials)
  PROVE  PoolInv'
<1>1. CASE dials' = dials + 1 /\ Take(p, dials + 1) /\ At(p, "held")
  <2>1. hold' = [hold EXCEPT ![p] = dials + 1] /\ pc' = [pc EXCEPT ![p] = "held"]
    BY <1>1, Zenon DEF Take, At
  <2>2. Own(hold', idle', dials')
    BY <1>1, <2>1, OwnDial, Zenon
  <2>3. hold'[p] = dials + 1 /\ \A r \in Procs : r # p => hold'[r] = hold[r]
    BY <2>1, Zenon DEF PoolInv, Own
  <2>4. dials + 1 # NoConn
    BY SMTT(20) DEF PoolInv, Own, NoConn
  <2> QED
    BY <2>1, <2>2, <2>3, <2>4, PoolMove, Zenon DEF Labels
<1>2. CASE At(p, "idle") /\ UNCHANGED <<dials, hold>>
  BY <1>2, PoolMove, Zenon DEF At, Labels, Holding
<1> QED
  BY <1>1, <1>2, ZenonT(30) DEF reconnect

\* Get.
LEMMA PoolHit == ASSUME PoolInv, NEW p \in Procs, Hit(p) \/ Miss(p) PROVE PoolInv'
<1>1. CASE Hit(p)
  <2>1. idle # <<>> /\ idle' = Tail(idle)
    BY <1>1, Zenon DEF Hit, Popped
  <2>2. Own(hold, idle', dials)
    BY <2>1, OwnTail, ZenonT(30) DEF PoolInv
  <2>3. CASE Take(p, Head(idle)) /\ At(p, "held") /\ UNCHANGED dials
    <3>1. hold' = [hold EXCEPT ![p] = Head(idle)] /\ pc' = [pc EXCEPT ![p] = "held"]
      BY <2>3, Zenon DEF Take, At
    <3>2. Own(hold', idle', dials')
      BY <2>1, <2>3, <3>1, OwnTake, Zenon DEF PoolInv
    <3>3. hold'[p] = Head(idle) /\ \A r \in Procs : r # p => hold'[r] = hold[r]
      BY <3>1, Zenon DEF PoolInv, Own
    <3>4. Head(idle) # NoConn
      BY <2>1 DEF PoolInv, Own, NoConn
    <3> QED
      BY <3>1, <3>2, <3>3, <3>4, PoolMove, Zenon DEF Labels
  <2>4. CASE \E d, g : reconnect(p, d, g)
    BY <2>2, <2>4, PoolReconnect, Zenon
  <2> QED
    BY <1>1, <2>3, <2>4, Zenon DEF Hit
<1>2. CASE Miss(p)
  <2>1. idle' = idle
    BY <1>2, Zenon DEF Miss
  <2>2. Own(hold, idle', dials)
    BY <2>1, Zenon DEF PoolInv
  <2>3. CASE reconnect(p, drv, gauge)
    BY <2>2, <2>3, PoolReconnect, ZenonT(30)
  <2>4. CASE At(p, "idle") /\ UNCHANGED <<dials, hold>>
    BY <2>2, <2>4, PoolMove, ZenonT(30) DEF At, Labels, Holding
  <2> QED
    BY <1>2, <2>3, <2>4, Zenon DEF Miss
<1> QED
  BY <1>1, <1>2, Zenon

\* Recycle and connection.Close.
LEMMA PoolGiveUp ==
  ASSUME PoolInv, NEW p \in Procs, pc[p] \in Holding, Take(p, NoConn), At(p, "idle"), UNCHANGED dials,
         idle' = idle \/ idle' = Append(idle, hold[p])
  PROVE  PoolInv'
<1>1. hold' = [hold EXCEPT ![p] = NoConn] /\ pc' = [pc EXCEPT ![p] = "idle"]
  BY Zenon DEF Take, At
<1>2. hold[p] # NoConn
  BY Zenon DEF PoolInv
<1>3. Own(hold', idle', dials')
  <2>1. Own([hold EXCEPT ![p] = NoConn], idle, dials)
    BY OwnDrop, Zenon DEF PoolInv
  <2>2. Own([hold EXCEPT ![p] = NoConn], Append(idle, hold[p]), dials)
    BY <1>2, OwnPut, Zenon DEF PoolInv
  <2> QED
    BY <1>1, <2>1, <2>2, Zenon
<1>4. \A r \in Procs : r # p => hold'[r] = hold[r]
  BY <1>1, Zenon DEF PoolInv, Own
<1> QED
  BY <1>1, <1>3, <1>4, PoolMove, Zenon DEF Labels, Holding

\* The processes are two to a caller.
LEMMA ProcNames ==
  /\ \A u \in Callers : Main(u) \in Procs /\ Killer(u) \in Procs
  /\ \A u, v \in Callers : Main(u) # Killer(v) /\ (u # v => Main(u) # Main(v) /\ Killer(u) # Killer(v))
  /\ \A p \in Procs : \E u \in Callers : p = Main(u) \/ p = Killer(u)
BY DEF Main, Killer, Procs

\* Steps that move processes and leave the connections where they are.
LEMMA PoolStay ==
  ASSUME PoolInv, UNCHANGED <<hold, dials>>, Own(hold, idle', dials), pc' \in [Procs -> Labels],
         \A p \in Procs : pc'[p] \in Holding => pc[p] \in Holding
  PROVE  PoolInv'
BY Zenon DEF PoolInv

\* The processes' steps.
LEMMA PoolProc == ASSUME PoolInv, NEW p \in Procs, ProcStep(p) PROVE PoolInv'
<1>1. CASE GetFails(p)
  BY <1>1, PoolStay, Zenon DEF GetFails, At, PoolInv, Labels, Holding
<1>2. CASE Recycle(p)
  <2>1. pc[p] \in Holding
    BY <1>2, Zenon DEF Recycle, Holding
  <2> QED
    BY <1>2, <2>1, PoolGiveUp, Zenon DEF Recycle
<1> QED
  BY <1>1, <1>2, PoolHit, Zenon DEF ProcStep

\* The callers' steps.
LEMMA PoolCaller == ASSUME PoolInv, NEW u \in Callers, CallerStep(u) PROVE PoolInv'
<1> USE ProcNames
<1>0. pc \in [Procs -> Labels] /\ Own(hold, idle, dials)
  BY Zenon DEF PoolInv
<1>1. ASSUME NEW p \in Procs, getConns(p) PROVE PoolInv'
  BY <1>0, <1>1, PoolStay, Zenon DEF getConns, At, Labels, Holding
<1>2. CASE CloseConn(u)
  <2>1. pc[Main(u)] \in Holding
    BY <1>2, Zenon DEF CloseConn, Holding
  <2> QED
    BY <1>2, <2>1, PoolGiveUp, Zenon DEF CloseConn
<1>3. CASE ExecuteWithLimits(u)
  BY <1>0, <1>3, PoolStay, Zenon DEF ExecuteWithLimits, Labels, Holding
<1>4. CASE QueryReturns(u)
  BY <1>0, <1>4, PoolStay, Zenon DEF QueryReturns, At, Labels, Holding
<1>5. CASE DeadlineFires(u)
  BY <1>0, <1>5, PoolStay, Zenon DEF DeadlineFires, At, Labels, Holding
<1>6. CASE KillSent(u)
  BY <1>0, <1>6, PoolStay, Zenon DEF KillSent, At, Labels, Holding
<1>7. CASE ExecuteReturns(u)
  BY <1>0, <1>7, PoolStay, Zenon DEF ExecuteReturns, Labels, Holding
<1>8. CASE Reuse(u) \/ Unused(u)
  BY <1>0, <1>8, PoolStay DEF Reuse, Unused, At, Labels, Holding
<1> QED
  BY <1>1, <1>2, <1>3, <1>4, <1>5, <1>6, <1>7, <1>8, Zenon DEF CallerStep, ExecStep, Get, KillGet

\* Every step.
LEMMA PoolNext == ASSUME PoolInv, [Next]_vars PROVE PoolInv'
<1>1. CASE UNCHANGED <<pc, hold, idle, dials>>
  BY <1>1, PoolStay, Zenon DEF PoolInv
<1>2. CASE CloseDrain
  <2>1. idle # <<>> /\ idle' = Tail(idle) /\ UNCHANGED <<pc, hold, dials>>
    BY <1>2, Zenon DEF CloseDrain
  <2>2. Own(hold, idle', dials)
    BY <2>1, OwnTail, Zenon DEF PoolInv
  <2> QED
    BY <2>1, <2>2, PoolStay, Zenon DEF PoolInv
<1>3. Close \/ CloseEnd \/ (\E c \in Conns : ConnLost(c)) \/ UNCHANGED vars => UNCHANGED <<pc, hold, idle, dials>>
  BY Zenon DEF Close, CloseEnd, ConnLost, vars
<1> QED
  BY <1>1, <1>2, <1>3, PoolProc, PoolCaller, Zenon DEF Next

\* Between Get and Recycle or Close a connection belongs to one goroutine, for any
\* interleaving of Get, put, the deadline's Kill and Pool.Close.
THEOREM OneOwner == Spec => []SingleOwner
BY PoolInit, PoolNext, PoolOwner, PTL DEF Spec

-----------------------------------------------------------------------------
\* A deadline goroutine that has fired is waited for: its caller is still in the
\* query, with the connection that is marked.
Active == {"fired", "recv", "closed", "held", "put"}
KillInv == \A u \in Callers : pc[Killer(u)] \in Active => pc[Main(u)] \in InQuery /\ hold[Main(u)] \in killed

\* One process moves, and may get or lose a connection; a caller does so outside of
\* a query, a deadline goroutine after it has fired.
LEMMA KillMove ==
  ASSUME PoolInv, KillInv, NEW p \in Procs, NEW l, pc' = [pc EXCEPT ![p] = l], UNCHANGED killed,
         \A r \in Procs : r # p => hold'[r] = hold[r],
         \A u \in Callers : (p = Main(u) => pc[p] \notin InQuery) /\ (p = Killer(u) => pc[p] \in Active)
  PROVE  KillInv'
<1>1. pc'[p] = l /\ \A r \in Procs : r # p => pc'[r] = pc[r]
  BY Zenon DEF PoolInv
<1>2. ASSUME NEW u \in Callers, pc'[Killer(u)] \in Active
      PROVE  pc'[Main(u)] \in InQuery /\ hold'[Main(u)] \in killed'
  <2>1. CASE p = Main(u)
    <3>1. pc[Killer(u)] \in Active
      BY <1>1, <1>2, <2>1, ProcNames, Zenon
    <3> QED
      BY <2>1, <3>1, Zenon DEF KillInv
  <2>2. CASE p # Main(u)
    <3>1. pc[Killer(u)] \in Active
      BY <1>1, <1>2, <2>2, ProcNames, Zenon
    <3>2. pc[Main(u)] \in InQuery /\ hold[Main(u)] \in killed
      BY <3>1, Zenon DEF KillInv
    <3>3. pc'[Main(u)] = pc[Main(u)] /\ hold'[Main(u)] = hold[Main(u)]
      BY <1>1, <2>2, ProcNames, Zenon
    <3> QED
      BY <3>2, <3>3, Zenon
  <2> QED
    BY <2>1, <2>2, Zenon
<1>3. InQuery' = InQuery /\ Active' = Active
  BY Zenon DEF InQuery, Active
<1> QED
  BY <1>2, <1>3, Zenon DEF KillInv, Killer, Main

\* A step changes one process, its connection, or both.
LEMMA ProcEffect ==
  ASSUME PoolInv, NEW p \in Procs, ProcStep(p)
  PROVE  /\ pc[p] \in {"recv", "closed", "put"} /\ UNCHANGED killed
         /\ \E l : pc' = [pc EXCEPT ![p] = l]
         /\ \A r \in Procs : r # p => hold'[r] = hold[r]
<1>1. \A c, r : Take(p, c) /\ r \in Procs /\ r # p => hold'[r] = hold[r]
  BY Zenon DEF Take, PoolInv, Own
<1>2. \A d, g : reconnect(p, d, g) => /\ \E l : pc' = [pc EXCEPT ![p] = l]
                                      /\ \A r \in Procs : r # p => hold'[r] = hold[r]
  BY <1>1, Zenon DEF reconnect, At
<1>3. \A l : At(p, l) => \E m : pc' = [pc EXCEPT ![p] = m]
  BY Zenon DEF At
<1>4. CASE Hit(p)
  BY <1>1, <1>2, <1>3, <1>4, Zenon DEF Hit
<1>5. CASE Miss(p)
  BY <1>1, <1>2, <1>3, <1>5, Zenon DEF Miss
<1>6. CASE GetFails(p)
  BY <1>3, <1>6, Zenon DEF GetFails
<1>7. CASE Recycle(p)
  BY <1>1, <1>3, <1>7, Zenon DEF Recycle
<1> QED
  BY <1>4, <1>5, <1>6, <1>7, Zenon DEF ProcStep

\* The processes' steps.
LEMMA KillProc == ASSUME PoolInv, KillInv, NEW p \in Procs, ProcStep(p) PROVE KillInv'
<1>1. /\ pc[p] \in {"recv", "closed", "put"} /\ UNCHANGED killed
      /\ \E l : pc' = [pc EXCEPT ![p] = l]
      /\ \A r \in Procs : r # p => hold'[r] = hold[r]
  BY ProcEffect, Zenon
<1>2. pc[p] \notin InQuery /\ pc[p] \in Active
  BY <1>1, Zenon DEF InQuery, Active
<1> QED
  BY <1>1, <1>2, KillMove, Zenon

\* The callers' steps.
LEMMA KillCaller == ASSUME PoolInv, KillInv, NEW u \in Callers, CallerStep(u) PROVE KillInv'
<1> USE ProcNames
<1>0. pc \in [Procs -> Labels] /\ hold \in [Procs -> 0..dials]
  BY Zenon DEF PoolInv, Own
<1>1. ASSUME NEW l, pc' = [pc EXCEPT ![Main(u)] = l], UNCHANGED killed, pc[Main(u)] \notin InQuery,
             \A r \in Procs : r # Main(u) => hold'[r] = hold[r]
      PROVE  KillInv'
  BY <1>1, KillMove, ZenonT(30)
<1>2. CASE Get(u)
  BY <1>1, <1>2, Zenon DEF Get, getConns, At, InQuery
<1>3. CASE CloseConn(u)
  <2>1. pc[Main(u)] \notin InQuery
    BY <1>3, Zenon DEF CloseConn, InQuery
  <2>2. \A r \in Procs : r # Main(u) => hold'[r] = hold[r]
    BY <1>0, <1>3, Zenon DEF CloseConn, Take
  <2> QED
    BY <1>1, <1>3, <2>1, <2>2, Zenon DEF CloseConn, At
<1>4. CASE Reuse(u) \/ Unused(u)
  BY <1>1, <1>4, Zenon DEF Reuse, Unused, At, InQuery
<1>5. CASE KillGet(u) \/ KillSent(u)
  <2>1. /\ pc[Killer(u)] \in Active /\ UNCHANGED <<hold, killed>>
        /\ \E l : pc' = [pc EXCEPT ![Killer(u)] = l]
    BY <1>5, Zenon DEF KillGet, getConns, KillSent, At, Active
  <2> QED
    BY <2>1, KillMove, Zenon
<1>6. CASE ExecuteWithLimits(u)
  BY <1>0, <1>6, Zenon DEF ExecuteWithLimits, KillInv, Active, InQuery
<1>7. CASE QueryReturns(u)
  <2>1. /\ pc[Main(u)] = "exec" /\ UNCHANGED <<hold, killed>>
        /\ pc' = [pc EXCEPT ![Main(u)] = "wait"] \/ pc' = [pc EXCEPT ![Main(u)] = "waitErr"]
    BY <1>7, Zenon DEF QueryReturns, At
  <2> QED
    BY <1>0, <2>1, Zenon DEF KillInv, Active, InQuery
<1>8. CASE DeadlineFires(u)
  BY <1>0, <1>8, Zenon DEF DeadlineFires, At, KillInv, Active, InQuery
<1>9. CASE ExecuteReturns(u)
  BY <1>0, <1>9 DEF ExecuteReturns, KillerDone, KillInv, Active, InQuery
<1> QED
  BY <1>2, <1>3, <1>4, <1>5, <1>6, <1>7, <1>8, <1>9, Zenon DEF CallerStep, ExecStep

\* Every step.
LEMMA KillNext == ASSUME PoolInv, KillInv, [Next]_vars PROVE KillInv'
<1>1. CASE UNCHANGED <<pc, hold, killed>>
  BY <1>1, Zenon DEF KillInv, Active, InQuery, Main, Killer
<1>2. \/ Close \/ CloseDrain \/ CloseEnd \/ (\E c \in Conns : ConnLost(c)) \/ UNCHANGED vars
      => UNCHANGED <<pc, hold, killed>>
  BY Zenon DEF Close, CloseDrain, CloseEnd, ConnLost, vars
<1> QED
  BY <1>1, <1>2, KillProc, KillCaller, Zenon DEF Next

\* The KILL of a deadline reaches the connection while the caller whose query it is
\* about still has it (setDeadline, wg.Wait in ExecuteWithLimits).
THEOREM KillIsOwn == Spec => KillHitsOwnQuery
<1> DEFINE Hits == \A u \in Callers : pc[Killer(u)] = "held" /\ pc'[Killer(u)] = "put" =>
                     pc[Main(u)] \in InQuery /\ hold[Main(u)] \in killed
<1>1. Init => KillInv
  <2>1. \A p \in Procs : Init => pc[p] = "idle"
    BY Zenon DEF Init
  <2> QED
    BY <2>1, ProcNames, Zenon DEF KillInv, Active
<1>2. KillInv => Hits
  BY Zenon DEF KillInv, Active
<1>3. PoolInv /\ KillInv /\ [Next]_vars => PoolInv' /\ KillInv' /\ [Hits]_vars
  BY <1>2, PoolNext, KillNext, Zenon
<1>4. KillHitsOwnQuery <=> [][Hits]_vars
  BY Zenon DEF KillHitsOwnQuery
<1> HIDE DEF Hits
<1> QED
  BY <1>1, <1>3, <1>4, PoolInit, PTL DEF Spec

-----------------------------------------------------------------------------
\* What a process does to the channel: Get takes the first connection out, put
\* adds one at the end of an open channel that is not full.
LEMMA ChannelProc ==
  ASSUME NEW p \in Procs, ProcStep(p)
  PROVE  /\ chan' = chan /\ (panic' <=> panic)
         /\ \/ idle' = idle
            \/ idle # <<>> /\ idle' = Tail(idle)
            \/ chan # "closed" /\ Len(idle) # MaxConnections /\ \E c : idle' = Append(idle, c)
<1>1. CASE Hit(p) \/ Miss(p) \/ GetFails(p)
  BY <1>1 DEF Hit, Miss, GetFails, Popped
<1>2. CASE Recycle(p)
  <2>1. CASE UNCHANGED <<idle, panic>>
    BY <1>2, <2>1, Zenon DEF Recycle
  <2>2. CASE /\ drv[hold[p]] # "closed" /\ chan # "closed" /\ ~Full /\ idle' = Append(idle, hold[p])
             /\ panic' = (panic \/ chan = "closing")
    BY <1>2, <2>2, Zenon DEF Recycle, Locked, Full
  <2> QED
    BY <1>2, <2>1, <2>2, Zenon DEF Recycle
<1> QED
  BY <1>1, <1>2, Zenon DEF ProcStep

\* The channel is closed once, under the mutex, and drained before it is nil;
\* meanwhile put waits: nothing is sent on it, and nothing stays in it.
THEOREM ClosesClean == Spec => []PoolCloses
<1>1. Init => PoolCloses
  BY PoolAssumption DEF Init, PoolCloses, PoolAssumption
<1>2. PoolInv /\ PoolCloses /\ [Next]_vars => PoolCloses'
  <2> SUFFICES ASSUME PoolInv, PoolCloses, [Next]_vars PROVE PoolCloses'
    BY Zenon
  <2>1. idle \in Seq(1..dials) /\ MaxConnections \in Nat
    BY PoolAssumption, Zenon DEF PoolInv, Own, PoolAssumption
  <2>2. ASSUME NEW p \in Procs, ProcStep(p) PROVE PoolCloses'
    <3>1. CASE idle' = idle
      BY <2>2, <3>1, ChannelProc, Zenon DEF PoolCloses
    <3>2. CASE idle # <<>> /\ idle' = Tail(idle)
      BY <2>1, <2>2, <3>2, ChannelProc DEF PoolCloses
    <3>3. ASSUME NEW c, chan # "closed", Len(idle) # MaxConnections, idle' = Append(idle, c) PROVE PoolCloses'
      <4>1. Len(idle') = Len(idle) + 1
        BY <2>1, <3>3
      <4> QED
        BY <2>1, <2>2, <3>3, <4>1, ChannelProc DEF PoolCloses
    <3> QED
      BY <2>2, <3>1, <3>2, <3>3, ChannelProc, Zenon
  <2>3. ASSUME NEW u \in Callers, CallerStep(u) PROVE UNCHANGED <<chan, idle, panic>>
    BY <2>3, Zenon DEF CallerStep, Get, getConns, ExecuteWithLimits, DeadlineFires, CloseConn, Reuse, Unused,
       ExecStep, QueryReturns, KillGet, KillSent, ExecuteReturns
  <2>4. CASE CloseDrain
    BY <2>1, <2>4 DEF CloseDrain, PoolCloses
  <2>5. CASE Close \/ CloseEnd
    BY <2>5 DEF Close, CloseEnd, Drained, PoolCloses
  <2>6. (\E c \in Conns : ConnLost(c)) \/ UNCHANGED vars => UNCHANGED <<chan, idle, panic>>
    BY Zenon DEF ConnLost, vars
  <2>7. UNCHANGED <<chan, idle, panic>> => PoolCloses'
    BY DEF PoolCloses
  <2> QED
    BY <2>2, <2>3, <2>4, <2>5, <2>6, <2>7, Zenon DEF Next
<1> QED
  BY <1>1, <1>2, PoolInit, PoolNext, PTL DEF Spec

-----------------------------------------------------------------------------
(* The ids of one proxy. *)

Inserts == [step : {"idle", "fill"}, rows : Nat, seq : Nat, fill : BOOLEAN]

AutoTypes ==
  /\ clock \in Nat /\ clock > 0 /\ issued \subseteq Nat
  /\ seq \in [Proxies -> Nat] /\ ins \in [Proxies -> [Handlers -> Inserts]]

\* The counter is behind the clock, what was given out is behind both.
Behind ==
  /\ \A p \in Proxies : seq[p] <= clock
  /\ \A i \in issued : i <= clock /\ \A p \in Proxies : seq[p] # 0 => i <= seq[p]

\* An insert that has taken its range keeps it: behind the counter, apart from
\* what was given out and from the ranges of the other inserts.
Reserved ==
  \A p \in Proxies, h \in Handlers : ins[p][h].step = "fill" =>
    /\ seq[p] # 0 /\ ins[p][h].seq + ins[p][h].rows <= seq[p]
    /\ \A i \in issued : i <= ins[p][h].seq \/ i > ins[p][h].seq + ins[p][h].rows
    /\ \A g \in Handlers : g # h /\ ins[p][g].step = "fill" =>
         \/ ins[p][g].seq + ins[p][g].rows <= ins[p][h].seq
         \/ ins[p][h].seq + ins[p][h].rows <= ins[p][g].seq

AutoInv == AutoTypes /\ Behind /\ Reserved /\ twice = {}

\* There is one proxy.
OneProxyOnly == \A p, q \in Proxies : p = q

\* A handler with no insert in Process.
LEMMA IdleType == Idle \in Inserts /\ Idle.step = "idle"
BY Zenon DEF Idle, Inserts

\* No counter runs, and nothing was given out.
LEMMA InitAuto == AutoInit => AutoInv
<1> SUFFICES ASSUME AutoInit PROVE AutoInv
  BY Zenon
<1>1. AutoTypes
  BY IdleType DEF AutoInit, AutoTypes
<1>2. Behind
  BY DEF AutoInit, Behind
<1>3. Reserved
  <2> SUFFICES ASSUME NEW p \in Proxies, NEW h \in Handlers PROVE ins[p][h].step # "fill"
    BY Zenon DEF Reserved
  <2>1. ins[p][h] = Idle
    BY Zenon DEF AutoInit
  <2> QED
    BY <2>1, IdleType, Zenon
<1> QED
  BY <1>1, <1>2, <1>3, Zenon DEF AutoInv, AutoInit

\* Time passes.
LEMMA TickAuto == ASSUME AutoInv, Tick PROVE AutoInv'
<1>1. clock' = clock + 1 /\ UNCHANGED <<seq, ins, issued, twice>>
  BY Zenon DEF Tick
<1>2. AutoTypes'
  BY <1>1 DEF AutoInv, AutoTypes
<1>3. Behind'
  BY <1>1 DEF AutoInv, AutoTypes, Behind
<1>4. Reserved'
  BY <1>1, Zenon DEF AutoInv, Reserved
<1> QED
  BY <1>1, <1>2, <1>3, <1>4, Zenon DEF AutoInv

\* AutoInit of the plugin: the clock is past everything that was given out.
LEMMA InitPlugAuto == ASSUME OneProxyOnly, AutoInv, NEW p \in Proxies, InitPlug(p) PROVE AutoInv'
<1>1. seq[p] = 0 /\ seq' = [seq EXCEPT ![p] = clock] /\ UNCHANGED <<clock, ins, issued, twice>>
  BY Zenon DEF InitPlug
<1>2. seq' \in [Proxies -> Nat] /\ \A q \in Proxies : seq'[q] = clock
  BY <1>1, Zenon DEF AutoInv, AutoTypes, OneProxyOnly
<1>3. AutoTypes'
  BY <1>1, <1>2, Zenon DEF AutoInv, AutoTypes
<1>4. Behind'
  BY <1>1, <1>2 DEF AutoInv, AutoTypes, Behind
<1>5. \A q \in Proxies, h \in Handlers : ins'[q][h].step # "fill"
  BY <1>1, Zenon DEF AutoInv, Reserved, OneProxyOnly
<1>6. Reserved'
  BY <1>5, Zenon DEF Reserved
<1> QED
  BY <1>1, <1>3, <1>4, <1>6, Zenon DEF AutoInv

\* A proxy that stops forgets its counter and its inserts.
LEMMA StopAuto == ASSUME OneProxyOnly, AutoInv, NEW p \in Proxies, Stop(p) PROVE AutoInv'
<1>1. /\ seq' = [seq EXCEPT ![p] = 0] /\ ins' = [ins EXCEPT ![p] = [h \in Handlers |-> Idle]]
      /\ UNCHANGED <<clock, issued, twice>>
  BY Zenon DEF Stop
<1>2. seq' \in [Proxies -> Nat] /\ \A q \in Proxies : seq'[q] = 0
  BY <1>1, Zenon DEF AutoInv, AutoTypes, OneProxyOnly
<1>3. /\ ins' \in [Proxies -> [Handlers -> Inserts]]
      /\ \A q \in Proxies, h \in Handlers : ins'[q][h] = Idle
  BY <1>1, IdleType, Zenon DEF AutoInv, AutoTypes, OneProxyOnly
<1>4. AutoTypes'
  BY <1>1, <1>2, <1>3, Zenon DEF AutoInv, AutoTypes
<1>5. Behind'
  BY <1>1, <1>2 DEF AutoInv, AutoTypes, Behind
<1>6. \A q \in Proxies, h \in Handlers : ins'[q][h].step # "fill"
  BY <1>3, IdleType, Zenon
<1>7. Reserved'
  BY <1>6, Zenon DEF Reserved
<1> QED
  BY <1>1, <1>4, <1>5, <1>7, Zenon DEF AutoInv

\* An insert takes the range from the counter on, and moves the counter past it.
LEMMA TakeAuto ==
  ASSUME OneProxyOnly, AutoInv, NEW p \in Proxies, NEW h \in Handlers,
         NEW n \in 1..MaxRows, NEW f \in BOOLEAN, TakeRange(p, h, n, f)
  PROVE  AutoInv'
<1> DEFINE i == [step |-> "fill", rows |-> n, seq |-> seq[p], fill |-> f]
<1>1. /\ seq[p] # 0 /\ seq[p] + n <= clock
      /\ ins' = [ins EXCEPT ![p][h] = i] /\ seq' = [seq EXCEPT ![p] = @ + n]
      /\ UNCHANGED <<clock, issued, twice>>
  BY Zenon DEF TakeRange
<1>2. n \in Nat /\ seq[p] \in Nat
  BY AutoIncrementAssumption DEF AutoInv, AutoTypes
<1>3. i \in Inserts /\ i.step = "fill" /\ i.rows = n /\ i.seq = seq[p]
  BY <1>2, Zenon DEF Inserts
<1> HIDE DEF i
<1>4. /\ ins' \in [Proxies -> [Handlers -> Inserts]] /\ ins'[p][h] = i
      /\ \A g \in Handlers : g # h => ins'[p][g] = ins[p][g]
  BY <1>1, <1>3, Zenon DEF AutoInv, AutoTypes
<1>5. seq' \in [Proxies -> Nat] /\ seq'[p] = seq[p] + n
  BY <1>1, <1>2 DEF AutoInv, AutoTypes
<1>6. AutoTypes'
  BY <1>1, <1>4, <1>5, Zenon DEF AutoInv, AutoTypes
<1>7. Behind'
  <2>1. \A q \in Proxies : seq'[q] <= clock'
    BY <1>1, <1>5, Zenon DEF OneProxyOnly
  <2>2. \A j \in issued' : j <= clock' /\ j <= seq'[p]
    BY <1>1, <1>2, <1>5 DEF AutoInv, AutoTypes, Behind
  <2> QED
    BY <2>1, <2>2, Zenon DEF Behind, OneProxyOnly
<1>8. Reserved'
  <2> SUFFICES ASSUME NEW g \in Handlers, ins'[p][g].step = "fill"
               PROVE  /\ seq'[p] # 0 /\ ins'[p][g].seq + ins'[p][g].rows <= seq'[p]
                      /\ \A j \in issued' : j <= ins'[p][g].seq \/ j > ins'[p][g].seq + ins'[p][g].rows
                      /\ \A k \in Handlers : k # g /\ ins'[p][k].step = "fill" =>
                           \/ ins'[p][k].seq + ins'[p][k].rows <= ins'[p][g].seq
                           \/ ins'[p][g].seq + ins'[p][g].rows <= ins'[p][k].seq
    BY Zenon DEF Reserved, OneProxyOnly
  <2>1. \A k \in Handlers : /\ ins[p][k].seq \in Nat /\ ins[p][k].rows \in Nat
                            /\ ins[p][k].step = "fill" => ins[p][k].seq + ins[p][k].rows <= seq[p]
    BY Zenon DEF AutoInv, AutoTypes, Inserts, Reserved
  <2>2. \A j \in issued' : j \in Nat /\ j <= seq[p]
    BY <1>1, Zenon DEF AutoInv, AutoTypes, Behind
  <2>3. CASE g = h
    BY <2>1, <2>2, <2>3, <1>2, <1>3, <1>4, <1>5
  <2>4. CASE g # h
    <3>1. /\ ins[p][g].step = "fill"
          /\ \A j \in issued' : j <= ins[p][g].seq \/ j > ins[p][g].seq + ins[p][g].rows
          /\ \A k \in Handlers : k # g /\ ins[p][k].step = "fill" =>
               \/ ins[p][k].seq + ins[p][k].rows <= ins[p][g].seq
               \/ ins[p][g].seq + ins[p][g].rows <= ins[p][k].seq
      BY <2>4, <1>1, <1>4, Zenon DEF AutoInv, Reserved
    <3> QED
      BY <3>1, <2>1, <2>4, <1>2, <1>3, <1>4, <1>5, SMTT(20)
  <2> QED
    BY <2>3, <2>4, Zenon
<1> QED
  BY <1>1, <1>6, <1>7, <1>8, Zenon DEF AutoInv

\* The ids of the range are new, and the other inserts keep their ranges.
LEMMA FillAuto ==
  ASSUME OneProxyOnly, AutoInv, NEW p \in Proxies, NEW h \in Handlers, Fill(p, h)
  PROVE  AutoInv'
<1>1. /\ ins[p][h].step = "fill" /\ ins' = [ins EXCEPT ![p][h] = Idle]
      /\ issued' = issued \cup Ids(ins[p][h]) \/ issued' = issued
      /\ twice' = twice \cup (issued \cap Ids(ins[p][h])) \/ twice' = twice
      /\ UNCHANGED <<clock, seq>>
  BY Zenon DEF Fill
<1>2. /\ \A g \in Handlers : ins[p][g].seq \in Nat /\ ins[p][g].rows \in Nat
      /\ seq[p] \in Nat /\ clock \in Nat /\ issued \subseteq Nat
  BY Zenon DEF AutoInv, AutoTypes, Inserts
<1>3. /\ seq[p] # 0 /\ ins[p][h].seq + ins[p][h].rows <= seq[p]
      /\ \A j \in issued : j <= ins[p][h].seq \/ j > ins[p][h].seq + ins[p][h].rows
  BY <1>1, Zenon DEF AutoInv, Reserved
<1>4. \A j \in Ids(ins[p][h]) : /\ j \in Nat /\ j > ins[p][h].seq
                                /\ j <= ins[p][h].seq + ins[p][h].rows /\ j \notin issued
  BY <1>2, <1>3 DEF Ids
<1>5. twice' = {}
  BY <1>1, <1>4, Zenon DEF AutoInv
<1>6. /\ ins' \in [Proxies -> [Handlers -> Inserts]] /\ ins'[p][h] = Idle
      /\ \A g \in Handlers : g # h => ins'[p][g] = ins[p][g]
  BY <1>1, IdleType, Zenon DEF AutoInv, AutoTypes
<1>7. \A j \in issued' : j \in issued \/ j \in Ids(ins[p][h])
  BY <1>1, Zenon
<1>8. AutoTypes'
  <2>1. issued' \subseteq Nat
    BY <1>2, <1>4, <1>7, Zenon
  <2> QED
    BY <2>1, <1>1, <1>6, Zenon DEF AutoInv, AutoTypes
<1>9. Behind'
  <2>1. \A q \in Proxies : seq'[q] <= clock'
    BY <1>1, Zenon DEF AutoInv, Behind
  <2>2. \A j \in issued : j \in Nat /\ j <= clock /\ j <= seq[p]
    BY <1>2, <1>3, Zenon DEF AutoInv, Behind
  <2>3. \A j \in Ids(ins[p][h]) : j <= clock /\ j <= seq[p]
    BY <2>1, <1>1, <1>2, <1>3, <1>4
  <2>4. \A j \in issued' : j <= clock' /\ j <= seq'[p]
    BY <2>2, <2>3, <1>1, <1>7, Zenon
  <2> QED
    BY <2>1, <2>4, Zenon DEF Behind, OneProxyOnly
<1>10. Reserved'
  <2> SUFFICES ASSUME NEW g \in Handlers, ins'[p][g].step = "fill"
               PROVE  /\ seq'[p] # 0 /\ ins'[p][g].seq + ins'[p][g].rows <= seq'[p]
                      /\ \A j \in issued' : j <= ins'[p][g].seq \/ j > ins'[p][g].seq + ins'[p][g].rows
                      /\ \A k \in Handlers : k # g /\ ins'[p][k].step = "fill" =>
                           \/ ins'[p][k].seq + ins'[p][k].rows <= ins'[p][g].seq
                           \/ ins'[p][g].seq + ins'[p][g].rows <= ins'[p][k].seq
    BY ZenonT(30) DEF Reserved, OneProxyOnly
  <2>1. g # h /\ ins'[p][g] = ins[p][g]
    BY <1>6, IdleType, Zenon
  <2>2. /\ ins[p][g].seq + ins[p][g].rows <= seq[p]
        /\ \A j \in issued : j <= ins[p][g].seq \/ j > ins[p][g].seq + ins[p][g].rows
        /\ \A k \in Handlers : k # g /\ ins[p][k].step = "fill" =>
             \/ ins[p][k].seq + ins[p][k].rows <= ins[p][g].seq
             \/ ins[p][g].seq + ins[p][g].rows <= ins[p][k].seq
    BY <2>1, Zenon DEF AutoInv, Reserved
  <2>3. \A j \in Ids(ins[p][h]) : j <= ins[p][g].seq \/ j > ins[p][g].seq + ins[p][g].rows
    BY <2>1, <2>2, <1>1, <1>2, <1>4
  <2>4. \A j \in issued' : j <= ins[p][g].seq \/ j > ins[p][g].seq + ins[p][g].rows
    BY <2>2, <2>3, <1>7, Zenon
  <2>5. \A k \in Handlers : ins'[p][k].step = "fill" => ins'[p][k] = ins[p][k]
    BY <1>6, IdleType, Zenon
  <2> QED
    BY <2>1, <2>2, <2>4, <2>5, <1>1, <1>3, Zenon
<1> QED
  BY <1>5, <1>8, <1>9, <1>10, Zenon DEF AutoInv

\* One proxy never gives out an id twice: not to inserts handled at the same time
\* (the lock in Process), and not after a restart (UnixNano in AutoInit).
THEOREM OneProxyUnique == ASSUME OneProxyOnly PROVE AutoSpec => []IdsUnique
<1>1. AutoInv /\ [AutoNext]_autoVars => AutoInv'
  <2> SUFFICES ASSUME AutoInv, [AutoNext]_autoVars PROVE AutoInv'
    BY Zenon
  <2>1. CASE UNCHANGED autoVars
    BY <2>1 DEF autoVars, AutoInv, AutoTypes, Behind, Reserved
  <2>2. CASE AutoNext
    BY <2>2, TickAuto, InitPlugAuto, StopAuto, TakeAuto, FillAuto, Zenon DEF AutoNext
  <2> QED
    BY <2>1, <2>2, Zenon
<1>2. AutoInv => IdsUnique
  BY Zenon DEF AutoInv, IdsUnique
<1> QED
  BY <1>1, <1>2, InitAuto, PTL DEF AutoSpec

-----------------------------------------------------------------------------
(* The names of XA branches. *)

Used(x) == held[x] # 0 \/ log[x] # 0

\* A name in use is of an earlier second, or of this one with an id that no
\* session is about to use; after a crash it is at most of the second of that.
Past(x) ==
  /\ crashed # 0 => x[2] <= crashed
  /\ crashed = 0 => \/ x[2] < second
                    \/ /\ x[2] = second /\ x[3] <= txnid
                       /\ \A h \in Sessions : hnd[h].step = "created" => hnd[h].id # x[3]

\* A logged name is on the backend for the transaction it was logged for, if at all.
LogOwn(x) == log[x] # 0 => held[x] = 0 \/ held[x] = log[x]

\* A session that has started holds its name, and nothing is logged for it.
Holds(h) ==
  /\ hnd[h].step # "idle" => crashed = 0 /\ hnd[h].txn # 0
  /\ hnd[h].step = "created" => hnd[h].id \in 1..txnid
  /\ hnd[h].step = "started" =>
       hnd[h].xid \in Xids /\ held[hnd[h].xid] = hnd[h].txn /\ log[hnd[h].xid] = 0

Distinct(h, g) ==
  /\ hnd[h].step = "created" /\ hnd[g].step = "created" => hnd[h].id # hnd[g].id
  /\ hnd[h].step = "started" /\ hnd[g].step = "started" => hnd[h].xid # hnd[g].xid

\* The inductive invariant behind NamesApart.
IdsInv ==
  /\ XaIdsTypeOK /\ NamesApart
  /\ \A x \in Xids : (Used(x) => Past(x)) /\ LogOwn(x)
  /\ \A h \in Sessions : Holds(h)
  /\ \A h, g \in Sessions : h # g => Distinct(h, g)

\* What a name is made of.
LEMMA XidType ==
  ASSUME NEW x \in Xids
  PROVE  x[2] \in 1..MaxSecond /\ x[3] \in 0..MaxTxns /\ x = <<x[1], x[2], x[3]>>
BY DEF Xids

\* Time and restarts: what is in use stays past.
LEMMA ClockIds ==
  ASSUME IdsInv, NextSecond \/ (NewTxnManager /\ RestartTakes # 0)
  PROVE  IdsInv'
<1>1. /\ second \in 1..MaxSecond /\ crashed \in 0..second /\ txns \in 0..MaxTxns /\ txnid \in 0..txns
      /\ XaIdsAssumption
  BY XaIdsAssumption, Zenon DEF IdsInv, XaIdsTypeOK
<1>2. /\ UNCHANGED <<txns, hnd, held, log, refused, stolen>>
      /\ \/ second < MaxSecond /\ second' = second + 1 /\ crashed' = crashed /\ txnid' = txnid
         \/ /\ crashed # 0 /\ second > crashed /\ crashed' = 0 /\ txnid' = 0 /\ second' = second
            /\ \A h \in Sessions : hnd[h].step = "idle"
  BY <1>1 DEF NextSecond, NewTxnManager, XaIdsAssumption, IdsInv, Holds
<1>3. XaIdsTypeOK' /\ NamesApart'
  <2>1. second' \in 1..MaxSecond /\ crashed' \in 0..second' /\ txnid' \in 0..txns
    BY <1>1, <1>2 DEF XaIdsAssumption
  <2> QED
    BY <1>2, <2>1, Zenon DEF IdsInv, XaIdsTypeOK, NamesApart
<1>4. ASSUME NEW x \in Xids PROVE (Used(x) => Past(x))' /\ LogOwn(x)'
  <2>1. (Used(x) => Past(x)) /\ LogOwn(x) /\ (Used(x)' <=> Used(x)) /\ (LogOwn(x)' <=> LogOwn(x))
    BY <1>2, Zenon DEF IdsInv, Used, LogOwn
  <2>2. Past(x) => Past(x)'
    BY <1>1, <1>2, XidType DEF Past
  <2> QED
    BY <2>1, <2>2, Zenon
<1>5. ASSUME NEW h \in Sessions PROVE Holds(h)'
  BY <1>2, Zenon DEF IdsInv, Holds
<1>6. ASSUME NEW h \in Sessions, NEW g \in Sessions, h # g PROVE Distinct(h, g)'
  BY <1>2, <1>6, Zenon DEF IdsInv, Distinct
<1> QED
  BY <1>3, <1>4, <1>5, <1>6, Zenon DEF IdsInv

\* A new transaction gets an id above all that this process gave out.
LEMMA CreateIds ==
  ASSUME IdsInv, NEW s \in Sessions, CreateTxn(s) PROVE IdsInv'
<1> DEFINE new == [step |-> "created", id |-> txnid + 1, txn |-> txns + 1, xid |-> NoSession.xid]
<1>1. /\ second \in 1..MaxSecond /\ crashed \in 0..second /\ txns \in 0..MaxTxns /\ txnid \in 0..txns
      /\ XaIdsAssumption /\ hnd \in [Sessions -> [step : {"idle", "created", "started"}, id : 0..MaxTxns,
                                                  txn : 0..MaxTxns, xid : Xids \cup {NoSession.xid}]]
  BY XaIdsAssumption, Zenon DEF IdsInv, XaIdsTypeOK
<1>2. /\ UNCHANGED <<second, crashed, held, log, refused, stolen>>
      /\ crashed = 0 /\ txns < MaxTxns /\ txnid' = txnid + 1 /\ txns' = txns + 1
      /\ hnd' = [hnd EXCEPT ![s] = new]
  BY Zenon DEF CreateTxn, NextId
<1>3. new.step = "created" /\ new.id = txnid + 1 /\ new.txn = txns + 1
      /\ new \in [step : {"idle", "created", "started"}, id : 0..MaxTxns, txn : 0..MaxTxns,
                  xid : Xids \cup {NoSession.xid}]
  BY <1>1, <1>2, SMTT(30) DEF XaIdsAssumption
<1> HIDE DEF new
<1>4. hnd'[s] = new /\ \A h \in Sessions \ {s} : hnd'[h] = hnd[h]
  BY <1>1, <1>2, Zenon
<1>5. XaIdsTypeOK' /\ NamesApart'
  <2>1. txns' \in 0..MaxTxns /\ txnid' \in 0..txns'
    BY <1>1, <1>2 DEF XaIdsAssumption
  <2>2. hnd' \in [Sessions -> [step : {"idle", "created", "started"}, id : 0..MaxTxns,
                              txn : 0..MaxTxns, xid : Xids \cup {NoSession.xid}]]
    BY <1>1, <1>2, <1>3, Zenon
  <2> QED
    BY <1>2, <2>1, <2>2, Zenon DEF IdsInv, XaIdsTypeOK, NamesApart
<1>6. ASSUME NEW x \in Xids PROVE (Used(x) => Past(x))' /\ LogOwn(x)'
  <2>1. (Used(x) => Past(x)) /\ LogOwn(x) /\ (Used(x)' <=> Used(x)) /\ (LogOwn(x)' <=> LogOwn(x))
    BY <1>2, Zenon DEF IdsInv, Used, LogOwn
  <2>2. Past(x) => Past(x)'
    BY <1>1, <1>2, <1>3, <1>4, XidType DEF Past
  <2> QED
    BY <2>1, <2>2, Zenon
<1>7. ASSUME NEW h \in Sessions PROVE Holds(h)'
  <2>1. CASE h = s
    BY <1>1, <1>2, <1>3, <1>4, <2>1 DEF Holds
  <2>2. CASE h # s
    BY <1>1, <1>2, <1>4, <2>2 DEF IdsInv, Holds
  <2> QED
    BY <2>1, <2>2, Zenon
<1>8. ASSUME NEW h \in Sessions, NEW g \in Sessions, h # g PROVE Distinct(h, g)'
  <2>1. \A u \in Sessions : hnd[u].step = "created" => hnd[u].id # txnid + 1
    BY <1>1 DEF IdsInv, Holds
  <2>2. Distinct(h, g)
    BY <1>8, Zenon DEF IdsInv
  <2> QED
    BY <1>3, <1>4, <1>8, <2>1, <2>2, Zenon DEF Distinct
<1> QED
  BY <1>5, <1>6, <1>7, <1>8, Zenon DEF IdsInv

\* XA START takes a name that is not in use.
LEMMA StartIds ==
  ASSUME IdsInv, NEW s \in Sessions, NEW kind \in {"RXID", "MULTRXID"}, XaStart(s, kind) PROVE IdsInv'
<1> DEFINE y == <<kind, second, hnd[s].id>>
           new == [hnd[s] EXCEPT !.step = "started", !.xid = y]
           HndType == [step : {"idle", "created", "started"}, id : 0..MaxTxns, txn : 0..MaxTxns,
                       xid : Xids \cup {NoSession.xid}]
<1>1. /\ second \in 1..MaxSecond /\ crashed \in 0..second /\ txns \in 0..MaxTxns /\ txnid \in 0..txns
      /\ XaIdsAssumption /\ hnd \in [Sessions -> HndType]
      /\ held \in [Xids -> 0..MaxTxns] /\ log \in [Xids -> 0..MaxTxns]
  BY XaIdsAssumption, Zenon DEF IdsInv, XaIdsTypeOK
<1>2. /\ hnd[s].step = "created" /\ crashed = 0 /\ hnd[s].txn # 0 /\ hnd[s].id \in 1..txnid
      /\ hnd[s].txn \in 0..MaxTxns
  BY <1>1, Zenon DEF XaStart, IdsInv, Holds
<1>3. y \in Xids /\ y[2] = second /\ y[3] = hnd[s].id
  BY <1>1, <1>2, Zenon DEF Xids, XaIdsAssumption
<1>4. ~Used(y)
  <2>1. ~Past(y)
    BY <1>1, <1>2, <1>3 DEF Past
  <2> QED
    BY <1>3, <2>1, Zenon DEF IdsInv
<1>5. held[y] = 0 /\ log[y] = 0
  BY <1>4, Zenon DEF Used
<1>6. /\ UNCHANGED <<second, crashed, txnid, txns, log, stolen>> /\ (refused' <=> refused)
      /\ hnd' = [hnd EXCEPT ![s] = new] /\ held' = [held EXCEPT ![y] = hnd[s].txn]
  BY <1>5, Zenon DEF XaStart, Name
<1>7. new.step = "started" /\ new.xid = y /\ new.txn = hnd[s].txn /\ new \in HndType
  BY <1>1, <1>2, <1>3, Zenon
<1> HIDE DEF y, new
<1>8. /\ hnd'[s] = new /\ \A h \in Sessions \ {s} : hnd'[h] = hnd[h]
      /\ held'[y] = hnd[s].txn /\ \A x \in Xids \ {y} : held'[x] = held[x]
  BY <1>1, <1>3, <1>6, Zenon
<1>9. XaIdsTypeOK' /\ NamesApart'
  <2>1. hnd' \in [Sessions -> HndType] /\ held' \in [Xids -> 0..MaxTxns]
    BY <1>1, <1>2, <1>3, <1>6, <1>7, Zenon
  <2> QED
    BY <1>1, <1>6, <2>1, Zenon DEF IdsInv, XaIdsTypeOK, NamesApart
<1>10. ASSUME NEW x \in Xids PROVE (Used(x) => Past(x))' /\ LogOwn(x)'
  <2>1. CASE x = y
    <3>1. \A h \in Sessions : hnd'[h].step = "created" => hnd'[h].id # x[3]
      BY <1>2, <1>3, <1>7, <1>8, <2>1 DEF IdsInv, Distinct
    <3>2. Past(x)'
      BY <1>1, <1>2, <1>3, <1>6, <2>1, <3>1 DEF Past
    <3> QED
      BY <1>5, <1>6, <2>1, <3>2, Zenon DEF LogOwn
  <2>2. CASE x # y
    <3>1. (Used(x) => Past(x)) /\ LogOwn(x) /\ (Used(x)' <=> Used(x)) /\ (LogOwn(x)' <=> LogOwn(x))
      BY <1>6, <1>8, <2>2, Zenon DEF IdsInv, Used, LogOwn
    <3>2. Past(x) => Past(x)'
      BY <1>6, <1>7, <1>8, Zenon DEF Past
    <3> QED
      BY <3>1, <3>2, Zenon
  <2> QED
    BY <2>1, <2>2, Zenon
<1>11. ASSUME NEW h \in Sessions PROVE Holds(h)'
  <2>1. CASE h = s
    BY <1>2, <1>3, <1>5, <1>6, <1>7, <1>8, <2>1 DEF Holds
  <2>2. CASE h # s
    <3>1. Holds(h)
      BY Zenon DEF IdsInv
    <3>2. hnd[h].step = "started" => hnd[h].xid # y
      BY <1>5, <3>1, Zenon DEF Holds
    <3> QED
      BY <1>6, <1>8, <2>2, <3>1, <3>2, ZenonT(30) DEF Holds
  <2> QED
    BY <2>1, <2>2, Zenon
<1>12. ASSUME NEW h \in Sessions, NEW g \in Sessions, h # g PROVE Distinct(h, g)'
  <2>1. \A u \in Sessions : hnd[u].step = "started" => hnd[u].xid # y
    BY <1>5, Zenon DEF IdsInv, Holds
  <2>2. Distinct(h, g)
    BY <1>12, Zenon DEF IdsInv
  <2> QED
    BY <1>7, <1>8, <1>12, <2>1, <2>2 DEF Distinct
<1> QED
  BY <1>9, <1>10, <1>11, <1>12, Zenon DEF IdsInv

\* What frees names, and the sessions that held them, leaves the rest as it was.
LEMMA FreeIds ==
  ASSUME IdsInv, UNCHANGED <<second, txnid, txns>>, NamesApart',
         crashed' = crashed \/ (crashed = 0 /\ crashed' = second),
         held' \in [Xids -> 0..MaxTxns], log' \in [Xids -> 0..MaxTxns],
         hnd' \in [Sessions -> [step : {"idle", "created", "started"}, id : 0..MaxTxns,
                                txn : 0..MaxTxns, xid : Xids \cup {NoSession.xid}]],
         \A x \in Xids : held'[x] = 0 \/ held'[x] = held[x],
         \A x \in Xids : log'[x] # 0 => \/ log'[x] = log[x]
                                        \/ log'[x] = held[x],
         \A h \in Sessions :
           \/ hnd'[h].step = "idle"
           \/ hnd'[h] = hnd[h] /\ crashed' = crashed
              /\ (hnd[h].step = "started" => held'[hnd[h].xid] = held[hnd[h].xid] /\ log'[hnd[h].xid] = 0)
  PROVE  IdsInv'
<1>1. second \in 1..MaxSecond /\ crashed \in 0..second /\ MaxSecond \in Nat
  BY XaIdsAssumption, Zenon DEF IdsInv, XaIdsTypeOK, XaIdsAssumption
<1>2. XaIdsTypeOK' /\ NamesApart'
  <2>1. crashed' \in 0..second
    BY <1>1
  <2> QED
    BY <2>1, Zenon DEF IdsInv, XaIdsTypeOK
<1>3. ASSUME NEW x \in Xids PROVE (Used(x) => Past(x))' /\ LogOwn(x)'
  <2>1. (Used(x) => Past(x)) /\ LogOwn(x) /\ (Used(x)' => Used(x))
    BY Zenon DEF IdsInv, Used
  <2>2. LogOwn(x)'
    BY <2>1, Zenon DEF LogOwn
  <2>3. Past(x) => Past(x)'
    BY <1>1, XidType DEF Past
  <2> QED
    BY <2>1, <2>2, <2>3, Zenon
<1>4. ASSUME NEW h \in Sessions PROVE Holds(h)'
  BY DEF IdsInv, Holds
<1>5. ASSUME NEW h \in Sessions, NEW g \in Sessions, h # g PROVE Distinct(h, g)'
  <2>1. Distinct(h, g)
    BY <1>5, Zenon DEF IdsInv
  <2> QED
    BY <2>1, Zenon DEF Distinct
<1> QED
  BY <1>2, <1>3, <1>4, <1>5, Zenon DEF IdsInv

\* A transaction ends: its own name, and no other session's, is freed or logged.
LEMMA EndIds ==
  ASSUME IdsInv, NEW s \in Sessions, NEW done \in BOOLEAN, NEW logged \in BOOLEAN, XaEnds(s, done, logged)
  PROVE  IdsInv'
<1> DEFINE y == hnd[s].xid
           HndType == [step : {"idle", "created", "started"}, id : 0..MaxTxns, txn : 0..MaxTxns,
                       xid : Xids \cup {NoSession.xid}]
<1>1. /\ hnd \in [Sessions -> HndType] /\ held \in [Xids -> 0..MaxTxns] /\ log \in [Xids -> 0..MaxTxns]
      /\ MaxTxns \in Nat
  BY XaIdsAssumption, Zenon DEF IdsInv, XaIdsTypeOK, XaIdsAssumption
<1>2. hnd[s].step = "started" /\ y \in Xids /\ held[y] = hnd[s].txn /\ hnd[s].txn \in 0..MaxTxns
  BY <1>1, Zenon DEF XaEnds, IdsInv, Holds
<1>3. /\ hnd' = [hnd EXCEPT ![s] = NoSession] /\ UNCHANGED <<second, crashed, txnid, txns, refused, stolen>>
      /\ held' = IF done THEN [held EXCEPT ![y] = 0] ELSE held
      /\ log' = IF logged THEN [log EXCEPT ![y] = hnd[s].txn] ELSE log
  BY Zenon DEF XaEnds
<1>4. NoSession \in HndType /\ NoSession.step = "idle" /\ 0 \in 0..MaxTxns
  BY <1>1 DEF NoSession
<1> HIDE DEF y, HndType
<1>5. /\ hnd' \in [Sessions -> HndType] /\ held' \in [Xids -> 0..MaxTxns] /\ log' \in [Xids -> 0..MaxTxns]
      /\ hnd'[s].step = "idle" /\ \A h \in Sessions \ {s} : hnd'[h] = hnd[h]
  BY <1>1, <1>2, <1>3, <1>4, Zenon
<1>6. ASSUME NEW x \in Xids
      PROVE  /\ held'[x] = 0 \/ held'[x] = held[x]
             /\ log'[x] = log[x] \/ log'[x] = held[x]
             /\ x # y => held'[x] = held[x] /\ log'[x] = log[x]
  BY <1>1, <1>2, <1>3, Zenon
<1>7. \A h \in Sessions \ {s} : hnd[h].step = "started" => hnd[h].xid \in Xids \ {y} /\ log[hnd[h].xid] = 0
  BY <1>2, Zenon DEF IdsInv, Holds, Distinct, y
<1>8. \A h \in Sessions :
           \/ hnd'[h].step = "idle"
           \/ hnd'[h] = hnd[h] /\ crashed' = crashed
              /\ (hnd[h].step = "started" => held'[hnd[h].xid] = held[hnd[h].xid] /\ log'[hnd[h].xid] = 0)
  BY <1>3, <1>5, <1>6, <1>7, Zenon
<1>9. NamesApart'
  BY <1>3, Zenon DEF IdsInv, NamesApart
<1> QED
  BY <1>3, <1>5, <1>6, <1>8, <1>9, FreeIds, Zenon DEF HndType

\* A retry frees a logged name, which no session holds.
LEMMA RetryIds ==
  ASSUME IdsInv, NEW y \in Xids, Retry(y) PROVE IdsInv'
<1>1. /\ held \in [Xids -> 0..MaxTxns] /\ log \in [Xids -> 0..MaxTxns] /\ MaxTxns \in Nat
      /\ hnd \in [Sessions -> [step : {"idle", "created", "started"}, id : 0..MaxTxns,
                               txn : 0..MaxTxns, xid : Xids \cup {NoSession.xid}]]
  BY XaIdsAssumption, Zenon DEF IdsInv, XaIdsTypeOK, XaIdsAssumption
<1>2. log[y] # 0 /\ (held[y] = 0 \/ held[y] = log[y])
  BY Zenon DEF Retry, IdsInv, LogOwn
<1>3. /\ UNCHANGED <<second, crashed, txnid, txns, refused, hnd>>
      /\ held' = [held EXCEPT ![y] = 0] /\ log' = [log EXCEPT ![y] = 0]
      /\ stolen' = (stolen \/ held[y] \notin {0, log[y]})
  BY Zenon DEF Retry
<1>4. NamesApart'
  BY <1>2, <1>3, Zenon DEF IdsInv, NamesApart
<1>5. \A h \in Sessions : hnd[h].step = "started" => hnd[h].xid \in Xids \ {y} /\ log[hnd[h].xid] = 0
  BY <1>2, Zenon DEF IdsInv, Holds
<1> QED
  BY <1>1, <1>3, <1>4, <1>5, FreeIds

\* A crash ends every session, and with it branches that were not prepared.
LEMMA DieIds == ASSUME IdsInv, ProxyDies PROVE IdsInv'
<1> DEFINE HndType == [step : {"idle", "created", "started"}, id : 0..MaxTxns, txn : 0..MaxTxns,
                       xid : Xids \cup {NoSession.xid}]
<1>1. held \in [Xids -> 0..MaxTxns] /\ log \in [Xids -> 0..MaxTxns] /\ MaxTxns \in Nat
  BY XaIdsAssumption, Zenon DEF IdsInv, XaIdsTypeOK, XaIdsAssumption
<1>2. NoSession \in HndType /\ NoSession.step = "idle" /\ 0 \in 0..MaxTxns
  BY <1>1 DEF NoSession
<1> HIDE DEF HndType
<1>3. /\ UNCHANGED <<second, txnid, txns, refused, stolen, log>> /\ crashed = 0 /\ crashed' = second
      /\ hnd' = [h \in Sessions |-> NoSession]
  BY Zenon DEF ProxyDies
<1>4. held' \in [Xids -> 0..MaxTxns] /\ \A x \in Xids : held'[x] = 0 \/ held'[x] = held[x]
  <2>1. PICK gone \in SUBSET {h \in Sessions : hnd[h].step = "started"} :
          held' = [x \in Xids |-> IF \E h \in gone : hnd[h].xid = x THEN 0 ELSE held[x]]
    BY Zenon DEF ProxyDies
  <2> QED
    BY <1>1, <1>2, <2>1, Zenon
<1>5. hnd' \in [Sessions -> HndType] /\ \A h \in Sessions : hnd'[h].step = "idle"
  BY <1>2, <1>3, Zenon
<1>6. log' \in [Xids -> 0..MaxTxns] /\ NamesApart' /\ \A x \in Xids : log'[x] = log[x]
  BY <1>1, <1>3, Zenon DEF IdsInv, NamesApart
<1> QED
  BY <1>3, <1>4, <1>5, <1>6, FreeIds, Zenon DEF HndType

\* Nothing has been named.
LEMMA InitIds == ASSUME MaxSecond # 0, IdsInit PROVE IdsInv
<1>1. MaxSecond \in Nat /\ MaxTxns \in Nat
  BY XaIdsAssumption, Zenon DEF XaIdsAssumption
<1>2. NoSession.step = "idle" /\ NoSession \in [step : {"idle", "created", "started"}, id : 0..MaxTxns,
                                               txn : 0..MaxTxns, xid : Xids \cup {NoSession.xid}]
  BY <1>1 DEF NoSession
<1>3. XaIdsTypeOK
  BY <1>1, <1>2 DEF IdsInit, XaIdsTypeOK
<1>4. \A x \in Xids : held[x] = 0 /\ log[x] = 0
  BY Zenon DEF IdsInit
<1>5. \A h \in Sessions : hnd[h].step = "idle"
  BY <1>2, Zenon DEF IdsInit
<1> QED
  BY <1>3, <1>4, <1>5, Zenon DEF IdsInit, IdsInv, NamesApart, Used, LogOwn, Holds, Distinct

\* No name of a distributed transaction is used for two: whatever the number of
\* sessions, seconds, transactions and crashes, XA START is never refused for its
\* name and a retry of xacheck ends its own branch.  The restart must take a
\* second, since the ids of a new process start again (NewTxnManager, xaStart).
THEOREM NamesUnique ==
  ASSUME RestartTakes # 0, MaxSecond # 0 PROVE IdsSpec => []NamesApart
<1>1. IdsInit => IdsInv
  BY InitIds, Zenon
<1>2. IdsInv /\ [IdsNext]_idsVars => IdsInv'
  <2> SUFFICES ASSUME IdsInv, [IdsNext]_idsVars PROVE IdsInv'
    BY Zenon
  <2>1. CASE UNCHANGED idsVars
    BY <2>1, Zenon DEF idsVars, IdsInv, XaIdsTypeOK, NamesApart, Used, Past, LogOwn, Holds, Distinct
  <2>2. CASE NextSecond \/ NewTxnManager
    BY <2>2, ClockIds, Zenon
  <2> QED
    BY <2>1, <2>2, CreateIds, StartIds, EndIds, RetryIds, DieIds, Zenon DEF IdsNext
<1>3. IdsInv => NamesApart
  BY Zenon DEF IdsInv
<1> QED
  BY <1>1, <1>2, <1>3, PTL DEF IdsSpec
=============================================================================
