----------------------------- MODULE ShiftPool -----------------------------
(***************************************************************************)
(* The blocking connection pool of tools/shift/shift/pool.go: a buffered   *)
(* channel of connections, a mutex, and a counting semaphore that makes    *)
(* sure a Get never waits on the channel while it holds the mutex.         *)
(***************************************************************************)
EXTENDS Naturals, FiniteSets

CONSTANTS Users,      \* the goroutines that use the pool
          Cap,        \* its capacity
          MaxGets,    \* bound on the Gets of all users together
          MaxSPoolFaults   \* bound on reconnects that fail

ASSUME ShiftPoolAssumption ==
  /\ IsFiniteSet(Users) /\ Cap \in Nat /\ MaxGets \in Nat /\ MaxSPoolFaults \in Nat

VARIABLES
  conns,     \* connections in the channel
  slots,    \* free slots of the semaphore
  nilled,   \* p.conns is nil and p.closed is set
  upc,       \* where each user is
  gets, spoolFaults

spoolVars == <<conns, slots, nilled, upc, gets, spoolFaults>>

ShiftPoolTypeOK ==
  /\ conns \in 0..Cap /\ slots \in 0..Cap /\ nilled \in BOOLEAN
  /\ upc \in [Users -> {"out", "acquire", "lock", "check", "hold", "nil"}]
  /\ gets \in 0..MaxGets /\ spoolFaults \in 0..MaxSPoolFaults

\* NewPool connects every connection before the pool is used.
SPoolInit ==
  /\ conns = Cap /\ slots = Cap /\ nilled = FALSE
  /\ upc = [u \in Users |-> "out"] /\ gets = 0 /\ spoolFaults = 0

UserAt(u, a) == upc[u] = a
UserMove(u, a, b) == UserAt(u, a) /\ upc' = [upc EXCEPT ![u] = b]

PoolGet(u) ==
  /\ gets < MaxGets /\ gets' = gets + 1 /\ UserMove(u, "out", "acquire")
  /\ UNCHANGED <<conns, slots, nilled, spoolFaults>>

\* sem.Acquire has no timeout here.
PoolAcquire(u) ==
  /\ slots > 0 /\ slots' = slots - 1 /\ UserMove(u, "acquire", "lock")
  /\ UNCHANGED <<conns, nilled, gets, spoolFaults>>

\* Under the mutex: nil from a closed pool, else a connection.  The receive
\* blocks with the mutex held if the channel is empty.
PoolTake(u) ==
  /\ IF nilled THEN UserMove(u, "lock", "nil") /\ UNCHANGED conns
     ELSE conns > 0 /\ UserMove(u, "lock", "check") /\ conns' = conns - 1
  /\ UNCHANGED <<slots, nilled, gets, spoolFaults>>

\* The connection is fresh, answers the ping, or is replaced.
Usable(u) ==
  /\ UserMove(u, "check", "hold") /\ UNCHANGED <<conns, slots, nilled, gets, spoolFaults>>

\* The reconnect fails: Get returns nil and keeps the slot.
ReconnectFails(u) ==
  /\ spoolFaults < MaxSPoolFaults /\ spoolFaults' = spoolFaults + 1 /\ UserMove(u, "check", "nil")
  /\ UNCHANGED <<conns, slots, nilled, gets>>

\* Put returns connection and slot; a closed pool closes the connection and
\* keeps the slot.
Put(u) ==
  /\ UserMove(u, "hold", "out")
  /\ IF nilled THEN UNCHANGED <<conns, slots>> ELSE conns' = conns + 1 /\ slots' = slots + 1
  /\ UNCHANGED <<nilled, gets, spoolFaults>>

\* The callers that got nil report an error; Put(nil) changes nothing.
PutNil(u) ==
  /\ UserMove(u, "nil", "out") /\ UNCHANGED <<conns, slots, nilled, gets, spoolFaults>>

PoolClose ==
  /\ ~nilled /\ nilled' = TRUE /\ conns' = 0
  /\ UNCHANGED <<slots, upc, gets, spoolFaults>>

SPoolNext ==
  \/ \E u \in Users : PoolGet(u) \/ PoolAcquire(u) \/ PoolTake(u) \/ Usable(u)
                      \/ ReconnectFails(u) \/ Put(u) \/ PutNil(u)
  \/ PoolClose

UserStep(u) == PoolAcquire(u) \/ PoolTake(u) \/ Usable(u) \/ ReconnectFails(u) \/ Put(u) \/ PutNil(u)

SPoolSpec == SPoolInit /\ [][SPoolNext]_spoolVars

\* A holder of a connection puts it back, a semaphore slot goes to every waiter.
SPoolFairness == \A u \in Users : WF_spoolVars(UserStep(u)) /\ SF_spoolVars(PoolAcquire(u))
SPoolFairSpec == SPoolSpec /\ SPoolFairness

----------------------------------------------------------------------------

InHand(p) == Cardinality({u \in Users : upc[u] \in p})

\* A Get never blocks on the channel while it holds the mutex ("before get a
\* conn from pool, we should make sure the pool is not empty").
NeverStuck == ~nilled => InHand({"lock"}) <= conns

\* Nor does a Put: the channel has room for every connection in use.
PutNeverBlocks == ~nilled => conns + InHand({"check", "hold"}) <= Cap

\* The slots nobody will release: those of Gets that returned nil, and of
\* connections that were put back after Close.
LostSlots == Cap - slots - InHand({"lock", "check", "hold"})

\* Every Get returns, with a connection or with nil, also while the pool is
\* closed and when reconnects fail, unless all slots of the semaphore have been
\* lost by then (Get, Put).
GetReturns == \A u \in Users : UserAt(u, "acquire") ~> (upc[u] \in {"hold", "nil"} \/ LostSlots = Cap)

\* Every Get returns.
\* NOT KEPT by the code: see "Known disagreements" in the README.
GetAlwaysReturns == \A u \in Users : UserAt(u, "acquire") ~> upc[u] \in {"hold", "nil"}
=============================================================================
