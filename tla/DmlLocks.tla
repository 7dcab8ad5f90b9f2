------------------------------ MODULE DmlLocks ------------------------------
(***************************************************************************)
(* Statements that write several partitions at the same time: InsertPlan   *)
(* sorts the partitions, UpdatePlan and DeletePlan keep the order of the   *)
(* segments that the WHERE clause gave, Txn.execute sends the queries of   *)
(* every backend one after the other, the backends at the same time, and   *)
(* the locks are held until all backends have committed or rolled back.  A *)
(* partition stands for the rows in it that the statements have in common. *)
(***************************************************************************)
EXTENDS Integers, Sequences, FiniteSets, SequencesExt

CONSTANTS Clients, Backends,
          Parts,       \* the partition tables, by name: 1..n
          BackendOf,   \* partition -> backend
          Wants,       \* client -> the partitions of its statement
          Inserters,     \* the clients whose statement is an INSERT
          Nobody

ASSUME DmlLocksAssumption ==
  /\ IsFiniteSet(Parts) /\ Parts = 1..Cardinality(Parts) /\ Nobody \notin Clients
  /\ BackendOf \in [Parts -> Backends] /\ Wants \in [Clients -> SUBSET Parts]
  /\ Inserters \subseteq Clients

VARIABLES queue,   \* client -> backend -> the queries still to run
          holder,  \* partition -> the client that has its lock
          failed,  \* client -> one of its queries has failed
          done     \* clients that have their answer

locksVars == <<queue, holder, failed, done>>

On(c, b) == {p \in Wants[c] : BackendOf[p] = b}

InOrder(q) == \A i, j \in DOMAIN q : i < j => q[i] < q[j]

\* Mutant: InsertPlan goes over its map of partition tables as it comes.
QuerysAtUnsorted(c, b) == SetToSeqs(On(c, b))

\* The queries of a backend, in the order of the plan: an INSERT is sorted, the
\* segments of an UPDATE or a DELETE come in the order of an IN list.
QuerysAt(c, b) == {q \in SetToSeqs(On(c, b)) : c \in Inserters => InOrder(q)}

AllQuerys == UNION {QuerysAt(c, b) : c \in Clients, b \in Backends}

LocksInit ==
  /\ queue \in [Clients -> [Backends -> AllQuerys]]
  /\ \A c \in Clients, b \in Backends : queue[c][b] \in QuerysAt(c, b)
  /\ holder = [p \in Parts |-> Nobody]
  /\ failed = [c \in Clients |-> FALSE] /\ done = {}

\* oneShard: the next query gets its lock and is done.
Query(c, b) ==
  /\ queue[c][b] # <<>>
  /\ holder[Head(queue[c][b])] = Nobody
  /\ holder' = [holder EXCEPT ![Head(queue[c][b])] = c]
  /\ queue' = [queue EXCEPT ![c][b] = Tail(@)]
  /\ UNCHANGED <<failed, done>>

Blocked(c, b) == queue[c][b] # <<>> /\ holder[Head(queue[c][b])] # Nobody

\* Mutant: no lock wait timeout.
TimeoutNever(c, b) == FALSE /\ UNCHANGED locksVars

\* QueryTimeout: the connection of a query that waits for too long is killed, and
\* the backend gives up what the connection had locked.
Timeout(c, b) ==
  /\ Blocked(c, b)
  /\ queue' = [queue EXCEPT ![c][b] = <<>>]
  /\ failed' = [failed EXCEPT ![c] = TRUE]
  /\ holder' = [p \in Parts |-> IF holder[p] = c /\ BackendOf[p] = b THEN Nobody ELSE holder[p]]
  /\ UNCHANGED done

\* All backends have answered: commit, or roll back.
End(c) ==
  /\ c \notin done /\ \A b \in Backends : queue[c][b] = <<>>
  /\ done' = done \cup {c}
  /\ holder' = [p \in Parts |-> IF holder[p] = c THEN Nobody ELSE holder[p]]
  /\ UNCHANGED <<queue, failed>>

LocksNext == \E c \in Clients : End(c) \/ \E b \in Backends : Query(c, b) \/ Timeout(c, b)

LocksSpec == LocksInit /\ [][LocksNext]_locksVars

\* A query runs when it can, a timer fires, and an answered statement ends.
LocksFairness == \A c \in Clients : /\ WF_locksVars(End(c))
                                    /\ \A b \in Backends : WF_locksVars(Query(c, b) \/ Timeout(c, b))
LocksFairSpec == LocksSpec /\ LocksFairness

-----------------------------------------------------------------------------
DmlLocksTypeOK == /\ holder \in [Parts -> Clients \cup {Nobody}] /\ done \subseteq Clients
                  /\ \A p \in Parts : holder[p] \notin done
                  /\ \A c \in Clients : ~failed[c] /\ c \notin done =>
                        \A p \in Wants[c] : holder[p] = c \/ p \in ToSet(queue[c][BackendOf[p]])

WaitsAt(c, d, b) == Blocked(c, b) /\ holder[Head(queue[c][b])] = d

NoCircle(s, B) == \E c \in s : \A d \in s, b \in B : ~WaitsAt(c, d, b)

\* On one backend INSERTs never wait for one another in a circle, whatever other
\* statements run beside them: their queries are sorted by partition table
\* (InsertPlan.Build, Txn.execute).
NoDeadlockOnBackend ==
  \A b \in Backends : \A s \in (SUBSET Inserters) \ {{}} : NoCircle(s, {b})

\* "sorts SQL by partitionTable in increasing order to avoid deadlock", for all
\* statements that write.
\* NOT KEPT by the code: see "Known disagreements" in the README.
NoDeadlockOfWrites ==
  \A b \in Backends : \A s \in (SUBSET Clients) \ {{}} : NoCircle(s, {b})

\* The same for INSERTs, on the backends together.
\* NOT KEPT by the code: see "Known disagreements" in the README.
NoDeadlock == \A s \in (SUBSET Inserters) \ {{}} : NoCircle(s, Backends)

\* Every statement gets an answer, if need be the one of the timeout.
AllAnswered == <>(done = Clients)

=============================================================================
