--------------------------- MODULE AutoIncrement ----------------------------
(***************************************************************************)
(* The plugin that fills the AUTO_INCREMENT column of a partitioned table  *)
(* (src/plugins/autoincrement): a proxy counts on from the UnixNano of its *)
(* start.  Inserts are handled at the same time; Process takes a lock for  *)
(* the two lines that touch the counter.                                   *)
(***************************************************************************)
EXTENDS Integers, FiniteSets

CONSTANTS Proxies, Handlers,   \* the connections of a proxy
          MaxRows, MaxClock, MaxIssued

ASSUME AutoIncrementAssumption == {MaxRows, MaxClock, MaxIssued} \subseteq Nat

VARIABLES clock,   \* nanoseconds
          seq,     \* proxy -> the counter; 0: not running
          ins,     \* proxy -> handler -> the insert in Process: [step, rows, seq]
          issued,  \* the ids given out
          twice    \* ids given out twice

autoVars == <<clock, seq, ins, issued, twice>>

Idle == [step |-> "idle", rows |-> 0, seq |-> 0, fill |-> FALSE]

AutoInit == /\ clock = 1 /\ seq = [p \in Proxies |-> 0] /\ issued = {} /\ twice = {}
        /\ ins = [p \in Proxies |-> [h \in Handlers |-> Idle]]

Tick == clock < MaxClock /\ clock' = clock + 1 /\ UNCHANGED <<seq, ins, issued, twice>>

\* Init
InitPlug(p) == /\ seq[p] = 0 /\ seq' = [seq EXCEPT ![p] = clock]
               /\ UNCHANGED <<clock, ins, issued, twice>>

\* The proxy stops or dies.
Stop(p) == /\ seq[p] # 0 /\ seq' = [seq EXCEPT ![p] = 0]
           /\ ins' = [ins EXCEPT ![p] = [h \in Handlers |-> Idle]]
           /\ UNCHANGED <<clock, issued, twice>>

\* An INSERT of n rows; fill: the table has such a column and the statement does
\* not give it.  A nanosecond is shorter than an insert: the counter stays behind
\* the clock.
TakeRange(p, h, n, fill) ==
  /\ seq[p] # 0 /\ ins[p][h] = Idle /\ seq[p] + n <= clock /\ Cardinality(issued) + n <= MaxIssued
  /\ ins' = [ins EXCEPT ![p][h] = [step |-> "fill", rows |-> n, seq |-> seq[p], fill |-> fill]]
  /\ seq' = [seq EXCEPT ![p] = @ + n]
  /\ UNCHANGED <<clock, issued, twice>>

\* Mutant: one id too many.
IdsFromSeq(i) == i.seq..(i.seq + i.rows)

\* modifyForAutoinc
Ids(i) == (i.seq + 1)..(i.seq + i.rows)

Fill(p, h) ==
  /\ ins[p][h].step = "fill"
  /\ ins' = [ins EXCEPT ![p][h] = Idle]
  /\ IF ins[p][h].fill
     THEN issued' = issued \cup Ids(ins[p][h]) /\ twice' = twice \cup (issued \cap Ids(ins[p][h]))
     ELSE UNCHANGED <<issued, twice>>
  /\ UNCHANGED <<clock, seq>>

AutoNext == \/ Tick
        \/ \E p \in Proxies : \/ InitPlug(p) \/ Stop(p)
                              \/ \E h \in Handlers : \/ Fill(p, h)
                                                     \/ \E n \in 1..MaxRows, f \in BOOLEAN : TakeRange(p, h, n, f)

AutoSpec == AutoInit /\ [][AutoNext]_autoVars

AutoTypeOK == /\ clock \in 1..MaxClock /\ issued \subseteq 1..MaxClock
              /\ \A p \in Proxies : seq[p] \in 0..clock

\* No id is given out twice, by concurrent inserts or after a restart (Process, Init).
IdsUnique == twice = {}

=============================================================================
