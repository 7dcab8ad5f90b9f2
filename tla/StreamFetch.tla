----------------------------- MODULE StreamFetch ----------------------------
(***************************************************************************)
(* Txn.ExecuteStreamFetch: a SELECT whose rows go from the cursors of the  *)
(* shards to the client without being collected.  One goroutine per query  *)
(* asks for a cursor; then one producer per cursor and one consumer share  *)
(* a channel.  Rows are counted, their values play no part.                *)
(***************************************************************************)
EXTENDS Integers, FiniteSets

CONSTANTS Querys,      \* 1..n, in the order of the request
          RowsOf,      \* query -> rows of its result
          ChanSize,    \* of the channel (65536)
          BufferRows,  \* rows that fill the stream buffer
          FetchFails,  \* a backend gives no connection
          Breaks       \* a backend breaks off in the middle of a result

ASSUME StreamAssumption == /\ IsFiniteSet(Querys) /\ Querys = 1..Cardinality(Querys) /\ Querys # {}
                           /\ RowsOf \in [Querys -> Nat] /\ {ChanSize, BufferRows} \subseteq Nat \ {0}
                           /\ {FetchFails, Breaks} \subseteq BOOLEAN

VARIABLES main,     \* [step, next, answer] of the caller
          shard,    \* query -> none, asking, cursor, failed, closed
          left,     \* query -> rows still to read
          prod,     \* query -> none, next, holds, ended, failed
          cons,     \* none, runs, ended, failed
          rows,     \* the channel: [n, finished, closed]
          stop,     \* the channel stop is closed
          out,      \* [buffer, sent]
          recycled  \* Finish has put the connections back

streamVars == <<main, shard, left, prod, cons, rows, stop, out, recycled>>

StreamInit ==
  /\ main = [step |-> "fetch", next |-> 1, answer |-> "none"]
  /\ shard = [q \in Querys |-> "none"] /\ left = RowsOf
  /\ prod = [q \in Querys |-> "none"] /\ cons = "none"
  /\ rows = [n |-> 0, finished |-> 0, closed |-> FALSE] /\ stop = FALSE
  /\ out = [buffer |-> 0, sent |-> 0] /\ recycled = FALSE

\* The deferred Close drains the cursors of this moment; then the caller's Finish
\* puts every connection back: a failed stream is not counted as an error.
Return(answer) ==
  /\ main' = [main EXCEPT !.step = "returned", !.answer = answer]
  /\ shard' = [q \in Querys |-> IF shard[q] = "cursor" THEN "closed" ELSE shard[q]]
  /\ recycled' = TRUE
  /\ UNCHANGED <<left, prod, cons, rows, stop, out>>

FetchConnection ==
  /\ main.step = "fetch" /\ main.next \in Querys
  /\ main' = [main EXCEPT !.next = @ + 1]
  /\ shard' = [shard EXCEPT ![main.next] = "asking"]
  /\ UNCHANGED <<left, prod, cons, rows, stop, out, recycled>>

FetchConnectionFails == FetchFails /\ main.step = "fetch" /\ main.next \in Querys /\ Return("error")

\* oneShard
Asked(q, res) == /\ shard[q] = "asking" /\ shard' = [shard EXCEPT ![q] = res]
                 /\ UNCHANGED <<main, left, prod, cons, rows, stop, out, recycled>>

\* Mutant: the first error returns at once.
WaitShardsFirst ==
  /\ main.step = "fetch" /\ main.next \notin Querys
  /\ IF \E q \in Querys : shard[q] = "failed"
     THEN Return("error")
     ELSE /\ \A q \in Querys : shard[q] # "asking"
          /\ main' = [main EXCEPT !.step = "fields"]
          /\ UNCHANGED <<shard, left, prod, cons, rows, stop, out, recycled>>

WaitShards ==
  /\ main.step = "fetch" /\ main.next \notin Querys /\ \A q \in Querys : shard[q] # "asking"
  /\ IF \E q \in Querys : shard[q] = "failed"
     THEN Return("error")
     ELSE /\ main' = [main EXCEPT !.step = "fields"]
          /\ UNCHANGED <<shard, left, prod, cons, rows, stop, out, recycled>>

\* The fields go to the client, the goroutines start.
SendFields(ok) ==
  /\ main.step = "fields"
  /\ IF ok
     THEN /\ main' = [main EXCEPT !.step = "rows"]
          /\ prod' = [q \in Querys |-> "next"] /\ cons' = "runs"
          /\ UNCHANGED <<shard, left, rows, stop, out, recycled>>
     ELSE Return("error")

-----------------------------------------------------------------------------
\* Mutant: the first producer closes the channel.
FinishedEarly(q, how) ==
  /\ prod' = [prod EXCEPT ![q] = how]
  /\ rows' = [rows EXCEPT !.finished = @ + 1, !.closed = TRUE]

\* cursorFinished++, and the last one closes the channel.
Finished(q, how) ==
  /\ prod' = [prod EXCEPT ![q] = how]
  /\ rows' = [n |-> rows.n, finished |-> rows.finished + 1, closed |-> rows.finished + 1 = Cardinality(Querys)]

\* cursor.Next and RowValues
NextRow(q, ok) ==
  /\ prod[q] = "next" /\ left[q] > 0
  /\ left' = [left EXCEPT ![q] = @ - 1]
  /\ IF ok THEN prod' = [prod EXCEPT ![q] = "holds"] /\ UNCHANGED rows ELSE Finished(q, "failed")
  /\ UNCHANGED <<main, shard, cons, stop, out, recycled>>

\* cursor.Next is false at the end of the rows, and when the backend has broken off.
NoRow(q) ==
  /\ prod[q] = "next" /\ (left[q] = 0 \/ Breaks)
  /\ Finished(q, "ended")
  /\ UNCHANGED <<main, shard, left, cons, stop, out, recycled>>

Push(q) ==
  /\ prod[q] = "holds" /\ rows.n < ChanSize
  /\ prod' = [prod EXCEPT ![q] = "next"]
  /\ rows' = [rows EXCEPT !.n = @ + 1]
  /\ UNCHANGED <<main, shard, left, cons, stop, out, recycled>>

\* Mutant: a blocked producer does not see the stop.
StoppedLater(q) ==
  /\ prod[q] = "next" /\ stop
  /\ prod' = [prod EXCEPT ![q] = "ended"]
  /\ UNCHANGED <<main, shard, left, cons, rows, stop, out, recycled>>

Stopped(q) ==
  /\ prod[q] = "holds" /\ stop
  /\ prod' = [prod EXCEPT ![q] = "ended"]
  /\ UNCHANGED <<main, shard, left, cons, rows, stop, out, recycled>>

-----------------------------------------------------------------------------
Callback(n, ok, then) ==
  IF ok THEN out' = [buffer |-> 0, sent |-> out.sent + n] /\ cons' = then /\ stop' = (then = "ended")
        ELSE UNCHANGED out /\ cons' = "failed" /\ stop' = TRUE

Consume(ok) ==
  /\ cons = "runs" /\ rows.n > 0
  /\ rows' = [rows EXCEPT !.n = @ - 1]
  /\ IF out.buffer + 1 >= BufferRows
     THEN Callback(out.buffer + 1, ok, "runs")
     ELSE out' = [out EXCEPT !.buffer = @ + 1] /\ UNCHANGED <<cons, stop>>
  /\ UNCHANGED <<main, shard, left, prod, recycled>>

\* The channel is closed and empty: what is left in the buffer goes out.
ConsumeEnd(ok) ==
  /\ cons = "runs" /\ rows.n = 0 /\ rows.closed
  /\ Callback(out.buffer, ok \/ out.buffer = 0, "ended")
  /\ UNCHANGED <<main, shard, left, prod, rows, recycled>>

ProducersDone == \A q \in Querys : prod[q] \in {"ended", "failed"}

WaitRows(ok) ==
  /\ main.step = "rows" /\ ProducersDone /\ cons \in {"ended", "failed"}
  /\ Return(IF ok /\ cons = "ended" /\ \A q \in Querys : prod[q] = "ended" THEN "finished" ELSE "error")

StreamNext ==
  \/ FetchConnection \/ FetchConnectionFails \/ WaitShards
  \/ \E ok \in BOOLEAN : SendFields(ok) \/ Consume(ok) \/ ConsumeEnd(ok) \/ WaitRows(ok)
  \/ \E q \in Querys : \/ \E res \in {"cursor", "failed"} : Asked(q, res)
                       \/ \E ok \in BOOLEAN : NextRow(q, ok)
                       \/ NoRow(q) \/ Push(q) \/ Stopped(q)

StreamSpec == StreamInit /\ [][StreamNext]_streamVars

\* Every goroutine goes on while it can, and a backend answers.
StreamFairness ==
  /\ WF_streamVars(FetchConnection \/ WaitShards \/ \E ok \in BOOLEAN : SendFields(ok) \/ WaitRows(ok))
  /\ WF_streamVars(\E ok \in BOOLEAN : Consume(ok) \/ ConsumeEnd(ok))
  /\ \A q \in Querys :
       WF_streamVars((\E res \in {"cursor", "failed"} : Asked(q, res)) \/ (\E ok \in BOOLEAN : NextRow(q, ok))
                     \/ NoRow(q) \/ Push(q) \/ Stopped(q))
StreamFairSpec == StreamSpec /\ StreamFairness

-----------------------------------------------------------------------------
StreamTypeOK ==
  /\ rows.n \in 0..ChanSize /\ rows.finished \in 0..Cardinality(Querys)
  /\ out.buffer \in 0..(BufferRows - 1) /\ \A q \in Querys : left[q] \in 0..RowsOf[q]

\* No producer has a row to send when the channel is closed: that send would bring
\* the proxy down (oneFetch).
NoSendAfterClose == rows.closed => \A q \in Querys : prod[q] \in {"ended", "failed"}

Total[k \in Nat] == IF k = 0 THEN 0 ELSE Total[k - 1] + RowsOf[k]

\* A stream that ends without an error has sent every row of every shard.
FinishedIsComplete == main.answer = "finished" => out.sent = Total[Cardinality(Querys)]

\* The connections go back to the pool with no query running on them and no
\* rows to be read from them (ExecuteStreamFetch, Finish).
RecycledIdle == recycled => \A q \in Querys : shard[q] \notin {"asking", "cursor"}

\* The call returns, whether the client goes on reading or not.
StreamReturns == (main.step = "fetch") ~> (main.step = "returned")

=============================================================================
