------------------------------- MODULE AdminXa ------------------------------
(***************************************************************************)
(* NEODB XA COMMIT and NEODB XA ROLLBACK (proxy/admin_xa.go), by one or    *)
(* more administrators: XA RECOVER on one backend, then XA COMMIT or XA    *)
(* ROLLBACK on all of them, a goroutine for each, for the first            *)
(* transaction found that is older than an hour.  An hour has Hour         *)
(* minutes, a day Day hours; the time is written in decimal, as in         *)
(* 20060102150405, and the numbers are subtracted.                         *)
(***************************************************************************)
EXTENDS Integers, FiniteSets

CONSTANTS Backends, Xids, NoXid, Admins, Hour, Day, MaxTime, MaxFaults

AdminXaAssumption == /\ {Hour, Day, MaxTime} \subseteq Nat \ {0} /\ Hour <= 10 /\ Day <= 10
                     /\ MaxFaults \in Nat /\ NoXid \notin Xids

VARIABLES now,     \* minutes
          since,   \* xid -> time in its name; 0: not used yet
          branch,  \* xid -> backend -> none, prepared, committed, rolledback
          call,    \* administrator -> the call that runs, or the last one
          faults   \* commands and replies lost so far

vars == <<now, since, branch, call, faults>>

NoCall == [op |-> "none", xid |-> NoXid, at |-> 0, left |-> {}, failed |-> FALSE, broken |-> FALSE,
           answer |-> "none"]

Init == /\ now = 1 /\ since = [x \in Xids |-> 0]
        /\ branch = [x \in Xids |-> [b \in Backends |-> "none"]]
        /\ call = [a \in Admins |-> NoCall] /\ faults = 0

Tick == now < MaxTime /\ now' = now + 1 /\ UNCHANGED <<since, branch, call, faults>>

\* A transaction over the backends bs is prepared (XaCommit).
Prepare(x, bs) ==
  /\ since[x] = 0 /\ since' = [since EXCEPT ![x] = now]
  /\ branch' = [branch EXCEPT ![x] = [b \in Backends |-> IF b \in bs THEN "prepared" ELSE "none"]]
  /\ UNCHANGED <<now, call, faults>>

\* The proxy commits a branch of it; one that dies in between leaves the others.
CommitBranch(x, b) ==
  /\ branch[x][b] = "prepared"
  /\ branch' = [branch EXCEPT ![x][b] = "committed"]
  /\ UNCHANGED <<now, since, call, faults>>

-----------------------------------------------------------------------------
DayOf(t) == t \div (Hour * Day)

\* day, hour and minute as decimal digits
Written(t) == 100 * DayOf(t) + 10 * ((t \div Hour) % Day) + (t % Hour)

IntervalToNow == 10

IsOld(x) == Written(now) - Written(since[x]) > IntervalToNow

Prepared(b) == {x \in Xids : branch[x][b] = "prepared"}

Idle(a) == call[a].answer # "running"

Answered(a, op, answer) == call' = [call EXCEPT ![a] = [NoCall EXCEPT !.op = op, !.answer = answer]]

\* ExecuteSingle: XA RECOVER is sent to the backend r and may fail.  The first
\* old transaction in its answer, whose order is any, is the one to be ended.
CommitRollback(a, op, r) ==
  /\ Idle(a)
  /\ \/ /\ faults < MaxFaults /\ faults' = faults + 1
        /\ Answered(a, op, "error")
     \/ /\ \A x \in Prepared(r) : ~IsOld(x)
        /\ Answered(a, op, "ok") /\ UNCHANGED faults
     \/ \E x \in Prepared(r) :
          /\ IsOld(x)
          /\ call' = [call EXCEPT ![a] = [NoCall EXCEPT !.op = op, !.xid = x, !.at = now,
                                                        !.left = Backends, !.answer = "running"]]
          /\ UNCHANGED faults
  /\ UNCHANGED <<now, since, branch>>

\* Mutant: the error of the first goroutine that returns is the one that counts.
FailedFirst(a, err) == IF call[a].left = Backends THEN err ELSE call[a].failed

\* What the errgroup keeps of a goroutine's error.
Failed(a, err) == call[a].failed \/ err

\* A goroutine returns; the errors of the others do not keep it from its work.
Shard(a, b, err, lost) ==
  /\ b \in call[a].left
  /\ call' = [call EXCEPT ![a].left = @ \ {b}, ![a].failed = Failed(a, err), ![a].broken = @ \/ lost]

\* oneShard of ExecuteScatter on the backend b: a branch that is there is ended;
\* one that is not, or that is ended already, is an error.
EndBranch(a, b) ==
  LET x == call[a].xid
      there == branch[x][b] = "prepared"
  IN /\ ~Idle(a)
     /\ Shard(a, b, ~there, FALSE)
     /\ branch' = IF there THEN [branch EXCEPT ![x][b] = call[a].op] ELSE branch
     /\ UNCHANGED <<now, since, faults>>

\* No connection, or a command that is refused or lost: nothing is done; or only
\* the reply is lost.
ShardFails(a, b) ==
  LET x == call[a].xid
  IN /\ ~Idle(a) /\ faults < MaxFaults /\ faults' = faults + 1
     /\ Shard(a, b, TRUE, TRUE)
     /\ \/ UNCHANGED branch
        \/ /\ branch[x][b] = "prepared"
           /\ branch' = [branch EXCEPT ![x][b] = call[a].op]
     /\ UNCHANGED <<now, since>>

\* Wait returns; the call answers.
Return(a) ==
  /\ ~Idle(a) /\ call[a].left = {}
  /\ call' = [call EXCEPT ![a].answer = IF call[a].failed THEN "error" ELSE "ok"]
  /\ UNCHANGED <<now, since, branch, faults>>

Next == \/ Tick
        \/ \E x \in Xids : \/ \E bs \in (SUBSET Backends) \ {{}} : Prepare(x, bs)
                           \/ \E b \in Backends : CommitBranch(x, b)
        \/ \E a \in Admins :
             \/ \E op \in {"committed", "rolledback"}, r \in Backends : CommitRollback(a, op, r)
             \/ \E b \in Backends : EndBranch(a, b) \/ ShardFails(a, b)
             \/ Return(a)

Spec == Init /\ [][Next]_vars

-----------------------------------------------------------------------------
AdminXaTypeOK == /\ now \in 1..MaxTime /\ faults \in 0..MaxFaults
                 /\ \A a \in Admins : call[a].left \subseteq Backends /\ call[a].xid \in Xids \cup {NoXid}
                 /\ \A x \in Xids : since[x] = 0 => \A b \in Backends : branch[x][b] = "none"

Ended(a) == call[a].xid # NoXid /\ Idle(a)

\* A call that answers without an error has ended its transaction, in the way it
\* was asked to, on every backend, whatever another administrator or the proxy
\* did to the branches meanwhile and whichever replies were lost (Commit,
\* Rollback, ExecuteScatter).
OkEndsAlike == \A a \in Admins : Ended(a) /\ call[a].answer = "ok" =>
                 \A b \in Backends : branch[call[a].xid][b] = call[a].op

\* A call none of whose commands and replies was lost leaves no branch of its
\* transaction prepared, also when it answers with the error of a backend that
\* had none (ExecuteScatter does not stop at an error).
NoneLeftPrepared == \A a \in Admins : Ended(a) /\ ~call[a].broken =>
                      \A b \in Backends : branch[call[a].xid][b] # "prepared"

\* A transaction younger than an hour, which its proxy may still be working on, is
\* left alone, unless midnight has passed since it began (Commit, Rollback).
YoungLeftAlone == \A a \in Admins : call[a].xid # NoXid =>
                    LET s == since[call[a].xid]
                    IN call[a].at - s > Hour \/ DayOf(call[a].at) # DayOf(s)

\* A transaction younger than an hour is left alone.
\* NOT KEPT by the code: see "Known disagreements" in the README.
YoungAlwaysLeftAlone == \A a \in Admins : call[a].xid # NoXid => call[a].at - since[call[a].xid] > Hour

\* A call that answers without an error has ended every transaction older than an
\* hour.
\* NOT KEPT by the code: see "Known disagreements" in the README.
OkEndsAll == [][\A a \in Admins : call'[a] # call[a] /\ call'[a].answer = "ok" =>
                  \A x \in Xids, b \in Backends : branch'[x][b] = "prepared" => now - since[x] <= Hour]_vars

=============================================================================
