------------------------------ MODULE MCTxnLife -----------------------------
(***************************************************************************)
(* A session, its transactions and what ends them (TxnLife): single        *)
(* statements and a KILL, single statements while the proxy shuts down and *)
(* the client goes, transactions of several statements and a KILL, and     *)
(* transactions with failures of the backends that only the client ends.   *)
(* LiveSpec has smaller ones for what must happen: the idle transaction    *)
(* manager, failures, and a shutdown, under fair scheduling.               *)
(***************************************************************************)
EXTENDS TxnLife

VARIABLE part   \* which one runs

\* "faulty" and "idle" are TxnLife itself, with the constants of the model.
Alone == INSTANCE TxnLife WITH
  Stmts <- {"dml", "union", "ddl"}, Killers <- {"kill"}, MaxStmts <- 1,
  MaxCloses <- 2, MaxFaults <- 0
Closing == INSTANCE TxnLife WITH
  Stmts <- {"dml", "ddl"}, Killers <- {"shutdown", "exit"}, MaxStmts <- 1,
  MaxCloses <- 2, MaxFaults <- 0
Several == INSTANCE TxnLife WITH
  Stmts <- {"dml", "begin", "commit"}, Killers <- {"kill"}, MaxStmts <- 3,
  MaxCloses <- 2, MaxFaults <- 0
Failing == INSTANCE TxnLife WITH
  Stmts <- {"dml", "begin", "commit"}, Killers <- {}, MaxStmts <- 3,
  MaxCloses <- 2, MaxFaults <- 1
Shutdown == INSTANCE TxnLife WITH
  Stmts <- {"dml", "begin"}, Killers <- {"shutdown"}, MaxStmts <- 1,
  MaxCloses <- 1, MaxFaults <- 0

ASSUME /\ Alone!LifeAssumption /\ Closing!LifeAssumption
       /\ Several!LifeAssumption /\ Failing!LifeAssumption
       /\ Shutdown!LifeAssumption

MCInit ==
  /\ part \in {"single", "closing", "several", "faulty"}
  /\ \/ part = "single" /\ Alone!LifeInit
     \/ part = "closing" /\ Closing!LifeInit
     \/ part = "several" /\ Several!LifeInit
     \/ part = "faulty" /\ LifeInit

AloneStep == part = "single" /\ Alone!LifeNext /\ UNCHANGED part
ClosingStep == part = "closing" /\ Closing!LifeNext /\ UNCHANGED part
SeveralStep == part = "several" /\ Several!LifeNext /\ UNCHANGED part
FaultyStep == part = "faulty" /\ LifeNext /\ UNCHANGED part

MCNext == AloneStep \/ ClosingStep \/ SeveralStep \/ FaultyStep

MCvars == <<part, lifeVars>>
MCSpec == MCInit /\ [][MCNext]_MCvars

LiveInit ==
  \/ part = "idle" /\ LifeInit
  \/ part = "failing" /\ Failing!LifeInit
  \/ part = "shutdown" /\ Shutdown!LifeInit

IdleStep == part = "idle" /\ LifeNext /\ UNCHANGED part
FailingStep == part = "failing" /\ Failing!LifeNext /\ UNCHANGED part
ShutdownStep == part = "shutdown" /\ Shutdown!LifeNext /\ UNCHANGED part

LiveNext == IdleStep \/ FailingStep \/ ShutdownStep

\* The fairness of TxnLife, for the killers of each one; they share their
\* variables, so that it is asked of the one that runs.
LiveFairness ==
  /\ WF_lifeVars(part = "idle" /\ SessionStep)
  /\ WF_lifeVars(part = "idle" /\ TimePasses)
  /\ WF_lifeVars(part = "idle" /\ SnapshotTxn)
  /\ WF_lifeVars(part = "idle" /\ KillerStep("idle"))
  /\ WF_lifeVars(part = "idle" /\ AbortStep("idle"))
  /\ WF_lifeVars(part = "failing" /\ Failing!SessionStep)
  /\ WF_lifeVars(part = "shutdown" /\ Shutdown!SessionStep)
  /\ WF_lifeVars(part = "shutdown" /\ Shutdown!KillerStep("shutdown"))
  /\ WF_lifeVars(part = "shutdown" /\ Shutdown!AbortStep("shutdown"))

LiveSpec == LiveInit /\ [][LiveNext]_MCvars /\ LiveFairness

-----------------------------------------------------------------------------
\* A session that idles in its transaction, after BEGIN or after one of its
\* statements, is killed by killIdleTxn unless the client goes on.
IdleKilled ==
  (part = "idle" /\ IdleIn({"begin", ""})) ~> (~inMap \/ pc # "idle")

\* No session stays where it is: its statement ends, whatever is killed or
\* fails meanwhile (nobody waits for txn.mu or ss.mu for ever), and a
\* transaction that it leaves idle is killed.
SessionsMoveOn == HandlerEnds /\ IdleKilled

=============================================================================
