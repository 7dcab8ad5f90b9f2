------------------------------- MODULE MCPools ------------------------------
(***************************************************************************)
(* What the proxy and the shift tool share and move: the connections of a  *)
(* backend (ConnPool), the migration of a table (ShiftRows: a shift of a   *)
(* table of the proxy and one that is sharded anew, with failures, and the *)
(* rows), what the shifts share (ShiftService: the pool, the throttle, the *)
(* manager), and the choice of what to move (Rebalance).                   *)
(***************************************************************************)
EXTENDS ConnPool, ShiftRows, ShiftService, Rebalance, TLC

VARIABLE part   \* which one runs

\* The shift of NEODB REBALANCE, one with the option rebalance, and a reshard
\* with the option cleanup.
Moving == [flavor |-> "mysql", cleanup |-> TRUE, rebalance |-> FALSE,
           checksum |-> TRUE, behinds |-> 1]
Setting == [Moving EXCEPT !.cleanup = FALSE, !.rebalance = TRUE]
Resharding == [Moving EXCEPT !.flavor = "neodb"]
MCConfigs == {Moving, Setting, Resharding}

MCTables == {"t1", "t2", "t3", "single"}
MCSize == [t \in MCTables |-> CASE t = "t1" -> 150 [] t = "t2" -> 40 [] OTHER -> 100]

MCInit ==
  /\ part \in {"pool", "shift", "rows", "spool", "throttle", "manager", "advice"}
  /\ part = "shift" \/ (part # "shift" /\ cfg = Moving)
  /\ \/ part = "advice"
     \/ /\ part # "advice" /\ sizes = [b \in 1..NBackends |-> 450]
        /\ place = [t \in Tables |-> 1]
  /\ Init /\ ShiftInit /\ RowsInit /\ SPoolInit /\ ThrottleInit /\ MgrInit /\ AdviceInit

PoolStep ==
  /\ part = "pool" /\ Next
  /\ UNCHANGED <<part, shiftVars, rowsVars, spoolVars, throttleVars, mgrVars, adviceVars>>
ShiftStep ==
  /\ part = "shift" /\ ShiftNext
  /\ UNCHANGED <<part, vars, rowsVars, spoolVars, throttleVars, mgrVars, adviceVars>>
RowsStep ==
  /\ part = "rows" /\ RowsNext
  /\ UNCHANGED <<part, vars, shiftVars, spoolVars, throttleVars, mgrVars, adviceVars>>
SpoolStep ==
  /\ part = "spool" /\ SPoolNext
  /\ UNCHANGED <<part, vars, shiftVars, rowsVars, throttleVars, mgrVars, adviceVars>>
ThrottleStep ==
  /\ part = "throttle" /\ ThrottleNext
  /\ UNCHANGED <<part, vars, shiftVars, rowsVars, spoolVars, mgrVars, adviceVars>>
ManagerStep ==
  /\ part = "manager" /\ MgrNext
  /\ UNCHANGED <<part, vars, shiftVars, rowsVars, spoolVars, throttleVars, adviceVars>>
AdviceStep ==
  /\ part = "advice" /\ AdviceNext
  /\ UNCHANGED <<part, vars, shiftVars, rowsVars, spoolVars, throttleVars, mgrVars>>

MCNext == PoolStep \/ ShiftStep \/ RowsStep \/ SpoolStep \/ ThrottleStep \/
          ManagerStep \/ AdviceStep

MCvars == <<part, vars, shiftVars, rowsVars, spoolVars, throttleVars, mgrVars, adviceVars>>
MCSpec == MCInit /\ [][MCNext]_MCvars

-----------------------------------------------------------------------------
\* The callers of ConnPool are interchangeable.
Symmetric == Permutations(Callers)

=============================================================================
