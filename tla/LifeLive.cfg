SPECIFICATION LiveSpec
CHECK_DEADLOCK FALSE
CONSTANTS
  Stmts = {"dml", "begin", "commit"}
  Killers = {"idle"}
  MaxStmts = 2
  MaxCloses = 2
  MaxFaults = 0
PROPERTIES SessionsMoveOn
