SPECIFICATION MCSpec
CHECK_DEADLOCK FALSE
CONSTANTS
  Stmts = {"dml", "begin", "commit", "rollback"}
  Killers = {"exit"}
  MaxStmts = 4
  MaxCloses = 2
  MaxFaults = 1
INVARIANTS ConnsGoBack EndedOnce WritesInside
PROPERTIES NoKillAfterRelease
