CONSTANTS
  NoTxn = NoTxn
  Txns = {t1}
  Multi = {t1}
  Backends = {b1, b2}
  Legs = {}
  XaMaxRetry = 2
  XaCheckRetrys = 1
  MaxCmds = 2
  MaxFaults = 1
  MaxCrashes = 0
SPECIFICATION Spec
CHECK_DEADLOCK FALSE
INVARIANT FailedStatementNotDurable
