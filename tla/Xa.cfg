CONSTANTS
  t1 = t1
  t2 = t2
  b1 = b1
  b2 = b2
  Txns = {t1}
  Multi = {t1}
  Backends = {b1, b2}
  Legs = {l1}
  XaMaxRetry = 2
  XaCheckRetrys = 1
  MaxCmds = 2
  MaxFaults = 2
  MaxCrashes = 0
  NoTxn = nobody
  Sessions = {h1, h2}
  RestartTakes = 1
  MaxSecond = 2
  MaxTxns = 3
SPECIFICATION MCSpec
CHECK_DEADLOCK FALSE
INVARIANTS HalfCommitTracked LegSnapshot NamesApart SharedAndCrashed 
PROPERTIES RecycledClean
