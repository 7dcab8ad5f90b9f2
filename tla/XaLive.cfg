CONSTANTS
  NoTxn = NoTxn
  Txns = {t1, t2}
  Multi = {t2}
  Backends = {b1, b2}
  Legs = {}
  XaMaxRetry = 1
  XaCheckRetrys = 1
  MaxCmds = 1
  MaxFaults = 1
  MaxCrashes = 0
SPECIFICATION FairSpec
CHECK_DEADLOCK FALSE
PROPERTIES CommitsEnd
