CONSTANTS
  NoTxn = NoTxn
  Txns = {t1}
  Multi = {}
  Backends = {b1, b2, b3}
  Legs = {l1}
  XaMaxRetry = 3
  XaCheckRetrys = 1
  MaxCmds = 0
  MaxFaults = 3
  MaxCrashes = 1
SPECIFICATION Spec
CHECK_DEADLOCK FALSE
INVARIANTS XaInv XaAtomicity FailedWriteNeverCommits AckedCommitKept
PROPERTIES KeepsPromise
