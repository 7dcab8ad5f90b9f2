CONSTANTS
  Callers = {u1, u2}
  MaxConnections = 1
  MaxDials = 3
  MaxQueries = 2
  MaxFaults = 1
  Configs <- MCConfigs
  MaxWrites = 2
  MaxShiftFaults = 2
  MayStop = TRUE
  Columns = {"a", "b"}
  PKColumns = {"a"}
  Values = {1, 2, 3}
  Nullable = {"b"}
  Null = nobody
  MaxRows = 3
  MaxEvents = 5
  Users = {h1, h2, h3}
  Cap = 2
  MaxGets = 6
  MaxSPoolFaults = 2
  Clients = {h1, h2, h3}
  Admin = nobody
  Width = 65536
  Positions = {0, 3, 9, 12}
  CfgBehinds = 4
  LimitsMin = 2
  LimitsMax = 4
  AdminLimits = {2, 4}
  MaxSets = 3
  MaxAcquires = 4
  Rotates = TRUE
  Handlers = {h1, h2}
  Keys = {k1, k2}
  MaxAlived = 1
  MaxMgrFaults = 1
  Cleaning = TRUE
  None = nobody
  NBackends = 3
  Sizes = {0, 100, 300, 450}
  Tables <- MCTables
  Size <- MCSize
  Hash = {"t1", "t2", "t3"}
  NoTable = nobody
  Extras = {0, 20}
  MinListed = 10
  Delta = 100
SPECIFICATION MCSpec
CHECK_DEADLOCK FALSE
SYMMETRY Symmetric
INVARIANTS SingleOwner PoolCloses ShiftLimits
PROPERTIES KillHitsOwnQuery ShiftLosesNothing RebalanceSettles
