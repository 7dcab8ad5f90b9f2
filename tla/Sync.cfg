CONSTANTS
  Proxies = {"p1"}
  Handlers = {"h1", "h2"}
  None = None
  MaxRows = 2
  MaxClock = 7
  MaxIssued = 6
SPECIFICATION MCSpec
CHECK_DEADLOCK FALSE
INVARIANTS IdsUnique
PROPERTIES ProxiesConverge
