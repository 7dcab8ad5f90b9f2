CONSTANTS
  Clients = {c1, c2, c3}
  Backends = {b1, b2}
  c1 = c1
  c2 = c2
  c3 = c3
  b1 = b1
  b2 = b2
  Parts <- FourParts
  BackendOf <- Placed
  Wants <- Overlapping
  Inserters = {c1, c3}
  Nobody = Nobody
SPECIFICATION MCSpec
CHECK_DEADLOCK FALSE
INVARIANTS NoDeadlockOnBackend LikeOneServer
