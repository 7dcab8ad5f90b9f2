CONSTANTS
  u1 = u1
  u2 = u2
  k1 = k1
  nobody = nobody
SPECIFICATION MCSpec
CHECK_DEADLOCK FALSE
PROPERTIES CloseEnds ShiftWaitsEnd
