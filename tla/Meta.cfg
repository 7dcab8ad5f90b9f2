CONSTANTS
  Columns <- ThreeColumns
  Values = {0, 1}
  PartOf <- TwoParts
  RowIds = {r1, r2}
  UniqueOnKey = TRUE
  None = None
  Torn = Torn
  r1 = r1
  r2 = r2
  t1 = t1
  t2 = t2
  t3 = t3
  b1 = b1
  b2 = b2
  n1 = n1
  n2 = n2
  n3 = n3
SPECIFICATION MCSpec
CHECK_DEADLOCK FALSE
SYMMETRY Symmetric
INVARIANTS UniqueInTable  PartitionsCover RouterKeepsAcked PeersAgree
PROPERTIES AttachWhole
