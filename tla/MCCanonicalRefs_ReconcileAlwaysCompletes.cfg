SPECIFICATION Spec
CONSTANTS
  x = x  y = y  z = z
  Workers = {w1, w2}
  N = 2
  MaxRevision = 1
  Snapshot <- MCSnapshot
  ForeignOids = {x, z}
  MaxMoves = 0
  MaxLosses = 0
  None = None
PROPERTIES
  ReconcileAlwaysCompletes
CHECK_DEADLOCK FALSE
