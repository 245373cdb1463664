SPECIFICATION Spec
CONSTANTS
  x = x  y = y  z = z
  Workers = {w1, w2}
  N = 2
  MaxRevision = 2
  Snapshot <- MCSnapshot
  ForeignOids = {x, z}
  MaxMoves = 1
  MaxLosses = 1
  None = None
INVARIANTS
  RefsSound
PROPERTIES
  LandingWaitsForRefs
  ReconcileCompletes
CHECK_DEADLOCK FALSE
