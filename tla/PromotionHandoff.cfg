SPECIFICATION Spec
CONSTANTS
  Releases = {r1, r2}
  Reversible = {r2}
  Promotions = {p1, p2, p3}
  ExecutionKeys = {k1, k2, k3}
  ReconcileKeys = {j1}
  MaxRuns = 3
  MaxLosses = 1
  None = None
INVARIANTS
  HandoffSound
PROPERTIES
  PromotionsAreFinal
  IsTargetPointer
CHECK_DEADLOCK FALSE
