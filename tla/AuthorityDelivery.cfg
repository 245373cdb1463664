SPECIFICATION Spec
CONSTANTS
  None = None
  Commits = {a, b}
  InitialCommit = a
  ProjectRevisionIds = {p0, p1, p2}
  Candidates = {p1}
  WorkspaceIds = {w1}
  ChangeIds = {c1, c2}
  RevisionIds = {r1, r2}
  RunIds = {u1}
  EvidenceIds = {e1, e2}
  ArtifactIds = {t1}
  ReleaseIds = {l1}
INVARIANTS
  LandingsSound
  DeliverySound
CHECK_DEADLOCK FALSE
