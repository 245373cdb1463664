SPECIFICATION PrSpec
CONSTANTS
  a = a  b = b  p0 = p0  p1 = p1  w1 = w1  w2 = w2  c1 = c1
  r1 = r1  r2 = r2  x1 = x1  k1 = k1  d1 = d1  d2 = d2  g0 = g0
  None = None
  Commits = {a, b}
  InitialCommit = a
  ProjectRevisionIds = {p0, p1}
  Candidates = {p1}
  WorkspaceIds = {w1, w2}
  ChangeIds = {c1}
  RevisionIds = {r1, r2}
  PullRequestIds = {x1}
  ProposalKeys = {k1}
  Deliveries = {d1, d2}
  Generations = {g0}
  FirstGeneration = g0
SYMMETRY DeliverySymmetry
INVARIANTS
  RecordsRestorable
  PullRequestsSound
PROPERTIES
  PullRequestsSettle
