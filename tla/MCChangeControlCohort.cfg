SPECIFICATION Spec
CONSTANTS
  s0 = s0  s1 = s1  sp1 = sp1  sp2 = sp2
  SourceSpaces <- TwoSpaces
  Snapshots <- TwoSnapshots
  InitialSnapshots <- InitialTwo
  Views <- BothOrOne
  Actors = {a1}
  Directories = {d1, d2}
  Requests = {q1}
  ProjectRevisionIds = {p1, p2, p3}
  WorkspaceIds = {w1, w2}
  ChangeIds = {c1, c2}
  RevisionIds = {r1, r2, r3}
  ConflictIds = {}
  MaxMembers = 2
  None = None
INVARIANTS
  LandingsSound
SYMMETRY Symmetry
CHECK_DEADLOCK FALSE
