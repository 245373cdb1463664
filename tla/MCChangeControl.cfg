SPECIFICATION Spec
CONSTANTS
  s0 = s0  s1 = s1  sp1 = sp1  sp2 = sp2
  SourceSpaces <- OneSpace
  Snapshots <- TwoSnapshots
  InitialSnapshots <- InitialOne
  Views <- WholeProject
  Actors = {}
  Directories = {d1, d2, d3}
  Requests = {q1, q2}
  ProjectRevisionIds = {p1, p2}
  WorkspaceIds = {w1, w2, w3}
  ChangeIds = {c1, c2}
  RevisionIds = {r1, r2, r3}
  ConflictIds = {k1}
  MaxMembers = 2
  None = None
INVARIANTS
  LineageSound
  WorkspacesExclusive

  
SYMMETRY Symmetry
CHECK_DEADLOCK FALSE
