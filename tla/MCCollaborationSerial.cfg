SPECIFICATION Spec
CONSTANTS
  A = A  B = B  rA = rA  rA2 = rA2  rB = rB  rB2 = rB2  e = e
  olga = olga  vera = vera  rita = rita  owner = owner  v1 = v1  v2 = v2
  Changes <- MCChanges
  Revisions <- MCSerial
  ChangeOf <- MCChangeOf
  BaseOf <- MCBaseOf
  Effects <- MCEffects
  Actors <- MCActors
  AuthorOf <- MCAuthorOf
  VerifiersOf <- MCVerifiersOf
  Rules = {}
  Affected <- MCAffected
  Candidates <- MCCandidates
  Policies = {v1}
  NeedsEvidence <- MCNeedsEvidence
  CohortIds = {k1, k2, k3}
  FindingIds = {}
  Requests = {q1, q2}
  MaxActivations = 0
  None = None
INVARIANTS
  LandingsAgree
PROPERTIES
  LandSettles
CHECK_DEADLOCK FALSE
