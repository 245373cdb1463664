SPECIFICATION Spec
CONSTANTS
  A = A  B = B  rA = rA  rA2 = rA2  rB = rB  rB2 = rB2  e = e
  olga = olga  vera = vera  rita = rita  owner = owner  v1 = v1  v2 = v2
  Changes <- MCChanges
  Revisions <- MCReviewed
  ChangeOf <- MCChangeOf
  BaseOf <- MCBaseOf
  Effects <- MCEffects
  Actors <- MCActors
  AuthorOf <- MCAuthorOf
  VerifiersOf <- MCVerifiersOf
  Rules <- MCRules
  Affected <- MCAffected
  Candidates <- MCCandidates
  Policies <- MCPolicies
  NeedsEvidence <- MCNeedsEvidence
  CohortIds = {k1, k2}
  FindingIds = {f1}
  Requests = {q1}
  MaxActivations = 1
  None = None
INVARIANTS
  ReviewSound
PROPERTIES
  LandsOnFreshGate
CHECK_DEADLOCK FALSE
