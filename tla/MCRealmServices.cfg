SPECIFICATION MCSpec
CONSTANTS
  IdAgents = {a}
  IdCapabilities = {"agent.delegate", "target.promote"}
  IdProhibited = {"target.promote"}
  IdActionSets = {{"agent.delegate"}, {"agent.delegate", "target.promote"}}
  IdDeniedSets = {{}}
  IdMaxSessions = 2
  IdMaxGrants = 2
  IdMaxCredentials = 1
  IdMaxEpoch = 2
  IdNone = None
  OcCeremonies = {n1, n2}
  OcConsents = {c}
  OcSubmissions = {1, 2}
  OcNone = None
  GwRequests = {q1, q2}
  GwPayloads = {p, q}
  GwMode = "rate-limited"
  GwLimit = 3
  GwTombLimit = 1
  GwRetention <- MCRetention
  GwWindow = 1
  GwMaxTime = 2
  GwMaxSubmissions = 3
  GwNone = None
  HwCalls = {h1, h2, h3}
  HwMaxTokens = 3
  HwMaxDeaths = 1
  HwNone = None
  ExPackages <- MCPackages
  ExNames = {"read", "target.promote", "canonical.write"}
  ExScopes = {"realm"}
  ExMaxInstallations = 2
  ExMaxRuns = 1
  GpProfiles <- MCProfiles
  GpScopes = {"realm"}
  GpMaxEvaluations = 1
  DsSpaces = {s1, s2}
  DsPublic = {s1}
  DsItems = {i}
  DsMaxSnapshot = 2
  DsMaxPublications = 1
  DsMaxSealed = 1
  DiLimit = 2
  DiMaxRequests = 3
  DsNone = None
  AsKeys = {k1, k2}
  AsQualification = {k2}
  AsBundleIds = {b1, b2}
  AsWorkspaces = {w}
  AsMaxWrites = 1
  AsFirst = k0
  AsNone = None
  SaRealms = {"ra", "rb"}
  SaHosts = {"ha", "hb"}
  SaProjects = {p}
  SaSites <- MCSites
  SaRequests = {q1}
  SaMaxSequence = 4
INVARIANTS
  RealmServicesConsistent
  IdRevokedStaysRevoked
  OcGrantsAgree
  GwDecisionsStand
  HwRevokedHasNoToken
  GovernanceIsApplied
  DsPublicIsPublic
PROPERTIES
  AsRecoveryIsExact
CHECK_DEADLOCK FALSE
