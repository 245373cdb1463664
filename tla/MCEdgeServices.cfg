SPECIFICATION MCSpec
CONSTANTS
  MsRefs = {m}
  MsOids = {1, 2, 3}
  MsBase = 1
  MsSyncs = {s1, s2}
  MsFailures = {"lagging"}
  MsMaxMoves = 2
  MsMaxLandings = 1
  MsNone = None
  MiPushes = {d1}
  MiPulls = {d2}
  MiConsumers = {u1, u2}
  MiMaxMessages = 1
  MiMaxLandings = 1
  MiNone = None
  PoCalls = {c1, c2}
  PoMaxVersions = 3
  PoMaxLosses = 1
  PoNone = None
  BrTokens = {"t1", "t2"}
  BrShaOf <- MCShaOf
  BrExchanges = {e1, e2}
  BrJobs = {j1}
  BrOperations = {o}
  BrMaxRestarts = 1
  BrNone = None
  InCalls = {i1, i2}
  InOwners = {o1}
  InMaxVersions = 6
  InMaxLosses = 1
  InNone = None
  LaClients = {l1, l2}
  LaMaxSessions = 2
  LaSlowCreator = FALSE
  LaNone = None
  GtTransfers = {t1, t2, t3}
  GtLimit = 2
  GtDuration = 2
  GtDelay = 1
  GtMaxTime = 4
  PtSpaces = {s1, s2}
  PtKeys = {k1}
  PtGit = {g}
  PtGitSpace = s1
  PtDests = {"d1", "d2"}
  PtDestOf <- MCDestOf
  PtMaxVersions = 2
  PtMaxCrashes = 1
  PtNone = None
  PtTorn = torn
  WmIds = {"x", "xBlanks", "y", "blanks"}
  WmTrim <- MCTrim
  WmBlank = "none"
  WmPaths <- MCPaths
  WmMax = 2
INVARIANTS
  EdgeServicesConsistent
  GtSlotsAreHeld
  PtActivatedIsExported
PROPERTIES
  MsNothingOverwritten
  
  PoSucceededStays
  InHistoryKept
  LaRevocationHolds
CHECK_DEADLOCK FALSE
