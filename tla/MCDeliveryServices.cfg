SPECIFICATION MCSpec
CONSTANTS
  r1 = r1  r2 = r2  j1 = j1  j2 = j2
  RunnerIds = {r1, r2}
  JobIds = {j1, j2}
  RetryKeys = {k}
  Qualified <- MCQualified
  MaxAttempts = 2
  NoRunner = NoRunner
  Sources = {"s"}
  Versions = {0, 1}
  Revisions = {"p", "q"}
  Tasks <- MCTasks
  ModuleOf <- MCModuleOf
  ModuleDeps <- MCModuleDeps
  InputPaths <- MCInputPaths
  RequiredTasks <- MCRequired
  MaxReleases = 3
  EditsDuringRun = FALSE
  Missing = Missing
  WpReleases = {l1, l2}
  WpMaxPromotions = 3
  WpMaxKeys = 4
  WpReversible = {l1, l2}
  WpNone = None
  RpArtifacts = {"a", "b", "c"}
  RpReleaseOf <- MCReleaseOf
  RpAssetName <- MCAssetName
  RpMaxPublications = 2
  RpMaxAttempts = 1
  RpMaxDrafts = 3
  RpNone = None
  WaReleases = {l1, l2}
  WaJobs = {e1, e2}
  WaPolicies <- MCPolicies
  WaMaxVersions = 3
  WaMaxFaults = 1
  WaMaxMeddling = 1
  WaForeign = Foreign
INVARIANTS
  DeliveryServicesConsistent
  ExecReleaseIsSound
  RpPublishedIsDownloadable
PROPERTIES
  RunnerAttemptsFinal
  WpIsTargetPointer
CHECK_DEADLOCK FALSE
