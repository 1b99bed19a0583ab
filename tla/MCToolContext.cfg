SPECIFICATION Spec
CONSTANTS
  Reserve = 3
  FixedBody = 2
  MarkerText = 5
  ImageNote = 6
  SummaryText = 6
  SummaryLine = 5
  MaxSummary = 20
  Frame = 2
  CanonicalFrame = 2
  PerCallRaw = 8
  Configs <- RunnerConfigs
  CallLists <- Calls
  Bodies <- ResultBodies
  ProviderStates = {9}
  OrdinaryImages = {1}
  MaxExchanges = 3
  MaxCalls = 5
  MaxRuns = 2
INVARIANTS
  RequestSound
  AdmittedExchangeCommits
CHECK_DEADLOCK FALSE
