SPECIFICATION ScanSpec
CONSTANTS
  Artifacts <- McArtifacts
  Requests <- McRequests
  MaxOpens = 2
  CandidateBudgets = {1, 2, 3}
  SupportBudgets = {1, 2, 3, 4}
CHECK_DEADLOCK FALSE
INVARIANTS
  EveryLineIsOneRecord
  OpensExactlyWhatIsDeclared
  IdsResolveInTheirStoreOnly
  LoopAgreesWithReport
  CompleteExactlyWhenUnstopped
