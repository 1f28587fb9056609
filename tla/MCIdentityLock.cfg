SPECIFICATION LockSpec
CONSTANTS
  Jobs <- MCJobs
  Policy <- MavenPolicy
  Attempts = 3
  ByteCap = 2
  Cases = {"c", "u"}
  NonUtf8Cases = {"u"}
  RepoCases = {"c"}
  CargoCases = {"c"}
  Required <- MCRequired
  Stage2Body <- MCStage2
  DurableBody <- MCDurable
  ContractBody <- MCContract
  ProbesBody <- MCProbes
  RejectionBody = "spotless"
  ReplacementBody = "helm-values"
  RowSets <- MCRowSets
  Draws <- MCDraws
  EditsOf <- MCEdits
  MaxEdits = 1
INVARIANTS PassedMeansTwoAcceptedCaptures AcceptedCountsAreRederivable StaleClosureIsRefused
CHECK_DEADLOCK FALSE
