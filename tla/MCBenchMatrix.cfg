SPECIFICATION FairSpec
CONSTANTS
  Tasks <- McTasks
  Repeats = 2
  SyncEvery = 2
  Endpoints <- McEndpoints
  Outcomes <- McOutcomes
  RepeatOutcomes <- McRepeatOutcomes
  MaxBreaking = 1
  MaxCrashes = 2
  MaxDamage = 1
INVARIANTS
  TypeOK
  ReceiptPinsWhatSurvives
  RunsOnlyOnPinnedPass1
  OneExperiment
  CompleteMeansWhole
  LossIsBounded
  LossesAreRepeated
PROPERTY
  EventuallyScored
CHECK_DEADLOCK FALSE
