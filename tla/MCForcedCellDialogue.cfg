SPECIFICATION CellSpec
CONSTANTS
  Store <- McStore
  Schema = "qodec.query.v1"
  Limits <- McLimits
  Queries <- McDialogueQueries
  ForeignHandles <- McForeign
  Claims <- McClaims
  Answers = {1, 2}
  Expected = 1
  MaxCalls = 5
  MaxTurns = 2
  MaxAttempts = 1
  RequestedModel = "m"
  Envelopes <- McPlain
  CallsPerReply = 2
CHECK_DEADLOCK FALSE
INVARIANTS
  CellTypeOK
  OneAnswerAfterOperations
  CorrectMeansProved
  EveryOperationIsOnTheTranscript
