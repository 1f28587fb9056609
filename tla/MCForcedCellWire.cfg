SPECIFICATION FairCellSpec
CONSTANTS
  Store <- McStore
  Schema = "qodec.query.v1"
  Limits <- McLimits
  Queries <- McOneQuery
  ForeignHandles = {}
  Claims <- McOneClaim
  Answers = {1}
  Expected = 1
  MaxCalls = 4
  MaxTurns = 3
  MaxAttempts = 2
  RequestedModel = "m"
  Envelopes <- McVaried
  CallsPerReply = 1
CHECK_DEADLOCK FALSE
INVARIANTS
  RecordMatchesWire
  StatedBillIsWhole
  ComparableMeansOneModel
PROPERTY
  Terminates
