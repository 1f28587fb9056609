SPECIFICATION Spec
CONSTANTS
  Store <- McStore
  Schema = "qodec.query.v1"
  Limits <- McLimits
  Queries <- McQueries
  ForeignHandles <- McForeign
  Claims <- McClaims
  Answers = {1, 2}
  MaxCalls = 3
INVARIANTS
  TypeOK
  AcceptedAnswersAreTrue
  ReadsAreDownstreamOfQueries
  TranscriptIsGapless
PROPERTY
  OnlyLiveHandlesAuthorize
  KeepsPromise
