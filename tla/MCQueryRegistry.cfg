SPECIFICATION RegistrySpec
CONSTANTS
  Stores <- McStores
  Schemas <- McSchemas
  Queries <- McQueries
  LimitSets <- McLimits
  Answers = {1, 2}
  MaxLive = 2
  MaxVerdicts = 1
INVARIANTS
  ValidMeansSoleAnswerHere
  VerdictsNeverChange
