SPECIFICATION Spec
CONSTANTS
  Routes <- MCRoutes
  Variants = {"fixed", "buggy"}
  GoldSets <- MCGoldSets
  Reps = 3
  ProvenCount = 2
INVARIANTS AuditedPassRanOnTheDeclaredInput MutationVerdictsAreTrue
CHECK_DEADLOCK FALSE
