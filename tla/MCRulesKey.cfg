SPECIFICATION Spec
CONSTANTS
  Jobs <- McNestedJobs
  Glyphs = {"x", "y"}
  Sigils <- McSigils
  Digits = {"0"}
  Delimiters <- McDelimiters
  MaxEntries = 2
  MaxPhrase = 3
CHECK_DEADLOCK FALSE
INVARIANT RulesInvertByteExactly
