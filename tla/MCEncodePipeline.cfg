SPECIFICATION Spec
CONSTANTS
  Jobs <- McJobs
  Glyphs = {"x"}
  Sigils <- McSigils
  Digits = {"0"}
  Delimiters <- McDelimiters
  MaxEntries = 2
  MaxPhrase = 2
CHECK_DEADLOCK FALSE
INVARIANTS
  DecodesToTheInput
  AsksForTheKeyItUsed
  MiscountsAreRefused
