SPECIFICATION Spec
CONSTANTS
  Procs = {p1, p2}
  Runs <- McShortRuns
  PhraseBytes <- McBytes
  MaxPhrases = 2
  Splices <- McSplices
  MaxRuns = 3
CHECK_DEADLOCK FALSE
INVARIANT InterruptedSaveCorruptsNothing
