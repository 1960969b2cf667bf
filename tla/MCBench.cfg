CONSTANTS
  None = None
  nbio = nbio
  Words <- MCWords
  Variants <- MCVariants
  Repeats = 3
  Outcomes <- MCOutcomes
  MaxMatrices = 2
  MaxDirs = 7
SPECIFICATION Spec
CHECK_DEADLOCK FALSE
INVARIANTS TypeOK IdleIsIdle TableIsExact MedianIsCentral
PROPERTY OldResultsKept
