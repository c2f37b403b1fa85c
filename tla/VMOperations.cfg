SPECIFICATION FairSpec
CONSTANTS
  j1 = j1
  j2 = j2
  g = g
  NULL = NULL
  JavaThreads = {j1, j2}
  OtherThreads = {g}
  Modes <- MCModes
  Nests = {"_no_safepoint", "_async_safepoint"}
  MaxAhead = 1
  HighTurns = 2
  TraceLongCompiles = FALSE
INVARIANTS OperationsAlive EvaluatedOnce
PROPERTIES RequestsAnswered TerminationCompletes
CHECK_DEADLOCK FALSE
