SPECIFICATION FairSpec
CONSTANTS
  j1 = j1
  j2 = j2
  j3 = j3
  VMThread = VM
  NULL = NULL
  JavaThreads = {j1, j2, j3}
  NonJavaThreads = {c}
  Uses <- BothUses
INVARIANTS OwnerExclusion SneakScope
PROPERTIES VMThreadEnters SafepointEnds
CHECK_DEADLOCK FALSE
