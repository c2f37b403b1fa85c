SPECIFICATION GCFairSpec
CONSTANTS
  t1 = t1
  t2 = t2
  t3 = t3
  NoThread = NoThread
  JavaThreads = {t1, t2}
  MaxCritical = 1
  Calls <- JNICalls
  OtherSafepoints = FALSE
INVARIANTS InactiveWhenInitiating
PROPERTIES RequestServed NeedsGCCleared StallEnds SafepointCompletes
