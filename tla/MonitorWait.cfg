SPECIFICATION MCSpec
CONSTANTS
  t1 = t1
  t2 = t2
  t3 = t3
  NULL = NULL
  LBIT = LBIT
  Threads = {t1, t2, t3}
  Calls <- WaitCalls
SYMMETRY Symmetry
INVARIANTS TypeOK MutualExclusion InnerLock Residency Assertions NoStranding
PROPERTIES ImplementsMonitor
CHECK_DEADLOCK FALSE
