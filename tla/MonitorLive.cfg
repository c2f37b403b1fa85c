SPECIFICATION MCFairSpec
CONSTANTS
  t1 = t1
  t2 = t2
  t3 = t3
  NULL = NULL
  LBIT = LBIT
  Threads = {t1, t2}
  Calls <- AllCalls
PROPERTIES ImplementsFairMonitor
CHECK_DEADLOCK FALSE
