SPECIFICATION GCSpec
CONSTANTS
  t1 = t1
  t2 = t2
  t3 = t3
  NoThread = NoThread
  JavaThreads = {t1, t2, t3}
  MaxCritical = 1
  Calls <- RoleCalls
  OtherSafepoints = FALSE
PROPERTIES RequestServed
