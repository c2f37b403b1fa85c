SPECIFICATION MCFairSpec
CONSTANTS
  w = w
  x = x
  n = n
  NULL = NULL
  Threads = {w, n}
  Ops <- PairOps
  Spinners = {w}
  Suspendable = {w}
  Interruptible = {w}
  MaxRecursions = 1
INVARIANTS NeverDeflatedInUse
PROPERTIES ImplementsFairMonitor InterruptEndsWait
