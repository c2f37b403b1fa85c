SPECIFICATION MCSpec
CONSTANTS
  w = w
  x = x
  n = n
  NULL = NULL
  Threads = {w, x, n}
  Ops <- MixedOps
  Spinners = {}
  Suspendable = {}
  Interruptible = {}
  MaxRecursions = 1
INVARIANTS Assertions Residency NoStranding
PROPERTIES ImplementsMonitor
