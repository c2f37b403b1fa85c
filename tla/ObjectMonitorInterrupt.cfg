SPECIFICATION MCSpec
CONSTANTS
  w = w
  x = x
  n = n
  NULL = NULL
  Threads = {w, n}
  Ops <- NotifyOps
  Spinners = {}
  Suspendable = {}
  Interruptible = {w}
  MaxRecursions = 0
PROPERTIES NotifyPrecedence
