SPECIFICATION FairSpec
CONSTANTS
  Self = Self
  Others = {u1, u2}
  NULL = NULL
INVARIANTS Guarantees
PROPERTIES ImplementsSemaphore PermitWakes InterruptWakes
