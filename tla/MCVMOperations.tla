---------------------------- MODULE MCVMOperations ----------------------------
(* An instance of VMOperations for TLC. *)
EXTENDS VMOperations

CONSTANTS j1, j2, g

\* A Java thread that keeps asking for safepoint operations without waiting for them, one that
\* waits for operations that need none, and a thread that safepoints do not stop, with
\* safepoint operations it waits for and operations of low priority that it does not.
MCModes ==
  [t \in Requesters |-> CASE t = j1 -> {"_async_safepoint"}
                          [] t = j2 -> {"_no_safepoint"}
                          [] t = g -> {"_safepoint", "_concurrent"}]
=============================================================================
