--------------------------- MODULE AbstractSemaphore ---------------------------
(***************************************************************************)
(* What a park event promises (share/vm/runtime/park.hpp): a semaphore     *)
(* with at most one permit, which any thread posts with unpark() and only  *)
(* the associated thread takes, with park() or park(millis).  A timed park *)
(* that gives up takes back whatever was posted while it returned.         *)
(***************************************************************************)
VARIABLES permit, status

sem == <<permit, status>>

Init == permit = FALSE /\ status = "running"

Unpark == permit' = TRUE /\ UNCHANGED status

Park ==
  /\ status = "running"
  /\ status' \in {"parked", "parked_timed"}
  /\ UNCHANGED permit

Acquire ==
  /\ status \in {"parked", "parked_timed"}
  /\ permit
  /\ permit' = FALSE
  /\ status' = "OS_OK"

TimeOut ==
  /\ status = "parked_timed"
  /\ permit' = FALSE
  /\ status' = "OS_TIMEOUT"

Return ==
  /\ status \in {"OS_OK", "OS_TIMEOUT"}
  /\ status' = "running"
  /\ UNCHANGED permit

Next == Unpark \/ Park \/ Acquire \/ TimeOut \/ Return

Spec == Init /\ [][Next]_sem

\* A permit that has been posted ends the park.
FairSpec == Spec /\ WF_sem(Acquire)
=============================================================================
