---------------------------- MODULE AbstractMonitor ----------------------------
(***************************************************************************)
(* What a monitor promises its clients (share/vm/runtime/mutex.hpp): one   *)
(* thread inside at a time; wait() leaves the monitor and joins the wait   *)
(* set in one step; notify() releases one waiting thread if there is one,  *)
(* notify_all() every one; a released or timed-out waiter is inside again  *)
(* before its wait() returns, and a waiter is either notified or times     *)
(* out, never both.                                                        *)
(***************************************************************************)
CONSTANT Threads

VARIABLE state

States == {"out", "contending", "in", "notifying", "notifying_all", "waiting", "notified", "timed_out"}

Inside(t) == state[t] \in {"in", "notifying", "notifying_all"}

NobodyWaits == \A t \in Threads : state[t] # "waiting"

Move(t, from, to) == state[t] = from /\ state' = [state EXCEPT ![t] = to]

-----------------------------------------------------------------------------
Init == state = [t \in Threads |-> "out"]

Request(t) == Move(t, "out", "contending")

Acquire(t) ==
  /\ \A u \in Threads : ~Inside(u)
  /\ \E from \in {"contending", "notified", "timed_out"} : Move(t, from, "in")

Release(t) == Move(t, "in", "out")

Wait(t) == Move(t, "in", "waiting")

Timeout(t) == Move(t, "waiting", "timed_out")

BeginNotify(t) == Move(t, "in", "notifying") \/ Move(t, "in", "notifying_all")

\* notify() ends with the waiter it releases; notify_all() goes on.
NotifyOne(t, u) ==
  /\ state[t] \in {"notifying", "notifying_all"}
  /\ state[u] = "waiting"
  /\ state' = [state EXCEPT ![u] = "notified", ![t] = IF @ = "notifying" THEN "in" ELSE @]

EndNotify(t) ==
  /\ NobodyWaits
  /\ Move(t, "notifying", "in") \/ Move(t, "notifying_all", "in")

Next ==
  \E t \in Threads :
    \/ Request(t) \/ Acquire(t) \/ Release(t) \/ Wait(t) \/ Timeout(t) \/ BeginNotify(t) \/ EndNotify(t)
    \/ \E u \in Threads : NotifyOne(t, u)

Spec == Init /\ [][Next]_state

\* A free monitor that threads contend for is entered.
Fairness == WF_state(\E t \in Threads : Acquire(t))

FairSpec == Spec /\ Fairness
=============================================================================
