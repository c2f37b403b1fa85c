-------------------------- MODULE ObjectMonitor_proofs --------------------------
(***************************************************************************)
(* Ownership of an inflated monitor, for any set of threads, any of which  *)
(* may spin, be suspended or be interrupted, and any number of recursions. *)
(***************************************************************************)
EXTENDS ObjectMonitor, TLAPS

\* An owner field that holds a BasicLock names one thread, and is not mistaken for a Thread*.
LEMMA BasicLocks ==
  ASSUME NEW t \in Threads, NEW u \in Threads
  PROVE  /\ t # NULL
         /\ BasicLock(t) # u
         /\ BasicLock(t) # NULL
         /\ BasicLock(t) = BasicLock(u) => t = u
  BY ObjectMonitorAssumption DEF BasicLock

-----------------------------------------------------------------------------
(* What Ownership needs to be inductive: where exit() returns to, and that *)
(* a thread in the spin loop knows from which of its callers it came.      *)

SpinLabels == {"spin_admit", "spin_set", "spinning", "spin_store", "spin_retry", "won_store"}
Stages == {"early", "EnterI", "futile", "ReenterI"}
Returns == {"out", "wait_check", "suspended"}

Flow ==
  /\ pc = [t \in Threads |-> pc[t]]
  /\ stage \in [Threads -> Stages \cup {"none"}]
  /\ after \in [Threads -> Returns]
  /\ \A t \in Threads : pc[t] \in SpinLabels => stage[t] \in Stages

\* The nested enters belong to the thread inside: a monitor that is free, or on its way from
\* one thread to the next, has no recursions (the assert of enter, 438, and of exit, 1096).
Inside ==
  {"in", "notify", "notify_mark", "notify_move", "notifyAll", "notifyAll_state", "notifyAll_move", "wait_add"}

NoRecursionsLeft ==
  /\ owner = NULL => recursions = 0
  /\ \A t \in Threads : Owning(t) /\ pc[t] \notin Inside => recursions = 0

IInv == Flow /\ Ownership /\ NoRecursionsLeft

\* No step of the calls a client makes breaks the invariant.
LEMMA CallOwns == ASSUME IInv, NEW t \in Threads, Call(t) PROVE IInv'
<1> USE BasicLocks DEF IInv, Flow, Ownership, NoRecursionsLeft, Inside, Owning, SpinLabels, Stages, Returns, At
<1>1. CASE call_enter(t)
  BY <1>1 DEF call_enter, Goto, locals
<1>2. CASE enter_again(t)
  BY <1>2 DEF enter_again, locals
<1>3. CASE call_exit(t)
  BY <1>3 DEF call_exit, Goto, locals
<1>4. CASE fast_unlock(t)
  BY <1>4 DEF fast_unlock, Goto, locals
<1>5. CASE call_wait(t)
  BY <1>5 DEF call_wait, Goto
<1>6. CASE call_notify(t)
  BY SMTT(30), <1>6 DEF call_notify, Goto, locals
<1> QED
  BY Zenon, <1>1, <1>2, <1>3, <1>4, <1>5, <1>6 DEF Call

\* No step of enter() and EnterI breaks the invariant.
LEMMA EnterStepOwns == ASSUME IInv, NEW t \in Threads, EnterStep(t) PROVE IInv'
<1> USE BasicLocks DEF IInv, Flow, Ownership, NoRecursionsLeft, Inside, Owning, SpinLabels, Stages, Returns, At
<1>1. CASE enter(t)
  BY <1>1 DEF enter, Goto, TryLock, TrySpin, Entered
<1>2. CASE enter_contended(t)
  BY <1>2 DEF enter_contended, Goto, TryLock, TrySpin
<1>3. CASE EnterI_push(t)
  BY SMTT(30), <1>3 DEF EnterI_push, Goto, locals
<1>4. CASE EnterI_resp_check(t)
  BY <1>4 DEF EnterI_resp_check, Goto, locals
<1>5. CASE EnterI_resp_cas(t)
  BY <1>5 DEF EnterI_resp_cas, Goto, locals
<1>6. CASE EnterI_try(t)
  BY <1>6 DEF EnterI_try, Goto, TryLock
<1>7. CASE EnterI_wake(t)
  BY <1>7 DEF EnterI_wake, Goto, TryLock, TrySpin
<1>8. CASE clear_succ(t)
  BY <1>8 DEF clear_succ, Goto, ClearSucc, locals
<1>9. CASE UnlinkAfterAcquire(t)
  BY <1>9 DEF UnlinkAfterAcquire, Goto, ClearSucc, Unlinked, locals
<1>10. CASE enter_end(t)
  BY <1>10 DEF enter_end, Goto, Entered, locals
<1>11. CASE enter_suspended(t)
  BY <1>11 DEF enter_suspended, Goto
<1>12. CASE java_suspend_self(t)
  BY <1>12 DEF java_suspend_self, Goto, TryLock, TrySpin
<1> QED
  BY Zenon, <1>1, <1>2, <1>3, <1>4, <1>5, <1>6, <1>7, <1>8, <1>9, <1>10, <1>11, <1>12 DEF EnterStep

\* No step of TrySpin breaks the invariant.
LEMMA SpinStepOwns == ASSUME IInv, NEW t \in Threads, SpinStep(t) PROVE IInv'
<1> USE BasicLocks DEF IInv, Flow, Ownership, NoRecursionsLeft, Inside, Owning, SpinLabels, Stages, Returns, At
<1>1. CASE spin_admit(t)
  BY <1>1 DEF spin_admit, Goto, locals
<1>2. CASE spin_set(t)
  BY <1>2 DEF spin_set, Goto, locals
<1>3. CASE spin_turn(t)
  BY <1>3 DEF spin_turn, Goto, Entered, SpinEnds, locals
<1>4. CASE spin_retry(t)
  BY <1>4 DEF spin_retry, Goto, Entered, SpinEnds
<1>5. CASE store_succ(t)
  BY SMTT(30), <1>5 DEF store_succ, Goto, Entered, Unlinked, SpinEnds, locals
<1> QED
  BY Zenon, <1>1, <1>2, <1>3, <1>4, <1>5 DEF SpinStep

\* No step of exit() and of compiled code breaks the invariant.
LEMMA ExitStepOwns == ASSUME IInv, NEW t \in Threads, ExitStep(t) PROVE IInv'
<1> USE BasicLocks DEF IInv, Flow, Ownership, NoRecursionsLeft, Inside, Owning, SpinLabels, Stages, Returns, At
<1>1. CASE exit(t)
  BY <1>1 DEF exit, Goto, locals
<1>2. CASE exit_drop(t)
  BY <1>2 DEF exit_drop, Goto
<1>3. CASE exit_EntryList(t)
  BY <1>3 DEF exit_EntryList, Goto, locals
<1>4. CASE exit_cxq(t)
  BY <1>4 DEF exit_cxq, Goto, Return, locals
<1>5. CASE exit_succ(t)
  BY <1>5 DEF exit_succ, Goto, Return, locals
<1>6. CASE exit_retake(t)
  BY <1>6 DEF exit_retake, Goto, Return, locals
<1>7. CASE exit_choose(t)
  BY <1>7 DEF exit_choose, Goto, locals
<1>8. CASE exit_drained(t)
  BY <1>8 DEF exit_drained, Goto, locals
<1>9. CASE ExitEpilog(t)
  BY <1>9 DEF ExitEpilog, Goto
<1>10. CASE epilog_drop(t)
  BY <1>10 DEF epilog_drop, Goto, locals
<1>11. CASE epilog_unpark(t)
  BY <1>11 DEF epilog_unpark, Goto, Return
<1>12. CASE fast_drop(t)
  BY <1>12 DEF fast_drop, Goto, Return
<1>13. CASE fast_succ_drop(t)
  BY <1>13 DEF fast_succ_drop, Goto
<1>14. CASE fast_recheck(t)
  BY <1>14 DEF fast_recheck, Goto, Return, locals
<1>15. CASE fast_retake(t)
  BY SMTT(30), <1>15 DEF fast_retake, Goto, Return, locals
<1> QED
  BY Zenon, <1>1, <1>2, <1>3, <1>4, <1>5, <1>6, <1>7, <1>8, <1>9, <1>10, <1>11, <1>12, <1>13, <1>14, <1>15 DEF ExitStep

\* No step of wait(), notify() and notifyAll() breaks the invariant.
LEMMA WaitStepOwns == ASSUME IInv, NEW t \in Threads, WaitStep(t) PROVE IInv'
<1> USE BasicLocks DEF IInv, Flow, Ownership, NoRecursionsLeft, Inside, Owning, SpinLabels, Stages, Returns, At
<1>1. CASE AddWaiter(t)
  BY <1>1 DEF AddWaiter, Goto
<1>2. CASE wait_check(t)
  BY <1>2 DEF wait_check, Goto
<1>3. CASE DequeueSpecificWaiter(t)
  BY <1>3 DEF DequeueSpecificWaiter, Goto, locals
<1>4. CASE ReenterI(t)
  BY <1>4 DEF ReenterI, Goto, TryLock, TrySpin
<1>5. CASE ReenterI_wake(t)
  BY <1>5 DEF ReenterI_wake, Goto, TryLock, locals
<1>6. CASE wait_end(t)
  BY <1>6 DEF wait_end, Goto
<1>7. CASE notify(t)
  BY <1>7 DEF notify, Goto, locals
<1>8. CASE notifyAll(t)
  BY <1>8 DEF notifyAll, Goto, locals
<1>9. CASE wait_woken(t)
  BY <1>9 DEF wait_woken, Goto, locals
<1>10. CASE wait_sample(t)
  BY <1>10 DEF wait_sample, Goto, locals
<1>11. CASE notify_mark(t)
  BY <1>11 DEF notify_mark, Goto, locals
<1>12. CASE notifyAll_state(t)
  BY <1>12 DEF notifyAll_state, Goto, locals
<1>13. CASE Transfer(t)
  BY SMTT(30), <1>13 DEF Transfer, Goto, locals
<1> QED
  BY Zenon, <1>1, <1>2, <1>3, <1>4, <1>5, <1>6, <1>7, <1>8, <1>9, <1>10, <1>11, <1>12, <1>13 DEF WaitStep

\* No step of the deflater, the timers, and os::interrupt breaks the invariant.
LEMMA OtherOwns ==
  ASSUME IInv, NEW t \in Threads,
         \/ inflate(t) \/ park(t) \/ spin_abort(t) \/ park_expires(t) \/ interrupt(t)
         \/ interrupt_unpark(t)
  PROVE  IInv'
<1> USE BasicLocks DEF IInv, Flow, Ownership, NoRecursionsLeft, Inside, Owning, SpinLabels, Stages, Returns, At
<1>1. CASE inflate(t)
  BY <1>1 DEF inflate, Goto, is_busy, locals
<1>2. CASE park(t)
  BY <1>2 DEF park, Goto, Woken, Parked
<1>3. CASE spin_abort(t)
  BY <1>3 DEF spin_abort, Goto, Entered, SpinEnds, locals
<1>4. CASE park_expires(t)
  BY <1>4 DEF park_expires, Goto, Woken, Parked
<1>5. CASE interrupt(t)
  BY <1>5 DEF interrupt, locals
<1>6. CASE interrupt_unpark(t)
  BY <1>6 DEF interrupt_unpark, locals
<1> QED
  BY Zenon, <1>1, <1>2, <1>3, <1>4, <1>5, <1>6

-----------------------------------------------------------------------------
\* The invariant holds of every behaviour.
LEMMA InvariantHolds == Spec => []IInv
<1>1. Init => IInv
  BY BasicLocks DEF Init, IInv, Flow, Ownership, NoRecursionsLeft, Inside, Owning, SpinLabels, Stages, Returns
<1>2. IInv /\ [Next]_vars => IInv'
  <2> SUFFICES ASSUME IInv, [Next]_vars PROVE IInv'
    OBVIOUS
  <2>1. ASSUME NEW t \in Threads, Call(t) PROVE IInv'
    BY <2>1, CallOwns
  <2>2. ASSUME NEW t \in Threads, EnterStep(t) PROVE IInv'
    BY <2>2, EnterStepOwns
  <2>3. ASSUME NEW t \in Threads, SpinStep(t) PROVE IInv'
    BY <2>3, SpinStepOwns
  <2>4. ASSUME NEW t \in Threads, ExitStep(t) PROVE IInv'
    BY <2>4, ExitStepOwns
  <2>5. ASSUME NEW t \in Threads, WaitStep(t) PROVE IInv'
    BY <2>5, WaitStepOwns
  <2>6. ASSUME NEW t \in Threads,
               inflate(t) \/ park(t) \/ spin_abort(t) \/ park_expires(t) \/ interrupt(t) \/ interrupt_unpark(t)
        PROVE  IInv'
    BY <2>6, OtherOwns
  <2>7. CASE UNCHANGED vars
    BY <2>7 DEF vars, locals, IInv, Flow, Ownership, NoRecursionsLeft, Inside, Owning
  <2> QED
    BY <2>1, <2>2, <2>3, <2>4, <2>5, <2>6, <2>7 DEF Next, Step
<1> QED
  BY <1>1, <1>2, PTL DEF Spec

\* Mutual exclusion of Java monitors: every thread that goes on as if it owned the monitor,
\* after a CAS, a spin, a retake in exit(), a wait() or on the strength of a BasicLock, is
\* named by _owner, and _owner names nobody else.
THEOREM MonitorIsOwned == Spec => []Ownership
<1>1. IInv => Ownership
  BY DEF IInv
<1> QED
  BY <1>1, InvariantHolds, PTL

\* The next owner starts with _recursions == 0, whichever way it was handed the monitor.
THEOREM MonitorHandedOverClean == Spec => []NoRecursionsLeft
<1>1. IInv => NoRecursionsLeft
  BY DEF IInv
<1> QED
  BY <1>1, InvariantHolds, PTL
=============================================================================
