----------------------------- MODULE MonitorOwner -----------------------------
(***************************************************************************)
(* The owner layer of HotSpot's Monitor (share/vm/runtime/mutex.cpp):      *)
(* lock, lock_without_safepoint_check, try_lock, unlock and wait, with     *)
(* _owner, the thread state transitions of ThreadBlockInVM, safepoints and *)
(* the VM thread "sneaking" past a lock that is held but not owned.        *)
(* ILock, IUnlock, IWait and notify are the steps of AbstractMonitor that  *)
(* NativeMonitor implements.                                               *)
(***************************************************************************)
EXTENDS FiniteSets

CONSTANTS
  JavaThreads,
  VMThread,
  NonJavaThreads,  \* GC workers, a Java thread that has left the threads list: they ignore safepoints
  Uses,            \* the ways a Monitor is used: the entry points that each thread calls
  NULL

Threads == JavaThreads \cup {VMThread} \cup NonJavaThreads

EntryPoints == {"lock", "lock_without_safepoint_check", "try_lock", "notify_all", "wait", "suspend"}

\* May the VM thread find itself sneaking?  Do Java threads stop at safepoints with the lock
\* byte set?
Sneaks(calls) == calls[VMThread] \cap {"lock", "try_lock"} # {}
SafepointChecks(calls) == \E t \in JavaThreads : calls[t] \cap {"lock", "wait"} # {}

\* Besides a sneaking VM thread only Java threads use the Monitor ("a java thread has locked the
\* lock but has not entered the critical region"), and the VM thread does not notify on it
\* (vmThread.cpp:310, 424 and 567 take the locks they notify on without sneaking).  A Java thread
\* that blocks in _thread_in_vm, where safepoints wait for it, waits for no stopped thread.
Discipline(calls) ==
  /\ Sneaks(calls) => (\A t \in NonJavaThreads : calls[t] = {}) /\ "notify_all" \notin calls[VMThread]
  /\ SafepointChecks(calls) => \A t \in JavaThreads : "lock_without_safepoint_check" \notin calls[t]

ASSUME ConstantsAssumption ==
  /\ VMThread \notin JavaThreads \cup NonJavaThreads
  /\ JavaThreads \cap NonJavaThreads = {}
  /\ NULL \notin Threads
  /\ Uses \subseteq [Threads -> SUBSET EntryPoints]
  /\ \A calls \in Uses : Discipline(calls)

VARIABLES
  LockByte,   \* the outer lock
  WaitSet,    \* the threads waiting for a notification
  owner,      \* _owner
  snuck,      \* _snuck
  sync_state, \* SafepointSynchronize::_state
  Calls,      \* how this Monitor is used
  pc

vars == <<LockByte, WaitSet, owner, snuck, sync_state, Calls, pc>>

\* Where a Java thread is _thread_blocked, or will stop at a transition.
SafeLabels == {"idle", "tbivm_enter", "ILock", "tbivm_exit", "wait_tbivm_enter", "IWait", "waiting", "reentry",
               "suspend_check", "suspended"}

-----------------------------------------------------------------------------
Init ==
  /\ LockByte = FALSE
  /\ WaitSet = {}
  /\ owner = NULL
  /\ snuck = FALSE
  /\ sync_state = "_not_synchronized"
  /\ Calls \in Uses
  /\ pc = [t \in Threads |-> "idle"]

IsJava(t) == t \in JavaThreads

Goto(t, label) == pc' = [pc EXCEPT ![t] = label]

\* do_call_back(): a Java thread at a transition stops while a safepoint is on.
do_call_back == sync_state # "_not_synchronized"

\* A client may call the monitor: a Java thread in the VM, the VM thread outside begin().
MayCall(t, name) ==
  /\ name \in Calls[t]
  /\ IsJava(t) => ~do_call_back
  /\ t = VMThread => sync_state # "_synchronizing"

can_sneak(t) == t = VMThread /\ sync_state = "_synchronized" /\ owner = NULL

\* TryFast, TrySpin and ILock: take the free lock, or go where a held one sends us.
Take(t, acquired, held) ==
  /\ IF LockByte THEN Goto(t, held) ELSE Goto(t, acquired)
  /\ LockByte' = TRUE
  /\ UNCHANGED <<WaitSet, owner, snuck, sync_state, Calls>>

-----------------------------------------------------------------------------
\* Mutated forms, each a slip the code could have made.
contended_nosneak(t) ==
  pc[t] = "contended" /\ Goto(t, "spin") /\ UNCHANGED <<LockByte, WaitSet, owner, snuck, sync_state, Calls>>

spin_forever(t) == pc[t] = "spin" /\ Take(t, "Exeunt", "spin")

ThreadBlockInVM_nocallback(t) ==
  /\ \/ pc[t] = "tbivm_enter" /\ Goto(t, "ILock")
     \/ pc[t] = "tbivm_exit" /\ Goto(t, "Exeunt")
     \/ pc[t] = "wait_tbivm_enter" /\ Goto(t, "IWait")
  /\ UNCHANGED <<LockByte, WaitSet, owner, snuck, sync_state, Calls>>

unlock_keeps_snuck(t) ==
  /\ pc[t] = "unlock"
  /\ LockByte' = (LockByte /\ snuck)
  /\ Goto(t, "idle")
  /\ UNCHANGED <<WaitSet, owner, snuck, sync_state, Calls>>

-----------------------------------------------------------------------------
lock(t) == MayCall(t, "lock") /\ pc[t] = "idle" /\ Take(t, "Exeunt", "contended")

contended(t) ==
  /\ pc[t] = "contended"
  /\ \/ can_sneak(t) /\ snuck' = TRUE /\ Goto(t, "Exeunt")
     \/ ~can_sneak(t) /\ Goto(t, "spin") /\ UNCHANGED snuck
  /\ UNCHANGED <<LockByte, WaitSet, owner, sync_state, Calls>>

\* check_block_state, then ILock inside a ThreadBlockInVM for Java threads only.
spin(t) == pc[t] = "spin" /\ Take(t, "Exeunt", IF IsJava(t) THEN "tbivm_enter" ELSE "ILock")

\* Whoever calls, the state of the thread stays what it is.  The VM thread does so inside a
\* safepoint (316, 532) only where no stopped Java thread can hold the lock byte.
lock_without_safepoint_check(t) ==
  /\ MayCall(t, "lock_without_safepoint_check")
  /\ t = VMThread /\ do_call_back => ~SafepointChecks(Calls)
  /\ pc[t] = "idle"
  /\ Take(t, "Exeunt", IF IsJava(t) THEN "ILock_in_vm" ELSE "ILock")

ThreadBlockInVM(t) ==
  /\ ~do_call_back
  /\ \/ pc[t] = "tbivm_enter" /\ Goto(t, "ILock")
     \/ pc[t] = "tbivm_exit" /\ Goto(t, "Exeunt")
     \/ pc[t] = "wait_tbivm_enter" /\ Goto(t, "IWait")
  /\ UNCHANGED <<LockByte, WaitSet, owner, snuck, sync_state, Calls>>

\* A Java thread in a ThreadBlockInVM leaves it before it sets _owner.
ILock(t) ==
  /\ pc[t] \in {"ILock", "ILock_in_vm"}
  /\ ~LockByte
  /\ Take(t, IF pc[t] = "ILock" /\ IsJava(t) THEN "tbivm_exit" ELSE "Exeunt", pc[t])

\* set_owner(Self).
Exeunt(t) ==
  /\ pc[t] = "Exeunt"
  /\ owner' = t
  /\ Goto(t, "cs")
  /\ UNCHANGED <<LockByte, WaitSet, snuck, sync_state, Calls>>

\* try_lock sneaks before it tries the lock; a failure leaves no trace.
try_lock(t) ==
  /\ MayCall(t, "try_lock")
  /\ pc[t] = "idle"
  /\ \/ /\ can_sneak(t)
        /\ owner' = t
        /\ snuck' = TRUE
        /\ Goto(t, "cs")
        /\ UNCHANGED <<LockByte, WaitSet, sync_state, Calls>>
     \/ ~can_sneak(t) /\ ~LockByte /\ Take(t, "Exeunt", "idle")

\* set_owner(NULL), the first half of unlock().
disown(t) ==
  /\ pc[t] = "cs"
  /\ owner' = NULL
  /\ Goto(t, "unlock")
  /\ UNCHANGED <<LockByte, WaitSet, snuck, sync_state, Calls>>

\* The second half: pretend to unlock, or IUnlock(false).
unlock(t) ==
  /\ pc[t] = "unlock"
  /\ snuck' = FALSE
  /\ LockByte' = (LockByte /\ snuck)
  /\ Goto(t, "idle")
  /\ UNCHANGED <<WaitSet, owner, sync_state, Calls>>

-----------------------------------------------------------------------------
\* notify_all pushes every waiter onto cxq with a CAS that also writes the lock bit.
notify_all(t) ==
  /\ "notify_all" \in Calls[t]
  /\ pc[t] = "cs"
  /\ WaitSet # {}
  /\ WaitSet' = {}
  /\ LockByte' = TRUE
  /\ pc' = [u \in Threads |-> IF u \in WaitSet THEN "reentry" ELSE pc[u]]
  /\ UNCHANGED <<owner, snuck, sync_state, Calls>>

\* wait(): disown the lock, then IWait, which a Java thread calls in a ThreadBlockInVM.
\* The VM thread does not wait inside a safepoint.
wait(t) ==
  /\ "wait" \in Calls[t]
  /\ t = VMThread => sync_state = "_not_synchronized"
  /\ pc[t] = "cs"
  /\ owner' = NULL
  /\ Goto(t, IF IsJava(t) THEN "wait_tbivm_enter" ELSE "IWait")
  /\ UNCHANGED <<LockByte, WaitSet, snuck, sync_state, Calls>>

IWait(t) ==
  /\ pc[t] = "IWait"
  /\ WaitSet' = WaitSet \cup {t}
  /\ LockByte' = FALSE
  /\ Goto(t, "waiting")
  /\ UNCHANGED <<owner, snuck, sync_state, Calls>>

Timeout(t) ==
  /\ pc[t] = "waiting"
  /\ WaitSet' = WaitSet \ {t}
  /\ Goto(t, "reentry")
  /\ UNCHANGED <<LockByte, owner, snuck, sync_state, Calls>>

reentry(t) == pc[t] = "reentry" /\ ~LockByte /\ Take(t, IF IsJava(t) THEN "suspend_check" ELSE "Exeunt", "reentry")

\* Suspended during an as_suspend_equivalent wait: IUnlock(true), java_suspend_self, ILock.
suspend_check(t) ==
  /\ pc[t] = "suspend_check"
  /\ \/ Goto(t, "tbivm_exit") /\ UNCHANGED LockByte
     \/ "suspend" \in Calls[t] /\ LockByte' = FALSE /\ Goto(t, "suspended")
  /\ UNCHANGED <<WaitSet, owner, snuck, sync_state, Calls>>

resume(t) == pc[t] = "suspended" /\ Goto(t, "ILock") /\ UNCHANGED <<LockByte, WaitSet, owner, snuck, sync_state, Calls>>

-----------------------------------------------------------------------------
(* The VM thread runs a safepoint operation. *)

SafepointStep(from, to) ==
  /\ pc[VMThread] = "idle"
  /\ sync_state = from
  /\ sync_state' = to
  /\ UNCHANGED <<LockByte, WaitSet, owner, snuck, Calls, pc>>

begin == SafepointStep("_not_synchronized", "_synchronizing")

synchronized ==
  /\ \A t \in JavaThreads : pc[t] \in SafeLabels
  /\ SafepointStep("_synchronizing", "_synchronized")

end == SafepointStep("_synchronized", "_not_synchronized")

-----------------------------------------------------------------------------
Client(t) == lock(t) \/ lock_without_safepoint_check(t) \/ try_lock(t) \/ notify_all(t) \/ wait(t)

Step(t) ==
  \/ contended(t) \/ spin(t) \/ ThreadBlockInVM(t) \/ ILock(t) \/ Exeunt(t) \/ disown(t) \/ unlock(t)
  \/ IWait(t) \/ reentry(t) \/ suspend_check(t) \/ resume(t)

Next ==
  \/ \E t \in Threads : Client(t) \/ Step(t) \/ Timeout(t)
  \/ begin \/ synchronized \/ end

Spec == Init /\ [][Next]_vars

\* Running threads make progress, critical sections and safepoint operations end.  A thread that
\* waits for the lock byte is not passed by for ever: it is on a queue from which every unlock
\* wakes a thread.
Fairness ==
  /\ \A t \in Threads : WF_vars(Step(t)) /\ SF_vars(ILock(t))
  /\ WF_vars(synchronized)
  /\ SF_vars(end)

FairSpec == Spec /\ Fairness

-----------------------------------------------------------------------------
\* Has set the lock byte and not cleared it; a sneaking VM thread has not.
HoldsByte(t) ==
  /\ pc[t] \in {"Exeunt", "cs", "unlock", "tbivm_exit", "wait_tbivm_enter", "IWait", "suspend_check"}
  /\ ~(t = VMThread /\ snuck)

\* _owner is the one thread between set_owner(Self) and set_owner(NULL), although the VM
\* thread sneaks past a lock byte that a Java thread holds: set_owner finds _owner NULL.
OwnerExclusion ==
  /\ \A t \in Threads : owner = t <=> pc[t] = "cs"
  /\ \A t \in Threads : pc[t] = "Exeunt" => owner = NULL
  /\ \A t, u \in Threads : pc[t] \in {"cs", "Exeunt", "unlock"} /\ pc[u] \in {"cs", "Exeunt", "unlock"} => t = u

\* A sneak never outlives its safepoint (the "sneak" assertion of unlock()), and the lock
\* byte has exactly one physical holder whatever the VM thread pretends.
SneakScope ==
  /\ snuck => sync_state = "_synchronized" /\ pc[VMThread] \in {"Exeunt", "cs", "unlock"}
  /\ LockByte <=> \E t \in Threads : HoldsByte(t)
  /\ \A t, u \in Threads : HoldsByte(t) /\ HoldsByte(u) => t = u

\* Once the VM thread tries a lock inside a safepoint it enters it: it sneaks, "to avoid
\* deadlocks" (mutex.cpp:857), or if there is an owner, or the lock is one it does not sneak past,
\* it waits in ILock, but never for a thread that the safepoint has stopped.
VMThreadEnters ==
  pc[VMThread] \in {"contended", "ILock"} /\ sync_state = "_synchronized" ~> pc[VMThread] = "cs"

\* A safepoint that was begun is reached and ends, whatever the lock's users are doing.
SafepointEnds == sync_state = "_synchronizing" ~> sync_state = "_not_synchronized"
=============================================================================
