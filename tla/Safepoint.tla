------------------------------- MODULE Safepoint -------------------------------
(***************************************************************************)
(* How the VM thread brings the Java threads to a safepoint                *)
(* (share/vm/runtime/safepoint.cpp) against the thread state transitions   *)
(* that the Java threads make (share/vm/runtime/interfaceSupport.hpp).     *)
(*                                                                         *)
(* thread_state and _state are read and written without a lock; each read  *)
(* and each write of them is a step.  Safepoint_lock and Threads_lock are  *)
(* Monitors (see NativeMonitor): what a Java thread does under one of them *)
(* is one step, and the VM thread holds them over several.                 *)
(***************************************************************************)
EXTENDS Naturals, FiniteSets

CONSTANT JavaThreads

ASSUME ThreadsAssumption == IsFiniteSet(JavaThreads)

VARIABLES
  state,            \* SafepointSynchronize::_state
  waiting_to_block, \* _waiting_to_block
  PageArmed,        \* the polling page is unreadable
  type,             \* ThreadSafepointState::_type of each thread
  vm,               \* where the VM thread is in begin() and end()
  thread_state,     \* JavaThread::thread_state()
  pc,               \* where the thread is in a transition or in block()
  to,               \* the state its transition leads to
  saved,            \* the local "state" of block()
  critical,         \* _jni_active_critical
  lazy,             \* the thread executes a lazy critical native
  native_unlock,    \* do_critical_native_unlock()
  jni_active_count, \* _current_jni_active_count
  jni_lock_count    \* GC_locker::_jni_lock_count

threadVars == <<thread_state, pc, to, saved>>
criticalVars == <<critical, lazy, native_unlock, jni_active_count, jni_lock_count>>
vmVars == <<state, waiting_to_block, PageArmed, type, vm>>
vars == <<vmVars, threadVars, criticalVars>>

RunStates == {"_thread_in_Java", "_thread_in_vm", "_thread_in_native", "_thread_blocked"}
TransStates == {"_thread_in_vm_trans", "_thread_in_native_trans", "_thread_blocked_trans"}

\* The value of a local variable that is out of scope.
NoState == "none"

\* state + 1 in the enumeration: the transition state of a state.
Trans(s) ==
  CASE s = "_thread_in_vm" -> "_thread_in_vm_trans"
    [] s = "_thread_in_native" -> "_thread_in_native_trans"
    [] s = "_thread_blocked" -> "_thread_blocked_trans"

\* The transitions that test for a safepoint: the classes of interfaceSupport.hpp, and a
\* compiled native wrapper's return to Java.
Transitions ==
  {<<"_thread_in_vm", "_thread_in_Java">>, <<"_thread_in_vm", "_thread_in_native">>, <<"_thread_in_vm", "_thread_blocked">>,
   <<"_thread_in_native", "_thread_in_vm">>, <<"_thread_in_native", "_thread_in_Java">>, <<"_thread_blocked", "_thread_in_vm">>}

-----------------------------------------------------------------------------
Init ==
  /\ state = "_not_synchronized"
  /\ waiting_to_block = 0
  /\ PageArmed = FALSE
  /\ type = [t \in JavaThreads |-> "_running"]
  /\ vm = "loop"
  /\ thread_state = [t \in JavaThreads |-> "_thread_in_native"]
  /\ pc = [t \in JavaThreads |-> "run"]
  /\ to = [t \in JavaThreads |-> NoState]
  /\ saved = [t \in JavaThreads |-> NoState]
  /\ critical = [t \in JavaThreads |-> 0]
  /\ lazy = [t \in JavaThreads |-> FALSE]
  /\ native_unlock = [t \in JavaThreads |-> FALSE]
  /\ jni_active_count = 0
  /\ jni_lock_count = 0

\* The VM thread holds the locks over these parts of begin() and end().
Safepoint_lock_free == vm \notin {"notice", "spin", "wait_test", "restart"}
Threads_lock_free == vm = "loop"

Running(t, s) == pc[t] = "run" /\ thread_state[t] = s

in_critical(t) == critical[t] > 0

CountIfCritical(t) == IF in_critical(t) THEN 1 ELSE 0

-----------------------------------------------------------------------------
(* The Java threads. *)

\* transition, transition_and_fence, transition_from_native: store the transition state.
transition(t, from, dest) ==
  /\ Running(t, from)
  /\ thread_state' = [thread_state EXCEPT ![t] = Trans(from)]
  /\ to' = [to EXCEPT ![t] = dest]
  /\ pc' = [pc EXCEPT ![t] = "do_call_back"]
  /\ UNCHANGED saved

\* transition_from_java, and the store of a native wrapper before the call: no test.
transition_from_java(t, dest) ==
  /\ Running(t, "_thread_in_Java")
  /\ thread_state' = [thread_state EXCEPT ![t] = dest]
  /\ UNCHANGED <<pc, to, saved>>

\* A poll of the armed page, in compiled code or at a bytecode.
handle_polling_page_exception(t) ==
  /\ Running(t, "_thread_in_Java")
  /\ PageArmed
  /\ pc' = [pc EXCEPT ![t] = "block"]
  /\ to' = [to EXCEPT ![t] = "_thread_in_Java"]
  /\ UNCHANGED <<thread_state, saved>>

\* A plausible bug: do_call_back misses a safepoint that is already reached.
do_call_back_synchronizing(t) ==
  /\ pc[t] = "do_call_back"
  /\ pc' = [pc EXCEPT ![t] = IF state = "_synchronizing" THEN "block" ELSE "set_thread_state"]
  /\ UNCHANGED <<vmVars, thread_state, to, saved, criticalVars>>

do_call_back(t) ==
  /\ pc[t] = "do_call_back"
  /\ pc' = [pc EXCEPT ![t] = IF state = "_not_synchronized" THEN "set_thread_state" ELSE "block"]
  /\ UNCHANGED <<vmVars, thread_state, to, saved, criticalVars>>

set_thread_state(t) ==
  /\ pc[t] = "set_thread_state"
  /\ thread_state' = [thread_state EXCEPT ![t] = to[t]]
  /\ to' = [to EXCEPT ![t] = NoState]
  /\ pc' = [pc EXCEPT ![t] = "run"]
  /\ UNCHANGED <<vmVars, saved, criticalVars>>

\* A thread that the VM thread waits for pretends to be in the VM until it has called back;
\* one that comes from a safe state only has to look blocked.
MustCallBack(t) == thread_state[t] \in {"_thread_in_vm_trans", "_thread_in_Java"}

\* A plausible bug: the thread looks blocked before it has called back.
block_blocked(t) ==
  /\ pc[t] = "block"
  /\ saved' = [saved EXCEPT ![t] = thread_state[t]]
  /\ thread_state' = [thread_state EXCEPT ![t] = "_thread_blocked"]
  /\ pc' = [pc EXCEPT ![t] = IF MustCallBack(t) THEN "Safepoint_lock" ELSE "Threads_lock"]
  /\ UNCHANGED <<vmVars, to, criticalVars>>

block(t) ==
  /\ pc[t] = "block"
  /\ saved' = [saved EXCEPT ![t] = thread_state[t]]
  /\ thread_state' = [thread_state EXCEPT ![t] = IF MustCallBack(t) THEN "_thread_in_vm" ELSE "_thread_blocked"]
  /\ pc' = [pc EXCEPT ![t] = IF MustCallBack(t) THEN "Safepoint_lock" ELSE "Threads_lock"]
  /\ UNCHANGED <<vmVars, to, criticalVars>>

\* Under Safepoint_lock: call back, and notify the VM thread if it waits for nobody else.
call_back(t) ==
  /\ pc[t] = "Safepoint_lock"
  /\ Safepoint_lock_free
  /\ IF state = "_synchronizing"
     THEN /\ waiting_to_block' = waiting_to_block - 1
          /\ jni_active_count' = jni_active_count + CountIfCritical(t)
          /\ vm' = IF waiting_to_block = 1 /\ vm = "wait" THEN "notified" ELSE vm
     ELSE UNCHANGED <<waiting_to_block, jni_active_count, vm>>
  /\ thread_state' = [thread_state EXCEPT ![t] = "_thread_blocked"]
  /\ pc' = [pc EXCEPT ![t] = "Threads_lock"]
  /\ UNCHANGED <<state, PageArmed, type, to, saved, critical, lazy, native_unlock, jni_lock_count>>

\* The threads line up on Threads_lock, which the VM thread holds during the safepoint.
leave_block(t) ==
  /\ pc[t] = "Threads_lock"
  /\ Threads_lock_free
  /\ thread_state' = [thread_state EXCEPT ![t] = saved[t]]
  /\ saved' = [saved EXCEPT ![t] = NoState]
  /\ pc' = [pc EXCEPT ![t] = "set_thread_state"]
  /\ UNCHANGED <<vmVars, to, criticalVars>>

-----------------------------------------------------------------------------
(* SafepointSynchronize::begin. *)

\* Threads_lock->lock().
begin ==
  /\ vm = "loop"
  /\ vm' = "begin"
  /\ UNCHANGED <<state, waiting_to_block, PageArmed, type, threadVars, criticalVars>>

\* MutexLocker mu(Safepoint_lock), the counters, _state = _synchronizing.
start_synchronizing ==
  /\ vm = "begin"
  /\ vm' = "notice"
  /\ jni_active_count' = 0
  /\ waiting_to_block' = Cardinality(JavaThreads)
  /\ state' = "_synchronizing"
  /\ UNCHANGED <<PageArmed, type, threadVars, critical, lazy, native_unlock, jni_lock_count>>

make_polling_page_unreadable ==
  /\ vm = "notice"
  /\ vm' = "spin"
  /\ PageArmed' = TRUE
  /\ UNCHANGED <<state, waiting_to_block, type, threadVars, criticalVars>>

\* A plausible bug: the VM thread waits for native code.
safepoint_safe_blocked(t) == thread_state[t] = "_thread_blocked"

safepoint_safe(t) == thread_state[t] \in {"_thread_in_native", "_thread_blocked"}

\* A plausible bug: lazy critical natives are forgotten.
check_for_lazy_critical_native_off(t) == UNCHANGED <<critical, native_unlock>>

\* A native thread in a lazy critical native enters its critical region now.
check_for_lazy_critical_native(t) ==
  IF thread_state[t] = "_thread_in_native" /\ lazy[t] /\ ~native_unlock[t]
  THEN /\ critical' = [critical EXCEPT ![t] = @ + 1]
       /\ native_unlock' = [native_unlock EXCEPT ![t] = TRUE]
  ELSE UNCHANGED <<critical, native_unlock>>

\* A plausible bug: the thread is counted before its lazy native is made a region.
examine_state_of_thread_early(t) ==
  /\ vm = "spin"
  /\ type[t] = "_running"
  /\ \/ /\ safepoint_safe(t)
        /\ check_for_lazy_critical_native(t)
        /\ type' = [type EXCEPT ![t] = "_at_safepoint"]
        /\ waiting_to_block' = waiting_to_block - 1
        /\ jni_active_count' = jni_active_count + CountIfCritical(t)
     \/ /\ thread_state[t] = "_thread_in_vm"
        /\ type' = [type EXCEPT ![t] = "_call_back"]
        /\ UNCHANGED <<critical, native_unlock, waiting_to_block, jni_active_count>>
  /\ UNCHANGED <<state, PageArmed, vm, threadVars, lazy, jni_lock_count>>

\* roll_forward(_at_safepoint) counts the thread out; roll_forward(_call_back) waits for it;
\* any other thread is looked at again later.
examine_state_of_thread(t) ==
  /\ vm = "spin"
  /\ type[t] = "_running"
  /\ \/ /\ safepoint_safe(t)
        /\ check_for_lazy_critical_native(t)
        /\ type' = [type EXCEPT ![t] = "_at_safepoint"]
        /\ waiting_to_block' = waiting_to_block - 1
        /\ jni_active_count' = jni_active_count + (IF critical'[t] > 0 THEN 1 ELSE 0)
     \/ /\ thread_state[t] = "_thread_in_vm"
        /\ type' = [type EXCEPT ![t] = "_call_back"]
        /\ UNCHANGED <<critical, native_unlock, waiting_to_block, jni_active_count>>
  /\ UNCHANGED <<state, PageArmed, vm, threadVars, lazy, jni_lock_count>>

spin_end ==
  /\ vm = "spin"
  /\ \A t \in JavaThreads : type[t] # "_running"
  /\ vm' = "wait_test"
  /\ UNCHANGED <<state, waiting_to_block, PageArmed, type, threadVars, criticalVars>>

\* Safepoint_lock->wait(true) releases the lock and, once notified, takes it again.
wait ==
  /\ \/ vm = "wait_test" /\ waiting_to_block > 0 /\ vm' = "wait"
     \/ vm = "notified" /\ vm' = "wait_test"
  /\ UNCHANGED <<state, waiting_to_block, PageArmed, type, threadVars, criticalVars>>

\* _state = _synchronized, GC_locker::set_jni_lock_count, Safepoint_lock released.
synchronized ==
  /\ vm = "wait_test"
  /\ waiting_to_block = 0
  /\ vm' = "safepoint"
  /\ state' = "_synchronized"
  /\ jni_lock_count' = jni_active_count
  /\ UNCHANGED <<waiting_to_block, PageArmed, type, threadVars, critical, lazy, native_unlock, jni_active_count>>

-----------------------------------------------------------------------------
(* SafepointSynchronize::end. *)

\* A plausible bug: the polling page stays armed after the safepoint.
make_polling_page_readable_off ==
  /\ vm = "safepoint"
  /\ vm' = "end"
  /\ PageArmed' = PageArmed
  /\ UNCHANGED <<state, waiting_to_block, type, threadVars, criticalVars>>

make_polling_page_readable ==
  /\ vm = "safepoint"
  /\ vm' = "end"
  /\ PageArmed' = FALSE
  /\ UNCHANGED <<state, waiting_to_block, type, threadVars, criticalVars>>

\* MutexLocker mu(Safepoint_lock), _state = _not_synchronized.
desynchronize ==
  /\ vm = "end"
  /\ vm' = "restart"
  /\ state' = "_not_synchronized"
  /\ UNCHANGED <<waiting_to_block, PageArmed, type, threadVars, criticalVars>>

\* restart() of each thread, then Threads_lock->unlock().
restart ==
  /\ vm = "restart"
  /\ vm' = "loop"
  /\ type' = [t \in JavaThreads |-> "_running"]
  /\ UNCHANGED <<state, waiting_to_block, PageArmed, threadVars, criticalVars>>

-----------------------------------------------------------------------------
VMStep ==
  \/ start_synchronizing \/ make_polling_page_unreadable \/ spin_end \/ wait \/ synchronized
  \/ make_polling_page_readable \/ desynchronize \/ restart
  \/ \E t \in JavaThreads : examine_state_of_thread(t)

\* What a thread does on its way through a transition or block().
ThreadStep(t) == do_call_back(t) \/ set_thread_state(t) \/ block(t) \/ call_back(t) \/ leave_block(t)

\* What it does by itself: it leaves the VM or Java code, or comes back from a safe state.
LeaveUnsafe(t) ==
  /\ \/ \E p \in Transitions : p[1] = "_thread_in_vm" /\ transition(t, p[1], p[2])
     \/ \E dest \in {"_thread_in_vm", "_thread_in_native"} : transition_from_java(t, dest)
     \/ handle_polling_page_exception(t)
  /\ UNCHANGED <<vmVars, criticalVars>>

LeaveSafe(t) ==
  /\ \E p \in Transitions : p[1] # "_thread_in_vm" /\ transition(t, p[1], p[2])
  /\ UNCHANGED <<vmVars, criticalVars>>

Next == begin \/ VMStep \/ \E t \in JavaThreads : ThreadStep(t) \/ LeaveUnsafe(t) \/ LeaveSafe(t)

Spec == Init /\ [][Next]_vars

-----------------------------------------------------------------------------
(* Properties. *)

\* "All Java threads are stopped at a safepoint" (safepoint.hpp): while _state is
\* _synchronized no thread is in Java or VM code, nor past the test that would let it there.
Stopped ==
  state = "_synchronized" =>
    \A t \in JavaThreads :
      /\ thread_state[t] \in {"_thread_in_native", "_thread_in_native_trans", "_thread_blocked", "_thread_blocked_trans"}
      /\ pc[t] # "set_thread_state"

\* _waiting_to_block is the number of threads still to be counted out: each thread is counted
\* once, by the VM thread that saw it safe or by itself when it called back.
CountedOnce ==
  state = "_synchronizing" =>
    waiting_to_block = Cardinality({t \in JavaThreads :
                                      type[t] = "_running" \/ (type[t] = "_call_back" /\ pc[t] # "Threads_lock")})

\* "Deadlock in safepoint code.  Should have called back to the VM before blocking." is never
\* reached in block(), and a page trap finds the safepoint in progress and its thread running.
NoFatal ==
  \A t \in JavaThreads :
    /\ pc[t] = "block" /\ ~MustCallBack(t) => type[t] # "_call_back"
    /\ Running(t, "_thread_in_Java") /\ PageArmed => state = "_synchronizing" /\ type[t] = "_running"
    /\ pc[t] = "Safepoint_lock" => state = "_synchronizing"

\* A safepoint that was begun is reached and ended, whatever the threads are doing: the
\* notification of the last thread to call back is not lost.
SafepointCompletes == state = "_synchronizing" ~> state = "_synchronized" /\ <>(state = "_not_synchronized")
=============================================================================
