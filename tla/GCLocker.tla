-------------------------------- MODULE GCLocker --------------------------------
(***************************************************************************)
(* JNI critical regions against collections (share/vm/memory/gcLocker.cpp) *)
(* on top of the safepoint protocol: the regions are entered and left by   *)
(* threads in the VM, collections happen at safepoints, and a lazy         *)
(* critical native is entered without the lock and made a region by the    *)
(* VM thread when it finds the thread in it.                               *)
(***************************************************************************)
EXTENDS Safepoint

CONSTANTS
  MaxCritical,      \* bound: nesting of the critical regions of one thread
  Calls,            \* what each thread may do: "critical", "allocate", "lazy", run "Java" code
  OtherSafepoints,  \* whether there are safepoints for other operations
  NoThread

ASSUME GCAssumption ==
  /\ MaxCritical \in Nat
  /\ Calls \in [JavaThreads -> SUBSET {"critical", "allocate", "lazy", "Java"}]
  /\ OtherSafepoints \in BOOLEAN
  /\ NoThread \notin JavaThreads

VARIABLES
  needs_gc,   \* _needs_gc
  doing_gc,   \* _doing_gc
  owner,      \* the owners of JNICritical_lock and of Heap_lock
  waiters,    \* the wait set of JNICritical_lock
  op,         \* what the thread is doing in the GC locker or the heap
  caller,     \* who called lock_critical or unlock_critical
  request,    \* the VM operation of the owner of Heap_lock
  stale,      \* total_collections() has moved since the thread read it
  collected   \* history: a collection has been done since _needs_gc was set

lockerVars == <<needs_gc, doing_gc, owner, waiters, op, caller, request, stale, collected>>
gcVars == <<vars, lockerVars>>

GCInit ==
  /\ Init
  /\ needs_gc = FALSE
  /\ doing_gc = FALSE
  /\ owner = [l \in {"JNICritical_lock", "Heap_lock"} |-> NoThread]
  /\ waiters = {}
  /\ op = [t \in JavaThreads |-> "none"]
  /\ caller = [t \in JavaThreads |-> "none"]
  /\ request = "none"
  /\ stale = [t \in JavaThreads |-> FALSE]
  /\ collected = FALSE

InVM(t) == Running(t, "_thread_in_vm")

is_active_and_needs_gc == needs_gc /\ jni_lock_count > 0

\* The lock that an operation takes before anything else.
LockOf(o) ==
  CASE o \in {"jni_lock", "jni_lock_wait", "jni_unlock", "relock", "stall", "stall_wait"} -> "JNICritical_lock"
    [] o \in {"mem_allocate", "collect", "doit_prologue"} -> "Heap_lock"
    [] OTHER -> "none"

Locked(t, o) == InVM(t) /\ op[t] = o /\ owner[LockOf(o)] = t

Unlock(l) == owner' = [owner EXCEPT ![l] = NoThread]

Goto(t, o) == op' = [op EXCEPT ![t] = o]

-----------------------------------------------------------------------------
(* Monitor::lock and Monitor::wait of a Java thread: it waits as _thread_blocked, *)
(* and goes back to the VM, past a safepoint if there is one, with the lock.      *)

lock(t) ==
  LET l == LockOf(op[t]) IN
  /\ l # "none"
  /\ owner[l] # t
  /\ t \notin waiters
  /\ \/ /\ InVM(t) \/ Running(t, "_thread_blocked")
        /\ owner[l] = NoThread
        /\ owner' = [owner EXCEPT ![l] = t]
        /\ UNCHANGED threadVars
     \/ /\ owner[l] # NoThread
        /\ transition(t, "_thread_in_vm", "_thread_blocked")
        /\ UNCHANGED owner
  /\ UNCHANGED <<vmVars, criticalVars, needs_gc, doing_gc, waiters, op, caller, request, stale, collected>>

relock_in_vm(t) ==
  /\ op[t] \notin {"jni_lock_wait", "stall_wait"}
  /\ LockOf(op[t]) # "none"
  /\ owner[LockOf(op[t])] = t
  /\ transition(t, "_thread_blocked", "_thread_in_vm")
  /\ UNCHANGED <<vmVars, criticalVars, lockerVars>>

\* ThreadBlockInVM, still with the lock; then the lock is given up.
wait_JNICritical(t, o) ==
  /\ transition(t, "_thread_in_vm", "_thread_blocked")
  /\ Goto(t, IF o = "stall" THEN "stall_wait" ELSE "jni_lock_wait")
  /\ UNCHANGED <<vmVars, criticalVars, needs_gc, doing_gc, owner, waiters, caller, request, stale, collected>>

IWait(t) ==
  /\ op[t] \in {"jni_lock_wait", "stall_wait"}
  /\ Running(t, "_thread_blocked")
  /\ Unlock("JNICritical_lock")
  /\ waiters' = waiters \cup {t}
  /\ Goto(t, IF op[t] = "stall_wait" THEN "stall" ELSE "jni_lock")
  /\ UNCHANGED <<vars, needs_gc, doing_gc, caller, request, stale, collected>>

-----------------------------------------------------------------------------
(* Entering and leaving a region. *)

\* GetPrimitiveArrayCritical, ReleasePrimitiveArrayCritical.
GetPrimitiveArrayCritical(t) ==
  /\ "critical" \in Calls[t]
  /\ InVM(t) /\ op[t] = "none" /\ critical[t] < MaxCritical
  /\ Goto(t, "lock_critical")
  /\ caller' = [caller EXCEPT ![t] = "jni"]
  /\ UNCHANGED <<vars, needs_gc, doing_gc, owner, waiters, request, stale, collected>>

ReleasePrimitiveArrayCritical(t) ==
  /\ InVM(t) /\ op[t] = "none" /\ in_critical(t)
  /\ Goto(t, "unlock_critical")
  /\ caller' = [caller EXCEPT ![t] = "jni"]
  /\ UNCHANGED <<vars, needs_gc, doing_gc, owner, waiters, request, stale, collected>>

\* Only the outermost region tests _needs_gc; the fast paths take no lock.
lock_critical(t) ==
  /\ op[t] = "lock_critical"
  /\ Goto(t, IF ~in_critical(t) /\ needs_gc THEN "jni_lock" ELSE "enter_critical")
  /\ UNCHANGED <<vars, needs_gc, doing_gc, owner, waiters, caller, request, stale, collected>>

\* A plausible bug: every region is left on the fast path.
unlock_critical_fast(t) ==
  /\ op[t] = "unlock_critical"
  /\ Goto(t, "exit_critical")
  /\ UNCHANGED <<vars, needs_gc, doing_gc, owner, waiters, caller, request, stale, collected>>

unlock_critical(t) ==
  /\ op[t] = "unlock_critical"
  /\ Goto(t, IF critical[t] = 1 /\ needs_gc THEN "jni_unlock" ELSE "exit_critical")
  /\ UNCHANGED <<vars, needs_gc, doing_gc, owner, waiters, caller, request, stale, collected>>

\* block_for_jni_critical leaves the region at once, and so does nobody else.
AfterLock(t) ==
  /\ Goto(t, IF caller[t] = "block_for_jni_critical" THEN "unlock_critical" ELSE "none")
  /\ caller' = IF caller[t] = "jni" THEN [caller EXCEPT ![t] = "none"] ELSE caller

\* The return from unlock_critical; a lazy native's wrapper clears its flag after it.
AfterUnlock(t) ==
  /\ Goto(t, IF caller[t] = "jni" THEN "none" ELSE "to_Java")
  /\ caller' = IF caller[t] = "jni" THEN [caller EXCEPT ![t] = "none"] ELSE caller
  /\ native_unlock' = IF caller[t] = "native_unlock" THEN [native_unlock EXCEPT ![t] = FALSE] ELSE native_unlock

enter_critical(t) ==
  /\ op[t] = "enter_critical"
  /\ critical' = [critical EXCEPT ![t] = @ + 1]
  /\ AfterLock(t)
  /\ UNCHANGED <<vmVars, threadVars, lazy, native_unlock, jni_active_count, jni_lock_count,
                 needs_gc, doing_gc, owner, waiters, request, stale, collected>>

exit_critical(t) ==
  /\ op[t] = "exit_critical"
  /\ critical' = [critical EXCEPT ![t] = @ - 1]
  /\ AfterUnlock(t)
  /\ UNCHANGED <<vmVars, threadVars, lazy, jni_active_count, jni_lock_count,
                 needs_gc, doing_gc, owner, waiters, request, stale, collected>>

\* A plausible bug: jni_lock does not wait for the collection of the last thread out.
jni_lock_nodoing(t) ==
  /\ Locked(t, "jni_lock")
  /\ IF is_active_and_needs_gc
     THEN wait_JNICritical(t, "jni_lock")
     ELSE /\ critical' = [critical EXCEPT ![t] = @ + 1]
          /\ jni_lock_count' = jni_lock_count + 1
          /\ Unlock("JNICritical_lock")
          /\ AfterLock(t)
          /\ UNCHANGED <<vmVars, threadVars, lazy, native_unlock, jni_active_count,
                         needs_gc, doing_gc, waiters, request, stale, collected>>

jni_lock(t) ==
  /\ Locked(t, "jni_lock")
  /\ IF is_active_and_needs_gc \/ doing_gc
     THEN wait_JNICritical(t, "jni_lock")
     ELSE /\ critical' = [critical EXCEPT ![t] = @ + 1]
          /\ jni_lock_count' = jni_lock_count + 1
          /\ Unlock("JNICritical_lock")
          /\ AfterLock(t)
          /\ UNCHANGED <<vmVars, threadVars, lazy, native_unlock, jni_active_count,
                         needs_gc, doing_gc, waiters, request, stale, collected>>

\* A plausible bug: jni_unlock tests the count before it leaves the region.
jni_unlock_early(t) ==
  /\ Locked(t, "jni_unlock")
  /\ jni_lock_count' = jni_lock_count - 1
  /\ critical' = [critical EXCEPT ![t] = @ - 1]
  /\ Unlock("JNICritical_lock")
  /\ IF needs_gc /\ jni_lock_count = 0
     THEN doing_gc' = TRUE /\ Goto(t, "collect") /\ UNCHANGED <<caller, native_unlock>>
     ELSE AfterUnlock(t) /\ UNCHANGED doing_gc
  /\ UNCHANGED <<vmVars, threadVars, lazy, jni_active_count, needs_gc, waiters, request, stale, collected>>

\* The last thread out of the regions collects, without the lock.
jni_unlock(t) ==
  /\ Locked(t, "jni_unlock")
  /\ jni_lock_count' = jni_lock_count - 1
  /\ critical' = [critical EXCEPT ![t] = @ - 1]
  /\ Unlock("JNICritical_lock")
  /\ IF needs_gc /\ jni_lock_count = 1
     THEN doing_gc' = TRUE /\ Goto(t, "collect") /\ UNCHANGED <<caller, native_unlock>>
     ELSE AfterUnlock(t) /\ UNCHANGED doing_gc
  /\ UNCHANGED <<vmVars, threadVars, lazy, jni_active_count, needs_gc, waiters, request, stale, collected>>

\* A plausible bug: nobody is notified.
clear_needs_gc_silent(t) ==
  /\ Locked(t, "relock")
  /\ doing_gc' = FALSE
  /\ needs_gc' = FALSE
  /\ collected' = FALSE
  /\ waiters' = waiters
  /\ Unlock("JNICritical_lock")
  /\ AfterUnlock(t)
  /\ UNCHANGED <<vmVars, threadVars, critical, lazy, jni_active_count, jni_lock_count, request, stale>>

clear_needs_gc(t) ==
  /\ Locked(t, "relock")
  /\ doing_gc' = FALSE
  /\ needs_gc' = FALSE
  /\ collected' = FALSE
  /\ waiters' = {}
  /\ Unlock("JNICritical_lock")
  /\ AfterUnlock(t)
  /\ UNCHANGED <<vmVars, threadVars, critical, lazy, jni_active_count, jni_lock_count, request, stale>>

stall_until_clear(t) ==
  /\ Locked(t, "stall")
  /\ IF needs_gc
     THEN wait_JNICritical(t, "stall")
     ELSE /\ Unlock("JNICritical_lock")
          /\ Goto(t, "mem_allocate")
          /\ UNCHANGED <<vars, needs_gc, doing_gc, waiters, caller, request, stale, collected>>

-----------------------------------------------------------------------------
(* Requests for a collection, and the VM thread's part. *)

\* An allocation that the eden cannot satisfy.
allocate(t) ==
  /\ "allocate" \in Calls[t]
  /\ InVM(t) /\ op[t] = "none"
  /\ Goto(t, "mem_allocate")
  /\ UNCHANGED <<vars, needs_gc, doing_gc, owner, waiters, caller, request, stale, collected>>

\* One turn of the loop under Heap_lock: be satisfied or give up, stall, or ask for a collection.
\* While the locker holds collections up a thread in a region has to give up.
mem_allocate_work(t) ==
  /\ Locked(t, "mem_allocate")
  /\ Unlock("Heap_lock")
  /\ stale' = [stale EXCEPT ![t] = FALSE]
  /\ \/ Goto(t, "none")
     \/ is_active_and_needs_gc /\ ~in_critical(t) /\ Goto(t, "stall")
     \/ ~is_active_and_needs_gc /\ Goto(t, "doit_prologue")
  /\ UNCHANGED <<vars, needs_gc, doing_gc, waiters, caller, request, collected>>

\* GenCollectedHeap::collect(_gc_locker): read the counts.
collect(t) ==
  /\ Locked(t, "collect")
  /\ Unlock("Heap_lock")
  /\ stale' = [stale EXCEPT ![t] = FALSE]
  /\ Goto(t, "doit_prologue")
  /\ UNCHANGED <<vars, needs_gc, doing_gc, waiters, caller, request, collected>>

\* Where an allocation and where collect() go on after the VM operation.
AfterOperation(t, outcomes) ==
  IF caller[t] # "none" THEN Goto(t, "relock") ELSE \E o \in outcomes : Goto(t, o)

\* The last thread out asks for a full collection, which only a full collection makes stale.
WantsFull(t) == caller[t] # "none"

\* skip_operation: somebody has collected, or a maximal heap is locked.  Otherwise the
\* operation is queued and the thread waits, with Heap_lock, as _thread_blocked.
doit_prologue(t) ==
  /\ Locked(t, "doit_prologue")
  /\ \/ /\ stale[t] \/ is_active_and_needs_gc
        /\ Unlock("Heap_lock")
        /\ AfterOperation(t, {"mem_allocate"})
        /\ stale' = [stale EXCEPT ![t] = FALSE]
        /\ UNCHANGED <<threadVars, request>>
     \/ /\ ~stale[t]
        /\ request' = "queued"
        /\ Goto(t, "execute")
        /\ transition(t, "_thread_in_vm", "_thread_blocked")
        /\ UNCHANGED <<owner, stale>>
  /\ UNCHANGED <<vmVars, criticalVars, needs_gc, doing_gc, waiters, caller, collected>>

execute_return(t) ==
  /\ op[t] = "execute"
  /\ request \in {"done", "gc_locked"}
  /\ transition(t, "_thread_blocked", "_thread_in_vm")
  /\ UNCHANGED <<vmVars, criticalVars, lockerVars>>

doit_epilogue(t) ==
  /\ InVM(t) /\ op[t] = "execute" /\ request \in {"done", "gc_locked"}
  /\ Unlock("Heap_lock")
  /\ AfterOperation(t, IF request = "done" THEN {"none"} ELSE {"none", "mem_allocate"})
  /\ request' = "none"
  /\ UNCHANGED <<vars, needs_gc, doing_gc, waiters, caller, stale, collected>>

\* check_active_before_gc in the VM operation: if a region is active there is no collection.
check_active_before_gc ==
  /\ vm = "safepoint"
  /\ request = "queued"
  /\ IF jni_lock_count > 0
     THEN /\ needs_gc' = TRUE
          /\ request' = "gc_locked"
     ELSE /\ request' = "collecting"
          /\ UNCHANGED needs_gc
  /\ UNCHANGED <<vars, doing_gc, owner, waiters, op, caller, stale, collected>>

\* For whomever it is, the collection may turn out to be a full one or not.
do_collection ==
  /\ request = "collecting"
  /\ request' = "done"
  /\ \E full \in BOOLEAN :
       stale' = [t \in JavaThreads |-> stale[t] \/ (op[t] = "doit_prologue" /\ (WantsFull(t) => full))]
  /\ collected' = needs_gc
  /\ UNCHANGED <<vars, needs_gc, doing_gc, owner, waiters, op, caller>>

-----------------------------------------------------------------------------
(* Lazy critical natives: the compiled wrapper. *)

\* check_needs_gc_for_critical_native tests once.
check_needs_gc_for_critical_native(t) ==
  /\ "lazy" \in Calls[t]
  /\ Running(t, "_thread_in_Java") /\ op[t] = "none" /\ ~native_unlock[t]
  /\ IF needs_gc
     THEN /\ transition_from_java(t, "_thread_in_vm")
          /\ Goto(t, "lock_critical")
          /\ caller' = [caller EXCEPT ![t] = "block_for_jni_critical"]
     ELSE /\ Goto(t, "to_native")
          /\ UNCHANGED <<threadVars, caller>>
  /\ UNCHANGED <<vmVars, criticalVars, needs_gc, doing_gc, owner, waiters, request, stale, collected>>

\* The end of the runtime call of the wrapper.
return_to_wrapper(t) ==
  /\ op[t] = "to_Java"
  /\ transition(t, "_thread_in_vm", "_thread_in_Java")
  /\ Goto(t, IF caller[t] = "block_for_jni_critical" THEN "to_native" ELSE "none")
  /\ caller' = [caller EXCEPT ![t] = "none"]
  /\ UNCHANGED <<vmVars, criticalVars, needs_gc, doing_gc, owner, waiters, request, stale, collected>>

call_critical_native(t) ==
  /\ op[t] = "to_native"
  /\ transition_from_java(t, "_thread_in_native")
  /\ lazy' = [lazy EXCEPT ![t] = TRUE]
  /\ Goto(t, "none")
  /\ UNCHANGED <<vmVars, critical, native_unlock, jni_active_count, jni_lock_count,
                 needs_gc, doing_gc, owner, waiters, caller, request, stale, collected>>

return_from_critical_native(t) ==
  /\ lazy[t]
  /\ transition(t, "_thread_in_native", "_thread_in_Java")
  /\ lazy' = [lazy EXCEPT ![t] = FALSE]
  /\ UNCHANGED <<vmVars, critical, native_unlock, jni_active_count, jni_lock_count, lockerVars>>

\* check_special_condition_for_native_trans_and_transition, after the transition.
critical_native_unlock(t) ==
  /\ native_unlock[t] /\ op[t] = "none"
  /\ transition_from_java(t, "_thread_in_vm")
  /\ Goto(t, "unlock_critical")
  /\ caller' = [caller EXCEPT ![t] = "native_unlock"]
  /\ UNCHANGED <<vmVars, criticalVars, needs_gc, doing_gc, owner, waiters, request, stale, collected>>

-----------------------------------------------------------------------------
LockerStep(t) ==
  \/ lock(t) \/ relock_in_vm(t) \/ IWait(t)
  \/ lock_critical(t) \/ unlock_critical(t) \/ enter_critical(t) \/ exit_critical(t)
  \/ jni_lock(t) \/ jni_unlock(t) \/ clear_needs_gc(t) \/ stall_until_clear(t)
  \/ mem_allocate_work(t) \/ collect(t) \/ doit_prologue(t) \/ execute_return(t) \/ doit_epilogue(t)
  \/ return_to_wrapper(t) \/ call_critical_native(t) \/ return_from_critical_native(t) \/ critical_native_unlock(t)

Call(t) == GetPrimitiveArrayCritical(t) \/ allocate(t) \/ check_needs_gc_for_critical_native(t)

\* A thread outside the GC locker moves between native code and the VM, and also runs Java
\* code, but not in a critical region.
Outside(t) == op[t] = "none" /\ ~lazy[t] /\ ~native_unlock[t] /\ UNCHANGED lockerVars

Allowed(t) ==
  {"_thread_in_vm", "_thread_in_native"} \cup
  IF "Java" \in Calls[t] /\ ~in_critical(t) THEN {"_thread_in_Java"} ELSE {}

Leave(t) == Outside(t) /\ LeaveUnsafe(t) /\ {to'[t], thread_state'[t]} \cap (RunStates \ Allowed(t)) = {}

Enter(t) == Outside(t) /\ LeaveSafe(t) /\ to'[t] \in Allowed(t)

Transition(t) == ThreadStep(t) /\ UNCHANGED lockerVars

\* The VM thread leaves the safepoint when its queue is empty.
VMThreadStep ==
  \/ VMStep /\ (vm = "safepoint" => request \notin {"queued", "collecting"}) /\ UNCHANGED lockerVars
  \/ check_active_before_gc
  \/ do_collection

Begin == (request = "queued" \/ OtherSafepoints) /\ begin /\ UNCHANGED lockerVars

GCNext ==
  \/ Begin \/ VMThreadStep
  \/ \E t \in JavaThreads :
       Transition(t) \/ Leave(t) \/ Enter(t) \/ LockerStep(t) \/ Call(t) \/ ReleasePrimitiveArrayCritical(t)

GCSpec == GCInit /\ [][GCNext]_gcVars

\* The VM thread takes up a queued operation; a thread that waits for a lock which is free
\* again and again gets it in the end (safepoints that nobody asks for are rare: one per
\* GuaranteedSafepointInterval).  A thread does not stay in the VM for ever.  Critical regions
\* are "well bounded": native code in one comes back to the VM, and in the end to release it.
GCFairness ==
  /\ WF_gcVars(VMThreadStep)
  /\ WF_gcVars(Begin /\ request = "queued")
  /\ \A t \in JavaThreads :
       /\ SF_gcVars(Transition(t) \/ LockerStep(t))
       /\ SF_gcVars(Leave(t))
       /\ WF_gcVars(in_critical(t) /\ Enter(t))
       /\ SF_gcVars(ReleasePrimitiveArrayCritical(t))

GCFairSpec == GCSpec /\ GCFairness

-----------------------------------------------------------------------------
(* Properties. *)

Critical == {t \in JavaThreads : in_critical(t)}

\* A collection never runs while a thread is in a critical region or in a lazy critical native.
NoGCInCritical == request = "collecting" => Critical = {} /\ \A t \in JavaThreads : ~lazy[t]

\* verify_critical_count: "must be equal", at a safepoint.
CriticalCount == state = "_synchronized" => jni_lock_count = Cardinality(Critical)

\* "It's only kept up to date when _needs_gc is true" (gcLocker.hpp:52): then _jni_lock_count is
\* the number of threads in a region, between safepoints as well.  While the VM thread
\* synchronizes it may fall behind: a lazy native that examine_state_of_thread makes a region is
\* counted only at the end of begin().  It is never ahead.
CountUpToDate ==
  needs_gc => /\ jni_lock_count <= Cardinality(Critical)
              /\ state # "_synchronizing" => jni_lock_count = Cardinality(Critical)

\* "a GC request won't be starved by overlapping JNI critical region activities": _needs_gc is
\* only cleared once a collection has been done for it.
RequestServed == [][needs_gc /\ ~needs_gc' => collected]_gcVars

\* "GC_locker cannot be active when initiating GC": the last thread out of the regions finds
\* none active when it asks for the collection.
InactiveWhenInitiating ==
  \A t \in JavaThreads : Locked(t, "doit_prologue") /\ caller[t] # "none" => ~is_active_and_needs_gc

\* A collection that was put off is made up for: some last thread out of the regions clears
\* _needs_gc.
NeedsGCCleared == needs_gc ~> ~needs_gc

\* Nobody waits on JNICritical_lock for ever, in jni_lock or in stall_until_clear.
StallEnds == waiters # {} ~> waiters = {}
=============================================================================
