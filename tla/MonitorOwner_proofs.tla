-------------------------- MODULE MonitorOwner_proofs --------------------------
(***************************************************************************)
(* The owner of a Monitor is exclusive and a sneak ends with its           *)
(* safepoint, for every set of threads that use the Monitor the way the    *)
(* VM does.                                                                *)
(***************************************************************************)
EXTENDS MonitorOwner, TLAPS

\* What the VM keeps to on a Monitor that the VM thread may sneak past: besides it only Java
\* threads use the Monitor, and the VM thread does not notify on it.
Disciplined ==
  Calls[VMThread] \cap {"lock", "try_lock"} # {} =>
    /\ \A t \in NonJavaThreads : Calls[t] = {}
    /\ "notify_all" \notin Calls[VMThread]

\* Where only a Java thread goes: the transitions of ThreadBlockInVM and a suspended wait.
JavaLabels == {"tbivm_enter", "tbivm_exit", "wait_tbivm_enter", "suspend_check", "suspended"}

Types ==
  /\ Calls \in Uses
  /\ pc = [t \in Threads |-> pc[t]]
  /\ LockByte \in BOOLEAN /\ snuck \in BOOLEAN
  /\ owner \in Threads \cup {NULL}
  /\ sync_state \in {"_not_synchronized", "_synchronizing", "_synchronized"}

\* Only Java threads are at the labels of ThreadBlockInVM, a thread waits when it is on the
\* wait set, and who may not call the monitor is not in it.
Flow ==
  /\ \A t \in Threads : pc[t] \in JavaLabels => t \in JavaThreads
  /\ \A t \in Threads : t \in WaitSet <=> pc[t] = "waiting"
  /\ WaitSet \subseteq Threads
  /\ \A t \in Threads : Calls[t] = {} => pc[t] = "idle"
  /\ pc[VMThread] = "contended" => "lock" \in Calls[VMThread]

\* While a safepoint is on the Java threads are where it has stopped them or will; the VM
\* thread is outside of the monitor until it is reached.
Stopping ==
  /\ sync_state = "_synchronized" => \A t \in JavaThreads : pc[t] \in SafeLabels
  /\ sync_state = "_synchronizing" => pc[VMThread] = "idle"

\* A sneak past the lock is by a VM thread that makes use of the discipline.
Sneaking == snuck => Calls[VMThread] \cap {"lock", "try_lock"} # {}

IInv == Types /\ Flow /\ Stopping /\ Sneaking /\ OwnerExclusion /\ SneakScope

\* A step of thread t that takes it from one label to another.
Move(t, from, dest) == pc[t] = from /\ pc' = [pc EXCEPT ![t] = dest]

\* Who the threads are.
LEMMA Constants ==
  /\ VMThread \in Threads /\ VMThread \notin JavaThreads
  /\ \A t \in JavaThreads \cup NonJavaThreads : t \in Threads
  /\ \A t \in Threads : t \in JavaThreads \/ t = VMThread \/ t \in NonJavaThreads
  /\ NULL \notin Threads
  BY ConstantsAssumption DEF Threads

\* However the Monitor is used, the VM keeps to its rule.
LEMMA UsesDisciplined == Calls \in Uses => Disciplined
  BY ConstantsAssumption DEF Discipline, Sneaks, Disciplined

\* No step of a thread breaks the invariant.
LEMMA ThreadKeeps ==
  ASSUME IInv, NEW t \in Threads, Client(t) \/ Step(t) \/ Timeout(t)
  PROVE  IInv'
<1> USE Constants DEF IInv
<1> Disciplined
  BY UsesDisciplined DEF Types
<1>1. CASE lock(t)
  <2>1. CASE LockByte
    <3>1. /\ Move(t, "idle", "contended")
          /\ LockByte' = TRUE
          /\ UNCHANGED <<snuck, owner, WaitSet, sync_state, Calls>>
          /\ "lock" \in Calls[t]
          /\ (t \in JavaThreads => sync_state = "_not_synchronized")
          /\ (t = VMThread => sync_state # "_synchronizing")
      BY <1>1, <2>1 DEF lock, MayCall, Take, IsJava, do_call_back, Goto, Move, Types
    <3>2. Types'
      BY <3>1, <2>1 DEF Move, Types
    <3>3. Flow'
      BY <3>1, <2>1 DEF Move, Types, Flow, JavaLabels
    <3>4. Stopping'
      BY <3>1, <2>1 DEF Move, Types, Stopping, SafeLabels
    <3>5. Sneaking'
      BY <3>1, <2>1 DEF Move, Sneaking
    <3>6. OwnerExclusion'
      BY <3>1, <2>1 DEF Move, Types, OwnerExclusion
    <3>7. SneakScope'
      BY <3>1, <2>1 DEF Move, Types, SneakScope, HoldsByte
    <3> QED
      BY <3>2, <3>3, <3>4, <3>5, <3>6, <3>7
  <2>2. CASE ~LockByte
    <3>1. /\ Move(t, "idle", "Exeunt")
          /\ LockByte' = TRUE
          /\ UNCHANGED <<snuck, owner, WaitSet, sync_state, Calls>>
          /\ "lock" \in Calls[t]
          /\ (t \in JavaThreads => sync_state = "_not_synchronized")
          /\ (t = VMThread => sync_state # "_synchronizing")
      BY <1>1, <2>2 DEF lock, MayCall, Take, IsJava, do_call_back, Goto, Move, Types
    <3>2. Types'
      BY <3>1, <2>2 DEF Move, Types
    <3>3. Flow'
      BY <3>1, <2>2 DEF Move, Types, Flow, JavaLabels
    <3>4. Stopping'
      BY <3>1, <2>2 DEF Move, Types, Stopping, SafeLabels
    <3>5. Sneaking'
      BY <3>1, <2>2 DEF Move, Sneaking
    <3>6. OwnerExclusion'
      BY <3>1, <2>2
         DEF Move, Types, Flow, Stopping, Sneaking, OwnerExclusion, SneakScope, HoldsByte, JavaLabels,
             SafeLabels, Disciplined, IsJava, can_sneak
    <3>7. SneakScope'
      BY <3>1, <2>2 DEF Move, Types, SneakScope, HoldsByte
    <3> QED
      BY <3>2, <3>3, <3>4, <3>5, <3>6, <3>7
  <2> QED
    BY <1>1, <2>1, <2>2
<1>2. CASE lock_without_safepoint_check(t)
  <2>1. CASE LockByte
    <3>1. /\ Move(t, "idle", IF t \in JavaThreads THEN "ILock_in_vm" ELSE "ILock")
          /\ LockByte' = TRUE
          /\ UNCHANGED <<snuck, owner, WaitSet, sync_state, Calls>>
          /\ "lock_without_safepoint_check" \in Calls[t]
          /\ (t \in JavaThreads => sync_state = "_not_synchronized")
          /\ (t = VMThread => sync_state # "_synchronizing")
      BY <1>2, <2>1 DEF lock_without_safepoint_check, MayCall, Take, IsJava, do_call_back, Goto, Move, Types
    <3>2. Types'
      BY <3>1, <2>1 DEF Move, Types
    <3>3. Flow'
      BY <3>1, <2>1 DEF Move, Types, Flow, JavaLabels
    <3>4. Stopping'
      BY <3>1, <2>1 DEF Move, Types, Stopping, SafeLabels
    <3>5. Sneaking'
      BY <3>1, <2>1 DEF Move, Sneaking
    <3>6. OwnerExclusion'
      BY <3>1, <2>1 DEF Move, Types, OwnerExclusion
    <3>7. SneakScope'
      BY <3>1, <2>1 DEF Move, Types, SneakScope, HoldsByte
    <3> QED
      BY <3>2, <3>3, <3>4, <3>5, <3>6, <3>7
  <2>2. CASE ~LockByte
    <3>1. /\ Move(t, "idle", "Exeunt")
          /\ LockByte' = TRUE
          /\ UNCHANGED <<snuck, owner, WaitSet, sync_state, Calls>>
          /\ "lock_without_safepoint_check" \in Calls[t]
          /\ (t \in JavaThreads => sync_state = "_not_synchronized")
          /\ (t = VMThread => sync_state # "_synchronizing")
      BY <1>2, <2>2 DEF lock_without_safepoint_check, MayCall, Take, IsJava, do_call_back, Goto, Move, Types
    <3>2. Types'
      BY <3>1, <2>2 DEF Move, Types
    <3>3. Flow'
      BY <3>1, <2>2 DEF Move, Types, Flow, JavaLabels
    <3>4. Stopping'
      BY <3>1, <2>2 DEF Move, Types, Stopping, SafeLabels
    <3>5. Sneaking'
      BY <3>1, <2>2 DEF Move, Sneaking
    <3>6. OwnerExclusion'
      BY <3>1, <2>2
         DEF Move, Types, Flow, Stopping, Sneaking, OwnerExclusion, SneakScope, HoldsByte, JavaLabels,
             SafeLabels, Disciplined, IsJava, can_sneak
    <3>7. SneakScope'
      BY <3>1, <2>2 DEF Move, Types, SneakScope, HoldsByte
    <3> QED
      BY <3>2, <3>3, <3>4, <3>5, <3>6, <3>7
  <2> QED
    BY <1>2, <2>1, <2>2
<1>3. CASE try_lock(t)
  <2>1. CASE can_sneak(t)
    <3>1. /\ Move(t, "idle", "cs")
          /\ snuck' = TRUE /\ owner' = t
          /\ UNCHANGED <<LockByte, WaitSet, sync_state, Calls>>
          /\ "try_lock" \in Calls[t]
          /\ (t \in JavaThreads => sync_state = "_not_synchronized")
          /\ (t = VMThread => sync_state # "_synchronizing")
          /\ (~can_sneak(t) => ~LockByte)
      BY <1>3, <2>1 DEF try_lock, MayCall, Take, IsJava, do_call_back, Goto, Move, Types
    <3>2. Types'
      BY <3>1, <2>1 DEF Move, Types
    <3>3. Flow'
      BY <3>1, <2>1 DEF Move, Types, Flow, JavaLabels
    <3>4. Stopping'
      BY <3>1, <2>1 DEF Move, Types, Stopping, SafeLabels
    <3>5. Sneaking'
      BY <3>1, <2>1 DEF Move, Flow, Sneaking, can_sneak
    <3>6. OwnerExclusion'
      BY <3>1, <2>1
         DEF Move, Types, Flow, Stopping, Sneaking, OwnerExclusion, SneakScope, HoldsByte, JavaLabels,
             SafeLabels, Disciplined, IsJava, can_sneak
    <3>7. SneakScope'
      BY <3>1, <2>1
         DEF Move, Types, Flow, Stopping, Sneaking, OwnerExclusion, SneakScope, HoldsByte, JavaLabels,
             SafeLabels, Disciplined, IsJava, can_sneak
    <3> QED
      BY <3>2, <3>3, <3>4, <3>5, <3>6, <3>7
  <2>2. CASE ~can_sneak(t)
    <3>1. /\ Move(t, "idle", "Exeunt")
          /\ LockByte' = TRUE
          /\ UNCHANGED <<snuck, owner, WaitSet, sync_state, Calls>>
          /\ "try_lock" \in Calls[t]
          /\ (t \in JavaThreads => sync_state = "_not_synchronized")
          /\ (t = VMThread => sync_state # "_synchronizing")
          /\ (~can_sneak(t) => ~LockByte)
      BY <1>3, <2>2 DEF try_lock, MayCall, Take, IsJava, do_call_back, Goto, Move, Types
    <3>2. Types'
      BY <3>1, <2>2 DEF Move, Types
    <3>3. Flow'
      BY <3>1, <2>2 DEF Move, Types, Flow, JavaLabels
    <3>4. Stopping'
      BY <3>1, <2>2 DEF Move, Types, Stopping, SafeLabels
    <3>5. Sneaking'
      BY <3>1, <2>2 DEF Move, Sneaking
    <3>6. OwnerExclusion'
      BY <3>1, <2>2
         DEF Move, Types, Flow, Stopping, Sneaking, OwnerExclusion, SneakScope, HoldsByte, JavaLabels,
             SafeLabels, Disciplined, IsJava, can_sneak
    <3>7. SneakScope'
      BY <3>1, <2>2 DEF Move, Types, SneakScope, HoldsByte
    <3> QED
      BY <3>2, <3>3, <3>4, <3>5, <3>6, <3>7
  <2> QED
    BY <1>3, <2>1, <2>2
<1>4. CASE wait(t)
  <2>1. CASE IsJava(t)
    <3>1. /\ Move(t, "cs", "wait_tbivm_enter")
          /\ owner' = NULL
          /\ UNCHANGED <<LockByte, snuck, WaitSet, sync_state, Calls>>
          /\ t = VMThread => sync_state = "_not_synchronized"
      BY <1>4, <2>1 DEF wait, IsJava, Goto, Move, Types
    <3>2. Types'
      BY <3>1, <2>1 DEF Move, Types
    <3>3. Flow'
      BY <3>1, <2>1 DEF Move, Types, Flow, JavaLabels, IsJava
    <3>4. Stopping'
      BY <3>1, <2>1 DEF Move, Types, Stopping, SafeLabels
    <3>5. Sneaking'
      BY <3>1, <2>1 DEF Move, Sneaking
    <3>6. OwnerExclusion'
      BY <3>1, <2>1 DEF Move, Types, OwnerExclusion
    <3>7. SneakScope'
      BY <3>1, <2>1 DEF Move, Types, SneakScope, HoldsByte
    <3> QED
      BY <3>2, <3>3, <3>4, <3>5, <3>6, <3>7
  <2>2. CASE ~IsJava(t)
    <3>1. /\ Move(t, "cs", "IWait")
          /\ owner' = NULL
          /\ UNCHANGED <<LockByte, snuck, WaitSet, sync_state, Calls>>
          /\ t = VMThread => sync_state = "_not_synchronized"
      BY <1>4, <2>2 DEF wait, IsJava, Goto, Move, Types
    <3>2. Types'
      BY <3>1, <2>2 DEF Move, Types
    <3>3. Flow'
      BY <3>1, <2>2 DEF Move, Types, Flow, JavaLabels
    <3>4. Stopping'
      BY <3>1, <2>2 DEF Move, Types, Stopping, SafeLabels
    <3>5. Sneaking'
      BY <3>1, <2>2 DEF Move, Sneaking
    <3>6. OwnerExclusion'
      BY <3>1, <2>2 DEF Move, Types, OwnerExclusion
    <3>7. SneakScope'
      BY <3>1, <2>2 DEF Move, Types, SneakScope, HoldsByte
    <3> QED
      BY <3>2, <3>3, <3>4, <3>5, <3>6, <3>7
  <2> QED
    BY <1>4, <2>1, <2>2
<1>5. CASE contended(t)
  <2>1. CASE can_sneak(t)
    <3>1. /\ Move(t, "contended", "Exeunt")
          /\ snuck' = TRUE
          /\ UNCHANGED <<LockByte, owner, WaitSet, sync_state, Calls>>
      BY <1>5, <2>1 DEF contended, Goto, Move, Types
    <3>2. Types'
      BY <3>1, <2>1 DEF Move, Types
    <3>3. Flow'
      BY <3>1, <2>1 DEF Move, Types, Flow, JavaLabels
    <3>4. Stopping'
      BY <3>1, <2>1 DEF Move, Types, Stopping, SafeLabels
    <3>5. Sneaking'
      BY <3>1, <2>1 DEF Move, Flow, Sneaking, can_sneak
    <3>6. OwnerExclusion'
      BY <3>1, <2>1
         DEF Move, Types, Flow, Stopping, Sneaking, OwnerExclusion, SneakScope, HoldsByte, JavaLabels,
             SafeLabels, Disciplined, IsJava, can_sneak
    <3>7. SneakScope'
      BY <3>1, <2>1
         DEF Move, Types, Flow, Stopping, Sneaking, OwnerExclusion, SneakScope, HoldsByte, JavaLabels,
             SafeLabels, Disciplined, IsJava, can_sneak
    <3> QED
      BY <3>2, <3>3, <3>4, <3>5, <3>6, <3>7
  <2>2. CASE ~can_sneak(t)
    <3>1. /\ Move(t, "contended", "spin")
          /\ UNCHANGED <<LockByte, snuck, owner, WaitSet, sync_state, Calls>>
      BY <1>5, <2>2 DEF contended, Goto, Move, Types
    <3>2. Types'
      BY <3>1, <2>2 DEF Move, Types
    <3>3. Flow'
      BY <3>1, <2>2 DEF Move, Types, Flow, JavaLabels
    <3>4. Stopping'
      BY <3>1, <2>2 DEF Move, Types, Stopping, SafeLabels
    <3>5. Sneaking'
      BY <3>1, <2>2 DEF Move, Sneaking
    <3>6. OwnerExclusion'
      BY <3>1, <2>2 DEF Move, Types, OwnerExclusion
    <3>7. SneakScope'
      BY <3>1, <2>2 DEF Move, Types, SneakScope, HoldsByte
    <3> QED
      BY <3>2, <3>3, <3>4, <3>5, <3>6, <3>7
  <2> QED
    BY <1>5, <2>1, <2>2
<1>6. CASE spin(t)
  <2>1. CASE LockByte /\ IsJava(t)
    <3>1. /\ Move(t, "spin", "tbivm_enter")
          /\ LockByte' = TRUE
          /\ UNCHANGED <<snuck, owner, WaitSet, sync_state, Calls>>
      BY <1>6, <2>1 DEF spin, Take, IsJava, Goto, Move, Types
    <3>2. Types'
      BY <3>1, <2>1 DEF Move, Types
    <3>3. Flow'
      BY <3>1, <2>1 DEF Move, Types, Flow, JavaLabels, IsJava
    <3>4. Stopping'
      BY <3>1, <2>1 DEF Move, Types, Stopping, SafeLabels
    <3>5. Sneaking'
      BY <3>1, <2>1 DEF Move, Sneaking
    <3>6. OwnerExclusion'
      BY <3>1, <2>1 DEF Move, Types, OwnerExclusion
    <3>7. SneakScope'
      BY <3>1, <2>1 DEF Move, Types, SneakScope, HoldsByte
    <3> QED
      BY <3>2, <3>3, <3>4, <3>5, <3>6, <3>7
  <2>2. CASE LockByte /\ ~IsJava(t)
    <3>1. /\ Move(t, "spin", "ILock")
          /\ LockByte' = TRUE
          /\ UNCHANGED <<snuck, owner, WaitSet, sync_state, Calls>>
      BY <1>6, <2>2 DEF spin, Take, IsJava, Goto, Move, Types
    <3>2. Types'
      BY <3>1, <2>2 DEF Move, Types
    <3>3. Flow'
      BY <3>1, <2>2 DEF Move, Types, Flow, JavaLabels
    <3>4. Stopping'
      BY <3>1, <2>2 DEF Move, Types, Stopping, SafeLabels
    <3>5. Sneaking'
      BY <3>1, <2>2 DEF Move, Sneaking
    <3>6. OwnerExclusion'
      BY <3>1, <2>2 DEF Move, Types, OwnerExclusion
    <3>7. SneakScope'
      BY <3>1, <2>2 DEF Move, Types, SneakScope, HoldsByte
    <3> QED
      BY <3>2, <3>3, <3>4, <3>5, <3>6, <3>7
  <2>3. CASE ~LockByte
    <3>1. /\ Move(t, "spin", "Exeunt")
          /\ LockByte' = TRUE
          /\ UNCHANGED <<snuck, owner, WaitSet, sync_state, Calls>>
      BY <1>6, <2>3 DEF spin, Take, IsJava, Goto, Move, Types
    <3>2. Types'
      BY <3>1, <2>3 DEF Move, Types
    <3>3. Flow'
      BY <3>1, <2>3 DEF Move, Types, Flow, JavaLabels
    <3>4. Stopping'
      BY <3>1, <2>3 DEF Move, Types, Stopping, SafeLabels
    <3>5. Sneaking'
      BY <3>1, <2>3 DEF Move, Sneaking
    <3>6. OwnerExclusion'
      BY <3>1, <2>3
         DEF Move, Types, Flow, Stopping, Sneaking, OwnerExclusion, SneakScope, HoldsByte, JavaLabels,
             SafeLabels, Disciplined, IsJava, can_sneak
    <3>7. SneakScope'
      BY <3>1, <2>3 DEF Move, Types, SneakScope, HoldsByte
    <3> QED
      BY <3>2, <3>3, <3>4, <3>5, <3>6, <3>7
  <2> QED
    BY <1>6, <2>1, <2>2, <2>3
<1>7. CASE ThreadBlockInVM(t)
  <2>1. CASE pc[t] = "tbivm_enter"
    <3>1. /\ Move(t, "tbivm_enter", "ILock")
          /\ UNCHANGED <<LockByte, snuck, owner, WaitSet, sync_state, Calls>>
          /\ sync_state = "_not_synchronized"
      BY <1>7, <2>1 DEF ThreadBlockInVM, do_call_back, Goto, Move, Types
    <3>2. Types'
      BY <3>1, <2>1 DEF Move, Types
    <3>3. Flow'
      BY <3>1, <2>1 DEF Move, Types, Flow, JavaLabels
    <3>4. Stopping'
      BY <3>1, <2>1 DEF Move, Types, Stopping, SafeLabels
    <3>5. Sneaking'
      BY <3>1, <2>1 DEF Move, Sneaking
    <3>6. OwnerExclusion'
      BY <3>1, <2>1 DEF Move, Types, OwnerExclusion
    <3>7. SneakScope'
      BY <3>1, <2>1 DEF Move, Types, SneakScope, HoldsByte
    <3> QED
      BY <3>2, <3>3, <3>4, <3>5, <3>6, <3>7
  <2>2. CASE pc[t] = "tbivm_exit"
    <3>1. /\ Move(t, "tbivm_exit", "Exeunt")
          /\ UNCHANGED <<LockByte, snuck, owner, WaitSet, sync_state, Calls>>
          /\ sync_state = "_not_synchronized"
      BY <1>7, <2>2 DEF ThreadBlockInVM, do_call_back, Goto, Move, Types
    <3>2. Types'
      BY <3>1, <2>2 DEF Move, Types
    <3>3. Flow'
      BY <3>1, <2>2 DEF Move, Types, Flow, JavaLabels
    <3>4. Stopping'
      BY <3>1, <2>2 DEF Move, Types, Stopping, SafeLabels
    <3>5. Sneaking'
      BY <3>1, <2>2 DEF Move, Sneaking
    <3>6. OwnerExclusion'
      BY <3>1, <2>2 DEF Move, Types, OwnerExclusion, SneakScope, HoldsByte
    <3>7. SneakScope'
      BY <3>1, <2>2 DEF Move, Types, SneakScope, HoldsByte
    <3> QED
      BY <3>2, <3>3, <3>4, <3>5, <3>6, <3>7
  <2>3. CASE pc[t] = "wait_tbivm_enter"
    <3>1. /\ Move(t, "wait_tbivm_enter", "IWait")
          /\ UNCHANGED <<LockByte, snuck, owner, WaitSet, sync_state, Calls>>
          /\ sync_state = "_not_synchronized"
      BY <1>7, <2>3 DEF ThreadBlockInVM, do_call_back, Goto, Move, Types
    <3>2. Types'
      BY <3>1, <2>3 DEF Move, Types
    <3>3. Flow'
      BY <3>1, <2>3 DEF Move, Types, Flow, JavaLabels
    <3>4. Stopping'
      BY <3>1, <2>3 DEF Move, Types, Stopping, SafeLabels
    <3>5. Sneaking'
      BY <3>1, <2>3 DEF Move, Sneaking
    <3>6. OwnerExclusion'
      BY <3>1, <2>3 DEF Move, Types, OwnerExclusion
    <3>7. SneakScope'
      BY <3>1, <2>3 DEF Move, Types, SneakScope, HoldsByte
    <3> QED
      BY <3>2, <3>3, <3>4, <3>5, <3>6, <3>7
  <2> QED
    BY <1>7, <2>1, <2>2, <2>3 DEF ThreadBlockInVM
<1>8. CASE ILock(t)
  <2>1. CASE pc[t] = "ILock" /\ IsJava(t)
    <3>1. /\ Move(t, "ILock", "tbivm_exit")
          /\ LockByte' = TRUE
          /\ UNCHANGED <<snuck, owner, WaitSet, sync_state, Calls>>
          /\ ~LockByte
      BY <1>8, <2>1 DEF ILock, Take, IsJava, Goto, Move, Types
    <3>2. Types'
      BY <3>1, <2>1 DEF Move, Types
    <3>3. Flow'
      BY <3>1, <2>1 DEF Move, Types, Flow, JavaLabels, IsJava
    <3>4. Stopping'
      BY <3>1, <2>1 DEF Move, Types, Stopping, SafeLabels
    <3>5. Sneaking'
      BY <3>1, <2>1 DEF Move, Sneaking
    <3>6. OwnerExclusion'
      BY <3>1, <2>1 DEF Move, Types, OwnerExclusion
    <3>7. SneakScope'
      BY <3>1, <2>1 DEF Move, Types, SneakScope, HoldsByte
    <3> QED
      BY <3>2, <3>3, <3>4, <3>5, <3>6, <3>7
  <2>2. CASE ~(pc[t] = "ILock" /\ IsJava(t))
    <3>1. /\ Move(t, pc[t], "Exeunt") /\ pc[t] \in {"ILock", "ILock_in_vm"}
          /\ LockByte' = TRUE
          /\ UNCHANGED <<snuck, owner, WaitSet, sync_state, Calls>>
          /\ ~LockByte
      BY <1>8, <2>2 DEF ILock, Take, IsJava, Goto, Move, Types
    <3>2. Types'
      BY <3>1, <2>2 DEF Move, Types
    <3>3. Flow'
      BY <3>1, <2>2 DEF Move, Types, Flow, JavaLabels
    <3>4. Stopping'
      BY <3>1, <2>2 DEF Move, Types, Flow, Stopping, SafeLabels, JavaLabels, IsJava
    <3>5. Sneaking'
      BY <3>1, <2>2 DEF Move, Sneaking
    <3>6. OwnerExclusion'
      BY <3>1, <2>2
         DEF Move, Types, Flow, Stopping, Sneaking, OwnerExclusion, SneakScope, HoldsByte, JavaLabels,
             SafeLabels, Disciplined, IsJava, can_sneak
    <3>7. SneakScope'
      BY <3>1, <2>2 DEF Move, Types, SneakScope, HoldsByte
    <3> QED
      BY <3>2, <3>3, <3>4, <3>5, <3>6, <3>7
  <2> QED
    BY <1>8, <2>1, <2>2
<1>9. CASE Exeunt(t)
  <2>1. /\ Move(t, "Exeunt", "cs")
        /\ owner' = t
        /\ UNCHANGED <<LockByte, snuck, WaitSet, sync_state, Calls>>
    BY <1>9 DEF Exeunt, Goto, Move, Types
  <2>2. Types'
    BY <2>1 DEF Move, Types
  <2>3. Flow'
    BY <2>1 DEF Move, Types, Flow, JavaLabels
  <2>4. Stopping'
    BY <2>1 DEF Move, Types, Stopping, SafeLabels
  <2>5. Sneaking'
    BY <2>1 DEF Move, Sneaking
  <2>6. OwnerExclusion'
    BY <2>1 DEF Move, Types, OwnerExclusion
  <2>7. SneakScope'
    BY <2>1 DEF Move, Types, SneakScope, HoldsByte
  <2> QED
    BY <2>2, <2>3, <2>4, <2>5, <2>6, <2>7
<1>10. CASE disown(t)
  <2>1. /\ Move(t, "cs", "unlock")
        /\ owner' = NULL
        /\ UNCHANGED <<LockByte, snuck, WaitSet, sync_state, Calls>>
    BY <1>10 DEF disown, Goto, Move, Types
  <2>2. Types'
    BY <2>1 DEF Move, Types
  <2>3. Flow'
    BY <2>1 DEF Move, Types, Flow, JavaLabels
  <2>4. Stopping'
    BY <2>1 DEF Move, Types, Stopping, SafeLabels
  <2>5. Sneaking'
    BY <2>1 DEF Move, Sneaking
  <2>6. OwnerExclusion'
    BY <2>1 DEF Move, Types, OwnerExclusion
  <2>7. SneakScope'
    BY <2>1 DEF Move, Types, SneakScope, HoldsByte
  <2> QED
    BY <2>2, <2>3, <2>4, <2>5, <2>6, <2>7
<1>11. CASE unlock(t)
  <2>1. CASE snuck
    <3>1. /\ Move(t, "unlock", "idle")
          /\ snuck' = FALSE
          /\ UNCHANGED <<LockByte, owner, WaitSet, sync_state, Calls>>
      BY <1>11, <2>1 DEF unlock, Goto, Move, Types
    <3>2. Types'
      BY Zenon, <3>1, <2>1 DEF Move, Types
    <3>3. Flow'
      BY <3>1, <2>1 DEF Move, Types, Flow, JavaLabels
    <3>4. Stopping'
      BY <3>1, <2>1 DEF Move, Types, Stopping, SafeLabels
    <3>5. Sneaking'
      BY <3>1, <2>1 DEF Move, Sneaking
    <3>6. OwnerExclusion'
      BY <3>1, <2>1 DEF Move, Types, OwnerExclusion
    <3>7. SneakScope'
      BY <3>1, <2>1 DEF Move, Types, SneakScope, HoldsByte
    <3> QED
      BY <3>2, <3>3, <3>4, <3>5, <3>6, <3>7
  <2>2. CASE ~snuck
    <3>1. /\ Move(t, "unlock", "idle")
          /\ LockByte' = FALSE /\ snuck' = FALSE
          /\ UNCHANGED <<owner, WaitSet, sync_state, Calls>>
      BY <1>11, <2>2 DEF unlock, Goto, Move, Types
    <3>2. Types'
      BY Zenon, <3>1, <2>2 DEF Move, Types
    <3>3. Flow'
      BY <3>1, <2>2 DEF Move, Types, Flow, JavaLabels
    <3>4. Stopping'
      BY <3>1, <2>2 DEF Move, Types, Stopping, SafeLabels
    <3>5. Sneaking'
      BY <3>1, <2>2 DEF Move, Sneaking
    <3>6. OwnerExclusion'
      BY <3>1, <2>2 DEF Move, Types, OwnerExclusion
    <3>7. SneakScope'
      BY <3>1, <2>2 DEF Move, Types, SneakScope, HoldsByte
    <3> QED
      BY <3>2, <3>3, <3>4, <3>5, <3>6, <3>7
  <2> QED
    BY <1>11, <2>1, <2>2
<1>12. CASE IWait(t)
  <2>1. /\ Move(t, "IWait", "waiting")
        /\ LockByte' = FALSE /\ WaitSet' = WaitSet \cup {t}
        /\ UNCHANGED <<snuck, owner, sync_state, Calls>>
    BY <1>12 DEF IWait, Goto, Move, Types
  <2>2. Types'
    BY Zenon, <2>1 DEF Move, Types
  <2>3. Flow'
    BY <2>1 DEF Move, Types, Flow, JavaLabels
  <2>4. Stopping'
    BY <2>1 DEF Move, Types, Stopping, SafeLabels
  <2>5. Sneaking'
    BY <2>1 DEF Move, Sneaking
  <2>6. OwnerExclusion'
    BY <2>1 DEF Move, Types, OwnerExclusion
  <2>7. SneakScope'
    BY <2>1 DEF Move, Types, SneakScope, HoldsByte
  <2> QED
    BY <2>2, <2>3, <2>4, <2>5, <2>6, <2>7
<1>13. CASE reentry(t)
  <2>1. CASE IsJava(t)
    <3>1. /\ Move(t, "reentry", "suspend_check")
          /\ LockByte' = TRUE
          /\ UNCHANGED <<snuck, owner, WaitSet, sync_state, Calls>>
          /\ ~LockByte
      BY <1>13, <2>1 DEF reentry, Take, IsJava, Goto, Move, Types
    <3>2. Types'
      BY <3>1, <2>1 DEF Move, Types
    <3>3. Flow'
      BY <3>1, <2>1 DEF Move, Types, Flow, JavaLabels, IsJava
    <3>4. Stopping'
      BY <3>1, <2>1 DEF Move, Types, Stopping, SafeLabels
    <3>5. Sneaking'
      BY <3>1, <2>1 DEF Move, Sneaking
    <3>6. OwnerExclusion'
      BY <3>1, <2>1 DEF Move, Types, OwnerExclusion
    <3>7. SneakScope'
      BY <3>1, <2>1 DEF Move, Types, SneakScope, HoldsByte
    <3> QED
      BY <3>2, <3>3, <3>4, <3>5, <3>6, <3>7
  <2>2. CASE ~IsJava(t)
    <3>1. /\ Move(t, "reentry", "Exeunt")
          /\ LockByte' = TRUE
          /\ UNCHANGED <<snuck, owner, WaitSet, sync_state, Calls>>
          /\ ~LockByte
      BY <1>13, <2>2 DEF reentry, Take, IsJava, Goto, Move, Types
    <3>2. Types'
      BY <3>1, <2>2 DEF Move, Types
    <3>3. Flow'
      BY <3>1, <2>2 DEF Move, Types, Flow, JavaLabels
    <3>4. Stopping'
      BY <3>1, <2>2 DEF Move, Types, Flow, Stopping, SafeLabels, JavaLabels, IsJava
    <3>5. Sneaking'
      BY <3>1, <2>2 DEF Move, Sneaking
    <3>6. OwnerExclusion'
      BY <3>1, <2>2
         DEF Move, Types, Flow, Stopping, Sneaking, OwnerExclusion, SneakScope, HoldsByte, JavaLabels,
             SafeLabels, Disciplined, IsJava, can_sneak
    <3>7. SneakScope'
      BY <3>1, <2>2 DEF Move, Types, SneakScope, HoldsByte
    <3> QED
      BY <3>2, <3>3, <3>4, <3>5, <3>6, <3>7
  <2> QED
    BY <1>13, <2>1, <2>2
<1>14. CASE suspend_check(t)
  <2>1. CASE pc'[t] = "tbivm_exit"
    <3>1. /\ Move(t, "suspend_check", "tbivm_exit")
          /\ UNCHANGED <<LockByte, snuck, owner, WaitSet, sync_state, Calls>>
      BY <1>14, <2>1 DEF suspend_check, Goto, Move, Types
    <3>2. Types'
      BY <3>1, <2>1 DEF Move, Types
    <3>3. Flow'
      BY <3>1, <2>1 DEF Move, Types, Flow, JavaLabels
    <3>4. Stopping'
      BY <3>1, <2>1 DEF Move, Types, Stopping, SafeLabels
    <3>5. Sneaking'
      BY <3>1, <2>1 DEF Move, Sneaking
    <3>6. OwnerExclusion'
      BY <3>1, <2>1 DEF Move, Types, OwnerExclusion
    <3>7. SneakScope'
      BY <3>1, <2>1 DEF Move, Types, SneakScope, HoldsByte
    <3> QED
      BY <3>2, <3>3, <3>4, <3>5, <3>6, <3>7
  <2>2. CASE pc'[t] # "tbivm_exit"
    <3>1. /\ Move(t, "suspend_check", "suspended")
          /\ LockByte' = FALSE
          /\ UNCHANGED <<snuck, owner, WaitSet, sync_state, Calls>>
      BY <1>14, <2>2 DEF suspend_check, Goto, Move, Types
    <3>2. Types'
      BY Zenon, <3>1, <2>2 DEF Move, Types
    <3>3. Flow'
      BY <3>1, <2>2 DEF Move, Types, Flow, JavaLabels
    <3>4. Stopping'
      BY <3>1, <2>2 DEF Move, Types, Stopping, SafeLabels
    <3>5. Sneaking'
      BY <3>1, <2>2 DEF Move, Sneaking
    <3>6. OwnerExclusion'
      BY <3>1, <2>2 DEF Move, Types, OwnerExclusion
    <3>7. SneakScope'
      BY <3>1, <2>2 DEF Move, Types, SneakScope, HoldsByte
    <3> QED
      BY <3>2, <3>3, <3>4, <3>5, <3>6, <3>7
  <2> QED
    BY <1>14, <2>1, <2>2
<1>15. CASE resume(t)
  <2>1. /\ Move(t, "suspended", "ILock")
        /\ UNCHANGED <<LockByte, snuck, owner, WaitSet, sync_state, Calls>>
    BY <1>15 DEF resume, Goto, Move, Types
  <2>2. Types'
    BY <2>1 DEF Move, Types
  <2>3. Flow'
    BY <2>1 DEF Move, Types, Flow, JavaLabels
  <2>4. Stopping'
    BY <2>1 DEF Move, Types, Stopping, SafeLabels
  <2>5. Sneaking'
    BY <2>1 DEF Move, Sneaking
  <2>6. OwnerExclusion'
    BY <2>1 DEF Move, Types, OwnerExclusion
  <2>7. SneakScope'
    BY <2>1 DEF Move, Types, SneakScope, HoldsByte
  <2> QED
    BY <2>2, <2>3, <2>4, <2>5, <2>6, <2>7
<1>16. CASE Timeout(t)
  <2>1. /\ Move(t, "waiting", "reentry")
        /\ WaitSet' = WaitSet \ {t}
        /\ UNCHANGED <<LockByte, snuck, owner, sync_state, Calls>>
    BY <1>16 DEF Timeout, Goto, Move, Types
  <2>2. Types'
    BY <2>1 DEF Move, Types
  <2>3. Flow'
    BY <2>1 DEF Move, Types, Flow, JavaLabels
  <2>4. Stopping'
    BY <2>1 DEF Move, Types, Stopping, SafeLabels
  <2>5. Sneaking'
    BY <2>1 DEF Move, Sneaking
  <2>6. OwnerExclusion'
    BY <2>1 DEF Move, Types, OwnerExclusion
  <2>7. SneakScope'
    BY <2>1 DEF Move, Types, SneakScope, HoldsByte
  <2> QED
    BY <2>2, <2>3, <2>4, <2>5, <2>6, <2>7
<1>17. CASE notify_all(t)
  <2>1. Types'
    BY <1>17
       DEF notify_all, HoldsByte, Types, Flow, Stopping, Sneaking, OwnerExclusion, SneakScope, JavaLabels,
           SafeLabels, Disciplined
  <2>2. Flow'
    BY <1>17
       DEF notify_all, HoldsByte, Types, Flow, Stopping, Sneaking, OwnerExclusion, SneakScope, JavaLabels,
           SafeLabels, Disciplined
  <2>3. Stopping'
    BY <1>17
       DEF notify_all, HoldsByte, Types, Flow, Stopping, Sneaking, OwnerExclusion, SneakScope, JavaLabels,
           SafeLabels, Disciplined
  <2>4. Sneaking'
    BY <1>17
       DEF notify_all, HoldsByte, Types, Flow, Stopping, Sneaking, OwnerExclusion, SneakScope, JavaLabels,
           SafeLabels, Disciplined
  <2>5. OwnerExclusion'
    BY <1>17
       DEF notify_all, HoldsByte, Types, Flow, Stopping, Sneaking, OwnerExclusion, SneakScope, JavaLabels,
           SafeLabels, Disciplined
  <2>6. SneakScope'
    BY <1>17
       DEF notify_all, HoldsByte, Types, Flow, Stopping, Sneaking, OwnerExclusion, SneakScope, JavaLabels,
           SafeLabels, Disciplined
  <2> QED
    BY <2>1, <2>2, <2>3, <2>4, <2>5, <2>6
<1> QED
  BY <1>1, <1>2, <1>3, <1>4, <1>5, <1>6, <1>7, <1>8, <1>9, <1>10, <1>11, <1>12, <1>13, <1>14, <1>15, <1>16,
     <1>17
     DEF Client, Step

\* No step of a safepoint breaks the invariant.
LEMMA SafepointKeeps ==
  ASSUME IInv, begin \/ synchronized \/ end
  PROVE  IInv'
<1> USE Constants DEF IInv, Types, Flow, Stopping, Sneaking, OwnerExclusion, SneakScope, HoldsByte,
                      SafepointStep
<1>1. CASE begin
  BY <1>1 DEF begin
<1>2. CASE synchronized
  BY <1>2 DEF synchronized
<1>3. CASE end
  BY <1>3 DEF end
<1> QED
  BY <1>1, <1>2, <1>3

\* The invariant holds whatever the threads and the calls they make.
LEMMA InvariantHolds == Spec => []IInv
<1>1. Init => IInv
  BY Zenon, Constants
     DEF Init, IInv, Types, Flow, Stopping, Sneaking, OwnerExclusion, SneakScope, HoldsByte, JavaLabels
<1>2. IInv /\ [Next]_vars => IInv'
  <2> SUFFICES ASSUME IInv, [Next]_vars
               PROVE  IInv'
    OBVIOUS
  <2>1. ASSUME NEW t \in Threads, Client(t) \/ Step(t) \/ Timeout(t)
        PROVE  IInv'
    BY <2>1, ThreadKeeps
  <2>2. CASE begin \/ synchronized \/ end
    BY <2>2, SafepointKeeps
  <2>3. CASE UNCHANGED vars
    BY <2>3 DEF vars, IInv, Types, Flow, Stopping, Sneaking, OwnerExclusion, SneakScope, HoldsByte
  <2> QED
    BY <2>1, <2>2, <2>3 DEF Next
<1> QED
  BY <1>1, <1>2, PTL DEF Spec

\* At most one thread is between set_owner(Self) and set_owner(NULL), it is the one _owner
\* names, and set_owner(Self) finds _owner NULL, although the VM thread sneaks past locks.
THEOREM OwnerIsExclusive == Spec => []OwnerExclusion
<1>1. IInv => OwnerExclusion
  BY DEF IInv
<1> QED
  BY <1>1, InvariantHolds, PTL

\* A sneak ends before its safepoint does, and the lock byte is set exactly while one thread
\* has it, which a thread that has sneaked past it does not.
THEOREM SneakEndsInSafepoint == Spec => []SneakScope
<1>1. IInv => SneakScope
  BY DEF IInv
<1> QED
  BY <1>1, InvariantHolds, PTL
=============================================================================
