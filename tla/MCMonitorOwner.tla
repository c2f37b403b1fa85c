---------------------------- MODULE MCMonitorOwner ----------------------------
(* An instance of MonitorOwner for TLC. *)
EXTENDS MonitorOwner

CONSTANTS j1, j2, j3

\* Java threads lock and wait; the VM thread locks, and may sneak.
SneakCalls ==
  [t \in Threads |-> CASE t = VMThread -> {"lock", "try_lock", "lock_without_safepoint_check"}
                       [] t \in JavaThreads -> {"lock", "try_lock", "notify_all", "wait", "suspend"}
                       [] t \in NonJavaThreads -> {}]

\* VMOperationQueue_lock and _terminate_lock: nobody stops at a safepoint.
NoCheckCalls ==
  [t \in Threads |-> CASE t = VMThread -> {"lock_without_safepoint_check", "notify_all", "wait"}
                       [] t \in JavaThreads -> {"lock_without_safepoint_check", "notify_all"}
                       [] t \in NonJavaThreads -> {"lock", "lock_without_safepoint_check", "notify_all", "wait"}]

BothUses == {SneakCalls, NoCheckCalls}
=============================================================================
