---------------------------- MODULE GCLocker_proofs ----------------------------
(***************************************************************************)
(* A safepoint stops every Java thread; no collection runs while a thread  *)
(* is in a critical region, and the counts of the GC locker are right, for *)
(* every finite set of threads and every choice of the calls they make.    *)
(*                                                                         *)
(* The lemmas of the first part, about Safepoint, do not mention the       *)
(* critical regions, so that they also serve the second, about GCLocker,   *)
(* whose threads make the same transitions.                                *)
(***************************************************************************)
EXTENDS GCLocker, Integers, TLAPS

\* What the counters count on: how Cardinality goes up and down with a set of threads.
Counting ==
  \A S \in SUBSET JavaThreads :
    /\ Cardinality(S) \in Nat
    /\ Cardinality(S) = 0 <=> S = {}
    /\ \A t \in S : Cardinality(S \ {t}) = Cardinality(S) - 1
    /\ \A t \in JavaThreads \ S : Cardinality(S \cup {t}) = Cardinality(S) + 1

\* The threads that the VM thread still has to count out.
Uncounted == {t \in JavaThreads : type[t] = "_running" \/ (type[t] = "_call_back" /\ pc[t] # "Threads_lock")}

\* The states that block() can be called in, and restores.
BlockStates == TransStates \cup {"_thread_in_Java"}

Types ==
  /\ type = [t \in JavaThreads |-> type[t]]
  /\ pc = [t \in JavaThreads |-> pc[t]]
  /\ thread_state = [t \in JavaThreads |-> thread_state[t]]
  /\ to = [t \in JavaThreads |-> to[t]]
  /\ saved = [t \in JavaThreads |-> saved[t]]
  /\ \A t \in JavaThreads : type[t] \in {"_running", "_at_safepoint", "_call_back"}
  /\ \A t \in JavaThreads :
       pc[t] \in {"run", "do_call_back", "block", "Safepoint_lock", "Threads_lock", "set_thread_state"}

\* What the position of the VM thread says about the variables that only it writes.
Phase ==
  /\ vm \in {"loop", "begin", "notice", "spin", "wait_test", "wait", "notified", "safepoint", "end", "restart"}
  /\ state = IF vm \in {"notice", "spin", "wait_test", "wait", "notified"} THEN "_synchronizing"
             ELSE IF vm \in {"safepoint", "end"} THEN "_synchronized" ELSE "_not_synchronized"
  /\ PageArmed => vm \in {"spin", "wait_test", "wait", "notified", "safepoint"}
  /\ vm \in {"loop", "begin", "notice"} => \A t \in JavaThreads : type[t] = "_running"
  /\ vm \in {"wait_test", "wait", "notified", "safepoint", "end"} => \A t \in JavaThreads : type[t] # "_running"

\* Which states a thread can have where it is.
Place ==
  \A t \in JavaThreads :
    /\ pc[t] = "run" => thread_state[t] \in RunStates
    /\ pc[t] = "do_call_back" => thread_state[t] \in TransStates
    /\ pc[t] \in {"block", "set_thread_state"} => thread_state[t] \in BlockStates
    /\ pc[t] = "Safepoint_lock" => thread_state[t] = "_thread_in_vm"
    /\ pc[t] = "Threads_lock" => thread_state[t] = "_thread_blocked"
    /\ pc[t] \in {"Safepoint_lock", "Threads_lock"} => saved[t] \in BlockStates
    /\ pc[t] # "run" => to[t] \in RunStates

\* A thread that was seen safe is where a safepoint holds it until the VM thread restarts it.
HeldWhenSafe ==
  \A t \in JavaThreads :
    type[t] = "_at_safepoint" /\ vm # "restart" =>
      \/ pc[t] = "run" /\ safepoint_safe(t)
      \/ pc[t] \in {"do_call_back", "block"} /\ thread_state[t] \in {"_thread_in_native_trans", "_thread_blocked_trans"}
      \/ pc[t] = "Threads_lock"

\* A thread that was told to call back is on its way to do so, or has done it.
HeldWhenCalledBack ==
  \A t \in JavaThreads :
    type[t] = "_call_back" =>
      \/ pc[t] = "Threads_lock"
      \/ /\ state = "_synchronizing"
         /\ \/ pc[t] = "run" /\ thread_state[t] = "_thread_in_vm"
            \/ pc[t] \in {"do_call_back", "block"} /\ thread_state[t] = "_thread_in_vm_trans"
            \/ pc[t] = "Safepoint_lock"

\* The safepoint waits for the threads that have to call back.
Awaited ==
  \A t \in JavaThreads : pc[t] = "Safepoint_lock" \/ (pc[t] = "block" /\ MustCallBack(t)) => state = "_synchronizing"

SInv == Types /\ Phase /\ Place /\ HeldWhenSafe /\ HeldWhenCalledBack /\ Awaited /\ CountedOnce

\* A step counts nobody out, or it counts thread t out.
SameUncounted == state' = state /\ (state = "_synchronizing" => Uncounted' = Uncounted)

CountsOut(t) == state = "_synchronizing" /\ state' = state /\ t \in Uncounted /\ Uncounted' = Uncounted \ {t}

\* The store of a transition state, in a transition that tests for a safepoint.
LEMMA TransitionKeeps ==
  ASSUME SInv, NEW t \in JavaThreads, NEW from \in {"_thread_in_vm", "_thread_in_native", "_thread_blocked"},
         NEW dest \in RunStates, transition(t, from, dest), UNCHANGED vmVars
  PROVE  SInv' /\ SameUncounted
<1> USE DEF SInv
<1>1. Types'
  BY Zenon DEF transition, Running, Trans, vmVars, Types
<1>2. Phase'
  BY DEF transition, Running, Trans, vmVars, Types, Phase
<1>3. Place'
  BY ZenonT(30) DEF transition, Running, Trans, vmVars, Types, Place, RunStates, TransStates, BlockStates
<1>4. HeldWhenSafe'
  BY Zenon DEF transition, Running, Trans, vmVars, Types, HeldWhenSafe, safepoint_safe
<1>5. HeldWhenCalledBack'
  BY Zenon DEF transition, Running, Trans, vmVars, Types, HeldWhenCalledBack
<1>6. Awaited'
  BY DEF transition, Running, Trans, vmVars, Types, Awaited, MustCallBack
<1>7. Uncounted' = Uncounted /\ UNCHANGED <<state, waiting_to_block>>
  BY DEF transition, Running, Trans, vmVars, Types, Uncounted
<1>8. CountedOnce'
  BY <1>7 DEF CountedOnce, Uncounted
<1> QED
  BY <1>1, <1>2, <1>3, <1>4, <1>5, <1>6, <1>7, <1>8 DEF SameUncounted

\* A transition from Java code, which does not test.
LEMMA FromJavaKeeps ==
  ASSUME SInv, NEW t \in JavaThreads, NEW dest \in {"_thread_in_vm", "_thread_in_native"},
         transition_from_java(t, dest), UNCHANGED vmVars
  PROVE  SInv' /\ SameUncounted
<1> USE DEF SInv
<1>1. Types'
  BY Zenon DEF transition_from_java, Running, vmVars, Types
<1>2. Phase'
  BY DEF transition_from_java, Running, vmVars, Types, Phase
<1>3. Place'
  BY DEF transition_from_java, Running, vmVars, Types, Place, RunStates, TransStates, BlockStates
<1>4. HeldWhenSafe'
  BY DEF transition_from_java, Running, vmVars, Types, HeldWhenSafe, safepoint_safe
<1>5. HeldWhenCalledBack'
  BY DEF transition_from_java, Running, vmVars, Types, HeldWhenCalledBack
<1>6. Awaited'
  BY DEF transition_from_java, Running, vmVars, Types, Awaited, MustCallBack
<1>7. Uncounted' = Uncounted /\ UNCHANGED <<state, waiting_to_block>>
  BY DEF transition_from_java, Running, vmVars, Types, Uncounted
<1>8. CountedOnce'
  BY <1>7 DEF CountedOnce, Uncounted
<1> QED
  BY <1>1, <1>2, <1>3, <1>4, <1>5, <1>6, <1>7, <1>8 DEF SameUncounted

\* A poll of the armed page.
LEMMA PollKeeps ==
  ASSUME SInv, NEW t \in JavaThreads, handle_polling_page_exception(t), UNCHANGED vmVars
  PROVE  SInv' /\ SameUncounted
<1> USE DEF SInv
<1>1. Types'
  BY Zenon DEF handle_polling_page_exception, Running, vmVars, Types
<1>2. Phase'
  BY DEF handle_polling_page_exception, Running, vmVars, Types, Phase
<1>3. Place'
  BY Zenon DEF handle_polling_page_exception, Running, vmVars, Types, Place, RunStates, TransStates, BlockStates
<1>4. HeldWhenSafe'
  BY Zenon DEF handle_polling_page_exception, Running, vmVars, Types, HeldWhenSafe, safepoint_safe
<1>5. HeldWhenCalledBack'
  BY Zenon DEF handle_polling_page_exception, Running, vmVars, Types, HeldWhenCalledBack
<1>6. Awaited'
  BY
     DEF handle_polling_page_exception, Running, vmVars, Types, Phase, Place, HeldWhenSafe,
         HeldWhenCalledBack, Awaited, MustCallBack, safepoint_safe, Uncounted, CountedOnce, RunStates,
         TransStates, BlockStates
<1>7. Uncounted' = Uncounted /\ UNCHANGED <<state, waiting_to_block>>
  BY DEF handle_polling_page_exception, Running, vmVars, Types, Uncounted
<1>8. CountedOnce'
  BY <1>7 DEF CountedOnce, Uncounted
<1> QED
  BY <1>1, <1>2, <1>3, <1>4, <1>5, <1>6, <1>7, <1>8 DEF SameUncounted

\* The rest of a transition, and block() but for the call back.
LEMMA ThreadStepKeeps ==
  ASSUME SInv, NEW t \in JavaThreads, do_call_back(t) \/ set_thread_state(t) \/ block(t) \/ leave_block(t)
  PROVE  SInv' /\ SameUncounted
<1> USE DEF SInv
<1>1. CASE do_call_back(t)
  <2>1. Types'
    BY <1>1 DEF do_call_back, vmVars, Types
  <2>2. Phase'
    BY <1>1 DEF do_call_back, vmVars, Types, Phase
  <2>3. Place'
    BY <1>1 DEF do_call_back, vmVars, Types, Place, RunStates, TransStates, BlockStates
  <2>4. HeldWhenSafe'
    BY <1>1
       DEF do_call_back, vmVars, Types, Phase, Place, HeldWhenSafe, safepoint_safe, RunStates, TransStates,
           BlockStates
  <2>5. HeldWhenCalledBack'
    BY <1>1 DEF do_call_back, vmVars, Types, HeldWhenCalledBack
  <2>6. Awaited'
    BY <1>1
       DEF do_call_back, vmVars, Types, Phase, Place, HeldWhenSafe, HeldWhenCalledBack, Awaited, MustCallBack,
           safepoint_safe, Uncounted, CountedOnce, RunStates, TransStates, BlockStates
  <2>7. Uncounted' = Uncounted /\ UNCHANGED <<state, waiting_to_block>>
    BY <1>1 DEF do_call_back, vmVars, Types, Uncounted
  <2>8. CountedOnce'
    BY <2>7 DEF CountedOnce, Uncounted
  <2> QED
    BY <2>1, <2>2, <2>3, <2>4, <2>5, <2>6, <2>7, <2>8 DEF SameUncounted
<1>2. CASE set_thread_state(t)
  <2>1. Types'
    BY Zenon, <1>2 DEF set_thread_state, vmVars, Types
  <2>2. Phase'
    BY <1>2 DEF set_thread_state, vmVars, Types, Phase
  <2>3. Place'
    BY Zenon, <1>2 DEF set_thread_state, vmVars, Types, Place, RunStates, TransStates, BlockStates
  <2>4. HeldWhenSafe'
    BY Zenon, <1>2 DEF set_thread_state, vmVars, Types, HeldWhenSafe, safepoint_safe
  <2>5. HeldWhenCalledBack'
    BY Zenon, <1>2 DEF set_thread_state, vmVars, Types, HeldWhenCalledBack
  <2>6. Awaited'
    BY <1>2 DEF set_thread_state, vmVars, Types, Awaited, MustCallBack
  <2>7. Uncounted' = Uncounted /\ UNCHANGED <<state, waiting_to_block>>
    BY <1>2 DEF set_thread_state, vmVars, Types, Uncounted
  <2>8. CountedOnce'
    BY <2>7 DEF CountedOnce, Uncounted
  <2> QED
    BY <2>1, <2>2, <2>3, <2>4, <2>5, <2>6, <2>7, <2>8 DEF SameUncounted
<1>3. CASE block(t)
  <2>1. Types'
    BY Zenon, <1>3 DEF block, MustCallBack, vmVars, Types
  <2>2. Phase'
    BY <1>3 DEF block, MustCallBack, vmVars, Types, Phase
  <2>3. Place'
    BY ZenonT(30), <1>3 DEF block, MustCallBack, vmVars, Types, Place, RunStates, TransStates, BlockStates
  <2>4. HeldWhenSafe'
    BY Zenon, <1>3 DEF block, MustCallBack, vmVars, Types, HeldWhenSafe, safepoint_safe
  <2>5. HeldWhenCalledBack'
    BY Zenon, <1>3 DEF block, MustCallBack, vmVars, Types, HeldWhenCalledBack
  <2>6. Awaited'
    BY <1>3 DEF block, MustCallBack, vmVars, Types, Awaited, MustCallBack
  <2>7. Uncounted' = Uncounted /\ UNCHANGED <<state, waiting_to_block>>
    BY <1>3 DEF block, MustCallBack, vmVars, Types, Uncounted, HeldWhenCalledBack, MustCallBack
  <2>8. CountedOnce'
    BY <2>7 DEF CountedOnce, Uncounted
  <2> QED
    BY <2>1, <2>2, <2>3, <2>4, <2>5, <2>6, <2>7, <2>8 DEF SameUncounted
<1>4. CASE leave_block(t)
  <2>1. Types'
    BY Zenon, <1>4 DEF leave_block, Threads_lock_free, vmVars, Types
  <2>2. Phase'
    BY <1>4 DEF leave_block, Threads_lock_free, vmVars, Types, Phase
  <2>3. Place'
    BY Zenon, <1>4 DEF leave_block, Threads_lock_free, vmVars, Types, Place, RunStates, TransStates, BlockStates
  <2>4. HeldWhenSafe'
    BY <1>4
       DEF leave_block, Threads_lock_free, vmVars, Types, Phase, Place, HeldWhenSafe, safepoint_safe,
           RunStates, TransStates, BlockStates
  <2>5. HeldWhenCalledBack'
    BY <1>4
       DEF leave_block, Threads_lock_free, vmVars, Types, Phase, Place, HeldWhenCalledBack, RunStates,
           TransStates, BlockStates
  <2>6. Awaited'
    BY <1>4 DEF leave_block, Threads_lock_free, vmVars, Types, Awaited, MustCallBack
  <2>7. state' # "_synchronizing" /\ UNCHANGED state
    BY <1>4
       DEF leave_block, Threads_lock_free, vmVars, Types, Phase, Place, HeldWhenSafe, HeldWhenCalledBack,
           Awaited, MustCallBack, safepoint_safe, Uncounted, CountedOnce, RunStates, TransStates, BlockStates
  <2>8. CountedOnce'
    BY <2>7 DEF CountedOnce
  <2> QED
    BY <2>1, <2>2, <2>3, <2>4, <2>5, <2>6, <2>7, <2>8 DEF SameUncounted
<1> QED
  BY <1>1, <1>2, <1>3, <1>4

\* A call back happens while the VM thread waits for it, and counts the thread out.
LEMMA CallBackKeeps ==
  ASSUME Counting, SInv, NEW t \in JavaThreads, call_back(t)
  PROVE  SInv' /\ CountsOut(t)
<1> USE DEF SInv
<1>1. Types'
  BY Zenon DEF call_back, Safepoint_lock_free, Types
<1>2. Phase'
  BY DEF call_back, Safepoint_lock_free, Types, Phase
<1>3. Place'
  BY Zenon DEF call_back, Safepoint_lock_free, Types, Place, RunStates, TransStates, BlockStates
<1>4. HeldWhenSafe'
  BY Zenon DEF call_back, Safepoint_lock_free, Types, HeldWhenSafe, safepoint_safe
<1>5. HeldWhenCalledBack'
  BY Zenon DEF call_back, Safepoint_lock_free, Types, HeldWhenCalledBack
<1>6. Awaited'
  BY DEF call_back, Safepoint_lock_free, Types, Awaited, MustCallBack
<1>7. /\ state = "_synchronizing" /\ state' = state
      /\ t \in Uncounted /\ Uncounted' = Uncounted \ {t} /\ waiting_to_block' = waiting_to_block - 1
  BY
     DEF call_back, Safepoint_lock_free, Types, Phase, Place, HeldWhenSafe, HeldWhenCalledBack, Awaited,
         MustCallBack, safepoint_safe, Uncounted, CountedOnce, RunStates, TransStates, BlockStates
<1>8. CountedOnce'
  <2>1. Uncounted \in SUBSET JavaThreads
    BY DEF Uncounted
  <2>2. Cardinality(Uncounted \ {t}) = Cardinality(Uncounted) - 1
    BY <1>7, <2>1 DEF Counting
  <2> QED
    BY <1>7, <2>2 DEF CountedOnce, Uncounted
<1> QED
  BY <1>1, <1>2, <1>3, <1>4, <1>5, <1>6, <1>7, <1>8 DEF CountsOut

\* The VM thread counts a thread out that it finds safe, and tells one in the VM to call back.
LEMMA ExamineKeeps ==
  ASSUME Counting, SInv, NEW t \in JavaThreads, examine_state_of_thread(t)
  PROVE  SInv' /\ (IF safepoint_safe(t) THEN CountsOut(t) ELSE SameUncounted)
<1> USE DEF SInv
<1>1. CASE safepoint_safe(t)
  <2>0. type' = [type EXCEPT ![t] = "_at_safepoint"] /\ waiting_to_block' = waiting_to_block - 1
    BY <1>1 DEF examine_state_of_thread, safepoint_safe
  <2>1. Types'
    BY Zenon, <1>1, <2>0 DEF examine_state_of_thread, threadVars, Types
  <2>2. Phase'
    BY <1>1, <2>0 DEF examine_state_of_thread, threadVars, Types, Phase
  <2>3. Place'
    BY Zenon, <1>1, <2>0 DEF examine_state_of_thread, threadVars, Types, Place, RunStates, TransStates, BlockStates
  <2>4. HeldWhenSafe'
    BY <1>1, <2>0
       DEF examine_state_of_thread, threadVars, Types, Phase, Place, HeldWhenSafe, safepoint_safe, RunStates,
           TransStates, BlockStates
  <2>5. HeldWhenCalledBack'
    BY <1>1, <2>0 DEF examine_state_of_thread, threadVars, Types, HeldWhenCalledBack
  <2>6. Awaited'
    BY <1>1, <2>0 DEF examine_state_of_thread, threadVars, Types, Awaited, MustCallBack
  <2>7. /\ state = "_synchronizing" /\ state' = state
        /\ t \in Uncounted /\ Uncounted' = Uncounted \ {t} /\ waiting_to_block' = waiting_to_block - 1
    BY ZenonT(30), <1>1, <2>0
       DEF examine_state_of_thread, threadVars, Types, Phase, Place, HeldWhenSafe, HeldWhenCalledBack,
           Awaited, MustCallBack, safepoint_safe, Uncounted, CountedOnce, RunStates, TransStates, BlockStates
  <2>8. CountedOnce'
    <3>1. Uncounted \in SUBSET JavaThreads
      BY DEF Uncounted
    <3>2. Cardinality(Uncounted \ {t}) = Cardinality(Uncounted) - 1
      BY <2>7, <3>1 DEF Counting
    <3> QED
      BY <2>7, <3>2 DEF CountedOnce, Uncounted
  <2> QED
    BY <1>1, <2>1, <2>2, <2>3, <2>4, <2>5, <2>6, <2>7, <2>8 DEF CountsOut
<1>2. CASE ~safepoint_safe(t)
  <2>0. /\ thread_state[t] = "_thread_in_vm" /\ type' = [type EXCEPT ![t] = "_call_back"]
        /\ UNCHANGED waiting_to_block
    BY <1>2 DEF examine_state_of_thread
  <2>1. Types'
    BY Zenon, <1>2, <2>0 DEF examine_state_of_thread, threadVars, Types
  <2>2. Phase'
    BY <1>2, <2>0 DEF examine_state_of_thread, threadVars, Types, Phase
  <2>3. Place'
    BY Zenon, <1>2, <2>0 DEF examine_state_of_thread, threadVars, Types, Place, RunStates, TransStates, BlockStates
  <2>4. HeldWhenSafe'
    BY <1>2, <2>0 DEF examine_state_of_thread, threadVars, Types, HeldWhenSafe, safepoint_safe
  <2>5. HeldWhenCalledBack'
    BY <1>2, <2>0
       DEF examine_state_of_thread, threadVars, Types, Phase, Place, HeldWhenCalledBack, RunStates,
           TransStates, BlockStates
  <2>6. Awaited'
    BY <1>2, <2>0 DEF examine_state_of_thread, threadVars, Types, Awaited, MustCallBack
  <2>7. Uncounted' = Uncounted /\ UNCHANGED <<state, waiting_to_block>>
    BY <1>2, <2>0
       DEF examine_state_of_thread, threadVars, Types, Phase, Place, HeldWhenSafe, HeldWhenCalledBack,
           Awaited, MustCallBack, safepoint_safe, Uncounted, CountedOnce, RunStates, TransStates, BlockStates
  <2>8. CountedOnce'
    BY <2>7 DEF CountedOnce, Uncounted
  <2> QED
    BY <1>2, <2>1, <2>2, <2>3, <2>4, <2>5, <2>6, <2>7, <2>8 DEF SameUncounted
<1> QED
  BY <1>1, <1>2

\* When the VM thread finds _waiting_to_block 0 every thread is counted out.
LEMMA SynchronizedCounted ==
  ASSUME Counting, SInv, synchronized
  PROVE  state = "_synchronizing" /\ Uncounted = {}
<1>1. Uncounted \in SUBSET JavaThreads
  BY DEF Uncounted
<1>2. state = "_synchronizing" /\ Cardinality(Uncounted) = 0
  BY DEF SInv, synchronized, CountedOnce, Phase, Uncounted
<1> QED
  BY <1>1, <1>2 DEF Counting

\* The steps of the VM thread in begin() and end().
LEMMA VMStepKeeps ==
  ASSUME Counting, SInv, begin \/ VMStep
  PROVE  SInv'
<1> USE DEF SInv
<1>1. CASE begin
  <2>1. Types'
    BY <1>1 DEF begin, threadVars, Types
  <2>2. Phase'
    BY <1>1 DEF begin, threadVars, Types, Phase
  <2>3. Place'
    BY <1>1 DEF begin, threadVars, Types, Place, RunStates, TransStates, BlockStates
  <2>4. HeldWhenSafe'
    BY <1>1 DEF begin, threadVars, Types, HeldWhenSafe, safepoint_safe
  <2>5. HeldWhenCalledBack'
    BY <1>1 DEF begin, threadVars, Types, HeldWhenCalledBack
  <2>6. Awaited'
    BY <1>1 DEF begin, threadVars, Types, Awaited, MustCallBack
  <2>7. state' # "_synchronizing"
    BY <1>1
       DEF begin, threadVars, Types, Phase, Place, HeldWhenSafe, HeldWhenCalledBack, Awaited, MustCallBack,
           safepoint_safe, Uncounted, CountedOnce, RunStates, TransStates, BlockStates
  <2>8. CountedOnce'
    BY <2>7 DEF CountedOnce
  <2> QED
    BY <2>1, <2>2, <2>3, <2>4, <2>5, <2>6, <2>8
<1>2. CASE start_synchronizing
  <2>1. Types'
    BY <1>2 DEF start_synchronizing, threadVars, Types
  <2>2. Phase'
    BY <1>2 DEF start_synchronizing, threadVars, Types, Phase
  <2>3. Place'
    BY <1>2 DEF start_synchronizing, threadVars, Types, Place, RunStates, TransStates, BlockStates
  <2>4. HeldWhenSafe'
    BY <1>2 DEF start_synchronizing, threadVars, Types, HeldWhenSafe, safepoint_safe
  <2>5. HeldWhenCalledBack'
    BY <1>2 DEF start_synchronizing, threadVars, Types, HeldWhenCalledBack
  <2>6. Awaited'
    BY <1>2 DEF start_synchronizing, threadVars, Types, Awaited, MustCallBack
  <2>7. Uncounted' = JavaThreads /\ waiting_to_block' = Cardinality(JavaThreads)
    BY <1>2
       DEF start_synchronizing, threadVars, Types, Phase, Place, HeldWhenSafe, HeldWhenCalledBack, Awaited,
           MustCallBack, safepoint_safe, Uncounted, CountedOnce, RunStates, TransStates, BlockStates
  <2>8. CountedOnce'
    BY <2>7 DEF CountedOnce, Uncounted
  <2> QED
    BY <2>1, <2>2, <2>3, <2>4, <2>5, <2>6, <2>8
<1>3. CASE make_polling_page_unreadable
  <2>1. Types'
    BY <1>3 DEF make_polling_page_unreadable, threadVars, Types
  <2>2. Phase'
    BY <1>3 DEF make_polling_page_unreadable, threadVars, Types, Phase
  <2>3. Place'
    BY <1>3 DEF make_polling_page_unreadable, threadVars, Types, Place, RunStates, TransStates, BlockStates
  <2>4. HeldWhenSafe'
    BY <1>3 DEF make_polling_page_unreadable, threadVars, Types, HeldWhenSafe, safepoint_safe
  <2>5. HeldWhenCalledBack'
    BY <1>3 DEF make_polling_page_unreadable, threadVars, Types, HeldWhenCalledBack
  <2>6. Awaited'
    BY <1>3 DEF make_polling_page_unreadable, threadVars, Types, Awaited, MustCallBack
  <2>7. Uncounted' = Uncounted /\ UNCHANGED <<state, waiting_to_block>>
    BY <1>3 DEF make_polling_page_unreadable, threadVars, Types, Uncounted
  <2>8. CountedOnce'
    BY <2>7 DEF CountedOnce, Uncounted
  <2> QED
    BY <2>1, <2>2, <2>3, <2>4, <2>5, <2>6, <2>8
<1>4. CASE spin_end
  <2>1. Types'
    BY <1>4 DEF spin_end, threadVars, Types
  <2>2. Phase'
    BY <1>4 DEF spin_end, threadVars, Types, Phase
  <2>3. Place'
    BY <1>4 DEF spin_end, threadVars, Types, Place, RunStates, TransStates, BlockStates
  <2>4. HeldWhenSafe'
    BY <1>4 DEF spin_end, threadVars, Types, HeldWhenSafe, safepoint_safe
  <2>5. HeldWhenCalledBack'
    BY <1>4 DEF spin_end, threadVars, Types, HeldWhenCalledBack
  <2>6. Awaited'
    BY <1>4 DEF spin_end, threadVars, Types, Awaited, MustCallBack
  <2>7. Uncounted' = Uncounted /\ UNCHANGED <<state, waiting_to_block>>
    BY <1>4 DEF spin_end, threadVars, Types, Uncounted
  <2>8. CountedOnce'
    BY <2>7 DEF CountedOnce, Uncounted
  <2> QED
    BY <2>1, <2>2, <2>3, <2>4, <2>5, <2>6, <2>8
<1>5. CASE wait
  <2>1. Types'
    BY <1>5 DEF wait, threadVars, Types
  <2>2. Phase'
    BY <1>5 DEF wait, threadVars, Types, Phase
  <2>3. Place'
    BY <1>5 DEF wait, threadVars, Types, Place, RunStates, TransStates, BlockStates
  <2>4. HeldWhenSafe'
    BY <1>5 DEF wait, threadVars, Types, HeldWhenSafe, safepoint_safe
  <2>5. HeldWhenCalledBack'
    BY <1>5 DEF wait, threadVars, Types, HeldWhenCalledBack
  <2>6. Awaited'
    BY <1>5 DEF wait, threadVars, Types, Awaited, MustCallBack
  <2>7. Uncounted' = Uncounted /\ UNCHANGED <<state, waiting_to_block>>
    BY <1>5 DEF wait, threadVars, Types, Uncounted
  <2>8. CountedOnce'
    BY <2>7 DEF CountedOnce, Uncounted
  <2> QED
    BY <2>1, <2>2, <2>3, <2>4, <2>5, <2>6, <2>8
<1>6. CASE synchronized
  <2>0. Uncounted = {}
    BY <1>6, SynchronizedCounted
  <2>1. Types'
    BY <1>6, <2>0 DEF synchronized, threadVars, Types
  <2>2. Phase'
    BY <1>6, <2>0 DEF synchronized, threadVars, Types, Phase
  <2>3. Place'
    BY <1>6, <2>0 DEF synchronized, threadVars, Types, Place, RunStates, TransStates, BlockStates
  <2>4. HeldWhenSafe'
    BY <1>6, <2>0 DEF synchronized, threadVars, Types, HeldWhenSafe, safepoint_safe
  <2>5. HeldWhenCalledBack'
    BY Zenon, <1>6, <2>0
       DEF synchronized, threadVars, Types, Phase, Place, HeldWhenSafe, HeldWhenCalledBack, Awaited,
           MustCallBack, safepoint_safe, Uncounted, CountedOnce, RunStates, TransStates, BlockStates
  <2>6. Awaited'
    BY Zenon, <1>6, <2>0
       DEF synchronized, threadVars, Types, Phase, Place, HeldWhenSafe, HeldWhenCalledBack, Awaited,
           MustCallBack, safepoint_safe, Uncounted, CountedOnce, RunStates, TransStates, BlockStates
  <2>7. state' # "_synchronizing"
    BY <1>6, <2>0 DEF synchronized, threadVars, Types, Uncounted
  <2>8. CountedOnce'
    BY <2>7 DEF CountedOnce
  <2> QED
    BY <2>1, <2>2, <2>3, <2>4, <2>5, <2>6, <2>8
<1>7. CASE make_polling_page_readable
  <2>1. Types'
    BY <1>7 DEF make_polling_page_readable, threadVars, Types
  <2>2. Phase'
    BY <1>7 DEF make_polling_page_readable, threadVars, Types, Phase
  <2>3. Place'
    BY <1>7 DEF make_polling_page_readable, threadVars, Types, Place, RunStates, TransStates, BlockStates
  <2>4. HeldWhenSafe'
    BY <1>7 DEF make_polling_page_readable, threadVars, Types, HeldWhenSafe, safepoint_safe
  <2>5. HeldWhenCalledBack'
    BY <1>7 DEF make_polling_page_readable, threadVars, Types, HeldWhenCalledBack
  <2>6. Awaited'
    BY <1>7 DEF make_polling_page_readable, threadVars, Types, Awaited, MustCallBack
  <2>7. state' # "_synchronizing"
    BY <1>7
       DEF make_polling_page_readable, threadVars, Types, Phase, Place, HeldWhenSafe, HeldWhenCalledBack,
           Awaited, MustCallBack, safepoint_safe, Uncounted, CountedOnce, RunStates, TransStates, BlockStates
  <2>8. CountedOnce'
    BY <2>7 DEF CountedOnce
  <2> QED
    BY <2>1, <2>2, <2>3, <2>4, <2>5, <2>6, <2>8
<1>8. CASE desynchronize
  <2>1. Types'
    BY <1>8 DEF desynchronize, threadVars, Types
  <2>2. Phase'
    BY <1>8 DEF desynchronize, threadVars, Types, Phase
  <2>3. Place'
    BY <1>8 DEF desynchronize, threadVars, Types, Place, RunStates, TransStates, BlockStates
  <2>4. HeldWhenSafe'
    BY <1>8 DEF desynchronize, threadVars, Types, HeldWhenSafe, safepoint_safe
  <2>5. HeldWhenCalledBack'
    BY <1>8
       DEF desynchronize, threadVars, Types, Phase, Place, HeldWhenCalledBack, RunStates, TransStates,
           BlockStates
  <2>6. Awaited'
    BY <1>8
       DEF desynchronize, threadVars, Types, Phase, Place, Awaited, MustCallBack, RunStates, TransStates,
           BlockStates
  <2>7. state' # "_synchronizing"
    BY <1>8 DEF desynchronize, threadVars, Types, Uncounted
  <2>8. CountedOnce'
    BY <2>7 DEF CountedOnce
  <2> QED
    BY <2>1, <2>2, <2>3, <2>4, <2>5, <2>6, <2>8
<1>9. CASE restart
  <2>1. Types'
    BY <1>9 DEF restart, threadVars, Types
  <2>2. Phase'
    BY <1>9 DEF restart, threadVars, Types, Phase
  <2>3. Place'
    BY <1>9 DEF restart, threadVars, Types, Place, RunStates, TransStates, BlockStates
  <2>4. HeldWhenSafe'
    BY <1>9 DEF restart, threadVars, Types, HeldWhenSafe, safepoint_safe
  <2>5. HeldWhenCalledBack'
    BY <1>9 DEF restart, threadVars, Types, HeldWhenCalledBack
  <2>6. Awaited'
    BY <1>9 DEF restart, threadVars, Types, Awaited, MustCallBack
  <2>7. state' # "_synchronizing"
    BY <1>9
       DEF restart, threadVars, Types, Phase, Place, HeldWhenSafe, HeldWhenCalledBack, Awaited, MustCallBack,
           safepoint_safe, Uncounted, CountedOnce, RunStates, TransStates, BlockStates
  <2>8. CountedOnce'
    BY <2>7 DEF CountedOnce
  <2> QED
    BY <2>1, <2>2, <2>3, <2>4, <2>5, <2>6, <2>8
<1>10. ASSUME NEW t \in JavaThreads, examine_state_of_thread(t)
      PROVE  SInv'
  BY <1>10, ExamineKeeps
<1> QED
  BY Zenon, <1>1, <1>2, <1>3, <1>4, <1>5, <1>6, <1>7, <1>8, <1>9, <1>10 DEF VMStep

\* The invariant only depends on the variables of the safepoint protocol.
LEMMA StutterKeeps ==
  ASSUME SInv, UNCHANGED <<vmVars, threadVars>>
  PROVE  SInv'
  BY
     DEF SInv, vmVars, threadVars, Types, Phase, Place, HeldWhenSafe, HeldWhenCalledBack, Awaited,
         CountedOnce,
         safepoint_safe, MustCallBack

\* What a thread does by itself.
LEMMA LeaveKeeps ==
  ASSUME SInv, NEW t \in JavaThreads, LeaveUnsafe(t) \/ LeaveSafe(t)
  PROVE  SInv' /\ SameUncounted
<1>1. \A p \in Transitions : /\ p[1] \in {"_thread_in_vm", "_thread_in_native", "_thread_blocked"}
                            /\ p[2] \in RunStates
  BY DEF Transitions, RunStates
<1>2. ASSUME NEW p \in Transitions, transition(t, p[1], p[2]), UNCHANGED vmVars
      PROVE  SInv' /\ SameUncounted
  BY <1>1, <1>2, TransitionKeeps
<1> QED
  BY <1>2, FromJavaKeeps, PollKeeps DEF LeaveUnsafe, LeaveSafe

\* Initially every thread runs native code and there is no safepoint.
LEMMA InitHolds == Init => SInv
  BY DEF Init, SInv, Types, Phase, Place, HeldWhenSafe, HeldWhenCalledBack, Awaited, CountedOnce, RunStates

\* What the invariant says at a safepoint.
LEMMA StoppedHolds == SInv => Stopped
  BY DEF SInv, Types, Phase, Place, HeldWhenSafe, HeldWhenCalledBack, Stopped, safepoint_safe

-----------------------------------------------------------------------------
(* The GC locker. *)

GTypes ==
  /\ critical \in [JavaThreads -> Nat]
  /\ lazy \in [JavaThreads -> BOOLEAN]
  /\ native_unlock \in [JavaThreads -> BOOLEAN]
  /\ op = [t \in JavaThreads |-> op[t]]
  /\ caller = [t \in JavaThreads |-> caller[t]]
  /\ jni_active_count \in Int
  /\ jni_lock_count \in Int

\* Who has called the operation that a thread is in.
Caller(t) ==
  /\ caller[t] \in {"none", "jni", "block_for_jni_critical", "native_unlock"}
  /\ op[t] \in {"none", "to_native", "mem_allocate", "stall", "stall_wait"} => caller[t] = "none"
  /\ op[t] \in {"lock_critical", "enter_critical", "jni_lock", "jni_lock_wait"} =>
       caller[t] \in {"jni", "block_for_jni_critical"}
  /\ op[t] \in {"unlock_critical", "exit_critical", "jni_unlock", "collect", "relock"} =>
       caller[t] \in {"jni", "block_for_jni_critical", "native_unlock"}

\* The fast paths run in the VM: no safepoint is reached during one of them.
FastPathInVM(t) == op[t] \in {"lock_critical", "enter_critical", "unlock_critical", "exit_critical"} => InVM(t)

\* How deep in regions a thread is where it enters or leaves one.  With _needs_gc set the fast
\* paths are for inner regions only.
Nesting(t) ==
  /\ op[t] = "enter_critical" /\ needs_gc => critical[t] > 0
  /\ op[t] \in {"jni_lock", "jni_lock_wait"} => critical[t] = 0
  /\ op[t] = "unlock_critical" => critical[t] > 0
  /\ op[t] = "exit_critical" => critical[t] > 0 /\ (needs_gc => critical[t] > 1)
  /\ op[t] = "jni_unlock" => critical[t] = 1

\* A lazy native that the VM thread has made a region stays one until its wrapper has called
\* unlock_critical; a safepoint makes every lazy native a region that it finds running.
LazyNative(t) ==
  /\ lazy[t] => op[t] = "none" /\ Running(t, "_thread_in_native")
  /\ op[t] = "to_native" \/ caller[t] = "block_for_jni_critical" => ~native_unlock[t]
  /\ native_unlock[t] /\ op[t] = "none" =>
       /\ critical[t] > 0
       /\ lazy[t] \/ Running(t, "_thread_in_Java") \/ (pc[t] # "run" /\ to[t] = "_thread_in_Java")
  /\ native_unlock[t] /\ op[t] # "none" =>
       /\ caller[t] = "native_unlock"
       /\ op[t] \in {"unlock_critical", "exit_critical", "jni_unlock", "collect", "doit_prologue", "execute", "relock"}
  /\ lazy[t] /\ type[t] # "_running" /\ vm # "restart" => native_unlock[t]

\* What holds of each thread by itself.
Local(t) == Caller(t) /\ FastPathInVM(t) /\ Nesting(t) /\ LazyNative(t)

\* _current_jni_active_count is the number of the threads in a region among those that have
\* been counted out.
ActiveCount == state = "_synchronizing" => jni_active_count = Cardinality(Critical \ Uncounted)

\* A collection runs at a safepoint that found no region active.
Collecting == request = "collecting" => vm = "safepoint" /\ jni_lock_count = 0

Counts == ActiveCount /\ CriticalCount /\ CountUpToDate

GInv == SInv /\ GTypes /\ (\A t \in JavaThreads : Local(t)) /\ Counts /\ Collecting

\* A step of thread t leaves the other threads where they are,
OthersKept(t) ==
  \A u \in JavaThreads \ {t} :
    /\ op'[u] = op[u] /\ caller'[u] = caller[u]
    /\ critical'[u] = critical[u] /\ lazy'[u] = lazy[u] /\ native_unlock'[u] = native_unlock[u]

\* in their transitions as well.
StatesKept(t) ==
  \A u \in JavaThreads \ {t} : pc'[u] = pc[u] /\ thread_state'[u] = thread_state[u] /\ to'[u] = to[u] /\ type'[u] = type[u]

\* A thread that runs in the VM has not been counted out, and there is no safepoint.
LEMMA InVMUncounted ==
  ASSUME SInv, NEW t \in JavaThreads, InVM(t)
  PROVE  state # "_synchronized" /\ vm # "safepoint" /\ (state = "_synchronizing" => t \in Uncounted)
  BY DEF SInv, Types, Phase, HeldWhenSafe, HeldWhenCalledBack, Uncounted, safepoint_safe, InVM, Running

\* The threads in a region are a number,
LEMMA CriticalCounted ==
  ASSUME Counting
  PROVE  Cardinality(Critical) \in Nat
  BY DEF Counting, Critical

\* and none are 0: _current_jni_active_count starts with the threads counted out, none.
LEMMA NoneCounted ==
  ASSUME Counting
  PROVE  Cardinality({}) = 0
<1>1. {} \in SUBSET JavaThreads
  OBVIOUS
<1> QED
  BY <1>1 DEF Counting

\* A thread is in a region from the call that takes its count from 0,
LEMMA CriticalJoined ==
  ASSUME NEW t \in JavaThreads, OthersKept(t), critical[t] = 0, critical'[t] = critical[t] + 1
  PROVE  t \notin Critical /\ Critical' = Critical \cup {t}
<1>1. ~in_critical(t) /\ in_critical(t)'
  BY DEF in_critical
<1>2. \A u \in JavaThreads \ {t} : in_critical(u)' <=> in_critical(u)
  BY Zenon DEF OthersKept, in_critical
<1> QED
  BY Zenon, <1>1, <1>2 DEF Critical

\* until the call that takes it back to 0;
LEMMA CriticalLeft ==
  ASSUME NEW t \in JavaThreads, OthersKept(t), critical[t] = 1, critical'[t] = critical[t] - 1
  PROVE  t \in Critical /\ Critical' = Critical \ {t}
<1>1. in_critical(t) /\ ~in_critical(t)'
  BY DEF in_critical
<1>2. \A u \in JavaThreads \ {t} : in_critical(u)' <=> in_critical(u)
  BY Zenon DEF OthersKept, in_critical
<1> QED
  BY Zenon, <1>1, <1>2 DEF Critical

\* the calls in between change nothing in this.
LEMMA CriticalSame ==
  ASSUME NEW t \in JavaThreads, OthersKept(t), in_critical(t), in_critical(t)'
  PROVE  Critical' = Critical
<1>1. \A u \in JavaThreads \ {t} : in_critical(u)' <=> in_critical(u)
  BY Zenon DEF OthersKept, in_critical
<1> QED
  BY Zenon, <1>1 DEF Critical

\* The counts stay right when no thread enters or leaves a region or is counted out,
LEMMA CountsKeep ==
  ASSUME Counts, SameUncounted, Critical' = Critical, UNCHANGED <<jni_active_count, jni_lock_count, needs_gc>>
  PROVE  Counts'
  BY DEF Counts, ActiveCount, CriticalCount, CountUpToDate, SameUncounted

\* when a thread in the VM enters its outermost region,
LEMMA CountsEnter ==
  ASSUME Counting, SInv, Counts, jni_lock_count \in Int, NEW t \in JavaThreads, InVM(t), SameUncounted,
         t \notin Critical, Critical' = Critical \cup {t},
         needs_gc => jni_lock_count' = jni_lock_count + 1, UNCHANGED <<jni_active_count, needs_gc>>
  PROVE  Counts'
<1>0. Critical \in SUBSET JavaThreads
  BY Zenon DEF Critical
<1>1. Cardinality(Critical') = Cardinality(Critical) + 1 /\ Cardinality(Critical) \in Nat
  BY <1>0 DEF Counting
<1>2. state = "_synchronizing" => Critical' \ Uncounted' = Critical \ Uncounted
  BY InVMUncounted DEF SameUncounted
<1>3. ActiveCount'
  BY <1>2 DEF Counts, ActiveCount, SameUncounted
<1>4. CriticalCount'
  BY InVMUncounted DEF CriticalCount, SameUncounted
<1>5. CountUpToDate'
  BY <1>1 DEF Counts, CountUpToDate, SameUncounted
<1> QED
  BY <1>3, <1>4, <1>5 DEF Counts

\* and when it leaves it.
LEMMA CountsLeave ==
  ASSUME Counting, SInv, Counts, jni_lock_count \in Int, NEW t \in JavaThreads, InVM(t), SameUncounted,
         t \in Critical, Critical' = Critical \ {t},
         needs_gc => jni_lock_count' = jni_lock_count - 1, UNCHANGED <<jni_active_count, needs_gc>>
  PROVE  Counts'
<1>0. Critical \in SUBSET JavaThreads
  BY Zenon DEF Critical
<1>1. Cardinality(Critical') = Cardinality(Critical) - 1 /\ Cardinality(Critical) \in Nat
  BY <1>0 DEF Counting
<1>2. state = "_synchronizing" => Critical' \ Uncounted' = Critical \ Uncounted
  BY InVMUncounted DEF SameUncounted
<1>3. ActiveCount'
  BY <1>2 DEF Counts, ActiveCount, SameUncounted
<1>4. CriticalCount'
  BY InVMUncounted DEF CriticalCount, SameUncounted
<1>5. CountUpToDate'
  BY <1>1 DEF Counts, CountUpToDate, SameUncounted
<1> QED
  BY <1>3, <1>4, <1>5 DEF Counts

\* Where lock_critical and unlock_critical return to.
LEMMA AfterLockEffect ==
  ASSUME GTypes, NEW t \in JavaThreads, AfterLock(t)
  PROVE  /\ op' = [op EXCEPT ![t] = op'[t]] /\ caller' = [caller EXCEPT ![t] = caller'[t]]
         /\ caller[t] = "block_for_jni_critical" => op'[t] = "unlock_critical" /\ caller'[t] = caller[t]
         /\ caller[t] = "jni" => op'[t] = "none" /\ caller'[t] = "none"
  BY Zenon DEF AfterLock, Goto, GTypes

\* Where unlock_critical returns to, and what a native method still has to do.
LEMMA AfterUnlockEffect ==
  ASSUME GTypes, NEW t \in JavaThreads, AfterUnlock(t)
  PROVE  /\ op' = [op EXCEPT ![t] = op'[t]] /\ caller' = [caller EXCEPT ![t] = caller'[t]]
         /\ native_unlock' \in [JavaThreads -> BOOLEAN]
         /\ native_unlock'[t] <=> native_unlock[t] /\ caller[t] # "native_unlock"
         /\ \A u \in JavaThreads \ {t} : native_unlock'[u] = native_unlock[u]
         /\ caller[t] = "jni" => op'[t] = "none" /\ caller'[t] = "none"
         /\ caller[t] # "jni" => op'[t] = "to_Java" /\ caller'[t] = caller[t]
  BY Zenon DEF AfterUnlock, Goto, GTypes

\* The state of the safepoint protocol is left alone.
LEMMA UnchangedKeeps ==
  ASSUME SInv, UNCHANGED <<vmVars, threadVars>>
  PROVE  SInv' /\ SameUncounted
  BY StutterKeeps DEF SameUncounted, Uncounted, vmVars, threadVars

\* A thread that stores a transition state stays out of the way of the others.
LEMMA TransitionStep ==
  ASSUME SInv, NEW t \in JavaThreads, NEW from \in {"_thread_in_vm", "_thread_in_native", "_thread_blocked"},
         NEW dest \in RunStates, transition(t, from, dest), UNCHANGED vmVars
  PROVE  /\ SInv' /\ SameUncounted /\ StatesKept(t)
         /\ Running(t, from) /\ pc'[t] = "do_call_back" /\ to'[t] = dest
<1>1. SInv' /\ SameUncounted
  BY TransitionKeeps
<1> QED
  BY Zenon, <1>1 DEF transition, Running, StatesKept, vmVars, SInv, Types

\* So does one that leaves Java code.
LEMMA FromJavaStep ==
  ASSUME SInv, NEW t \in JavaThreads, NEW dest \in {"_thread_in_vm", "_thread_in_native"},
         transition_from_java(t, dest), UNCHANGED vmVars
  PROVE  /\ SInv' /\ SameUncounted /\ StatesKept(t)
         /\ Running(t, "_thread_in_Java") /\ Running(t, dest)'
<1>1. SInv' /\ SameUncounted
  BY FromJavaKeeps
<1> QED
  BY <1>1 DEF transition_from_java, Running, StatesKept, vmVars, SInv, Types

\* What holds of the other threads still holds after a step of thread t.
LEMMA OthersLocal ==
  ASSUME NEW t \in JavaThreads, \A u \in JavaThreads : Local(u), OthersKept(t), StatesKept(t), Local(t)',
         needs_gc' => needs_gc, vm = "restart" => vm' = "restart"
  PROVE  \A u \in JavaThreads : Local(u)'
<1> SUFFICES ASSUME NEW u \in JavaThreads \ {t}
             PROVE  Local(u)'
  OBVIOUS
<1>1. /\ op'[u] = op[u] /\ caller'[u] = caller[u]
      /\ critical'[u] = critical[u] /\ lazy'[u] = lazy[u] /\ native_unlock'[u] = native_unlock[u]
      /\ pc'[u] = pc[u] /\ thread_state'[u] = thread_state[u] /\ to'[u] = to[u] /\ type'[u] = type[u]
  BY DEF OthersKept, StatesKept
<1>2. Local(u)
  BY SMTT(60)
<1>3. Caller(u)' /\ FastPathInVM(u)' /\ Nesting(u)'
  BY <1>1, <1>2 DEF Local, Caller, FastPathInVM, Nesting, InVM, Running
<1>4. LazyNative(u)'
  BY Zenon, <1>1, <1>2 DEF Local, LazyNative, Running
<1> QED
  BY <1>3, <1>4 DEF Local

\* A step of thread t in which no region is entered or left keeps the invariant, if it keeps
\* what holds of that thread.
LEMMA ThreadKeeps ==
  ASSUME GInv, NEW t \in JavaThreads, SInv', SameUncounted, StatesKept(t), OthersKept(t), GTypes', Local(t)',
         UNCHANGED <<vm, critical, jni_active_count, jni_lock_count, needs_gc>>,
         request' = "collecting" => request = "collecting"
  PROVE  GInv'
<1>1. \A u \in JavaThreads : Local(u)'
  BY OthersLocal DEF GInv
<1>2. Critical' = Critical
  BY DEF Critical, in_critical
<1>3. Counts'
  BY <1>2, CountsKeep DEF GInv
<1> QED
  BY <1>1, <1>3 DEF GInv, Collecting

\* The same for a step that only changes what the thread does in the GC locker.
LEMMA LockerKeeps ==
  ASSUME GInv, NEW t \in JavaThreads, UNCHANGED <<vars, needs_gc>>, OthersKept(t), GTypes', Local(t)',
         request' = "collecting" => request = "collecting"
  PROVE  GInv'
<1>1. SInv' /\ SameUncounted
  BY UnchangedKeeps DEF GInv, vars
<1>2. StatesKept(t)
  BY DEF StatesKept, vars, vmVars, threadVars
<1> QED
  BY <1>1, <1>2, ThreadKeeps DEF vars, vmVars, criticalVars

\* Taking a lock and waiting on one.
LEMMA MonitorKeeps ==
  ASSUME GInv, NEW t \in JavaThreads, lock(t) \/ relock_in_vm(t) \/ IWait(t)
  PROVE  GInv'
<1> Local(t) /\ SInv /\ GTypes /\ Counts /\ Collecting
  BY DEF GInv
<1>1. CASE lock(t) /\ UNCHANGED threadVars
  <2>1. UNCHANGED <<vars, needs_gc, op, caller, request>>
    BY <1>1 DEF lock, vars
  <2>2. OthersKept(t) /\ GTypes' /\ Local(t)'
    BY Zenon, <2>1
       DEF OthersKept, GTypes, Local, Caller, FastPathInVM, Nesting, LazyNative, InVM, Running, vars, vmVars,
           threadVars, criticalVars
  <2> QED
    BY <2>1, <2>2, LockerKeeps
<1>2. CASE lock(t) /\ transition(t, "_thread_in_vm", "_thread_blocked")
  <2>1. UNCHANGED <<vmVars, criticalVars, needs_gc, op, caller, request>> /\ op[t] \notin {"none", "lock_critical", "enter_critical", "unlock_critical", "exit_critical"}
    BY Zenon, <1>2 DEF lock, LockOf
  <2>2. OthersKept(t) /\ GTypes'
    BY Zenon, <2>1 DEF OthersKept, GTypes, criticalVars
  <2>3. SInv' /\ SameUncounted /\ StatesKept(t)
    BY Zenon, <1>2, <2>1, TransitionStep DEF RunStates
  <2>4. Local(t)'
    BY Zenon, <2>1 DEF Local, Caller, FastPathInVM, Nesting, LazyNative, vmVars, criticalVars
  <2> QED
    BY <2>1, <2>2, <2>3, <2>4, ThreadKeeps DEF vmVars, criticalVars
<1>3. CASE relock_in_vm(t)
  <2>1. UNCHANGED <<vmVars, criticalVars, needs_gc, op, caller, request>> /\ op[t] \notin {"none", "lock_critical", "enter_critical", "unlock_critical", "exit_critical"}
    BY <1>3 DEF relock_in_vm, LockOf, lockerVars
  <2>2. OthersKept(t) /\ GTypes'
    BY <2>1 DEF OthersKept, GTypes, criticalVars
  <2>3. SInv' /\ SameUncounted /\ StatesKept(t)
    BY Zenon, <1>3, <2>1, TransitionStep DEF RunStates, relock_in_vm
  <2>4. Local(t)'
    BY Zenon, <2>1 DEF Local, Caller, FastPathInVM, Nesting, LazyNative, vmVars, criticalVars
  <2> QED
    BY <2>1, <2>2, <2>3, <2>4, ThreadKeeps DEF vmVars, criticalVars
<1>4. CASE IWait(t)
  <2>1. OthersKept(t) /\ GTypes' /\ UNCHANGED <<vars, needs_gc, request>>
    BY Zenon, <1>4 DEF IWait, Goto, vars, criticalVars, GTypes, OthersKept
  <2>2. Local(t)'
    BY Zenon, <1>4, <2>1
       DEF IWait, Goto, GTypes, Local, Caller, FastPathInVM, Nesting, LazyNative, vars, vmVars, threadVars,
           criticalVars, Running
  <2> QED
    BY <2>1, <2>2, LockerKeeps
<1> QED
  BY Zenon, <1>1, <1>2, <1>3, <1>4 DEF lock

\* Entering and leaving a region.
LEMMA RegionKeeps ==
  ASSUME GInv, NEW t \in JavaThreads,
         \/ GetPrimitiveArrayCritical(t) \/ ReleasePrimitiveArrayCritical(t)
         \/ lock_critical(t) \/ unlock_critical(t)
  PROVE  GInv'
<1> Local(t) /\ SInv /\ GTypes /\ Counts /\ Collecting
  BY DEF GInv
<1>1. CASE GetPrimitiveArrayCritical(t) \/ ReleasePrimitiveArrayCritical(t)
  <2>1. OthersKept(t) /\ GTypes' /\ UNCHANGED <<vars, needs_gc, request>>
    BY Zenon, <1>1
       DEF GetPrimitiveArrayCritical, ReleasePrimitiveArrayCritical, Goto, vars, criticalVars, GTypes,
           OthersKept
  <2>2. Local(t)'
    BY Zenon, <1>1, <2>1
       DEF GetPrimitiveArrayCritical, ReleasePrimitiveArrayCritical, Goto, GTypes, in_critical, Local, Caller, FastPathInVM, Nesting,
           LazyNative, InVM, Running, vars, vmVars, threadVars, criticalVars
  <2> QED
    BY <2>1, <2>2, LockerKeeps
<1>2. CASE lock_critical(t) \/ unlock_critical(t)
  <2>1. OthersKept(t) /\ GTypes' /\ UNCHANGED <<vars, needs_gc, request>>
    BY Zenon, <1>2 DEF lock_critical, unlock_critical, Goto, vars, criticalVars, GTypes, OthersKept
  <2>2. /\ \/ op[t] = "lock_critical" /\ op'[t] = "jni_lock" /\ critical[t] = 0
           \/ op[t] = "lock_critical" /\ op'[t] = "enter_critical" /\ (needs_gc => critical[t] > 0)
           \/ op[t] = "unlock_critical" /\ op'[t] = "jni_unlock" /\ critical[t] = 1
           \/ op[t] = "unlock_critical" /\ op'[t] = "exit_critical" /\ critical[t] > 0 /\ (needs_gc => critical[t] > 1)
        /\ caller'[t] = caller[t]
    BY <1>2 DEF lock_critical, unlock_critical, Goto, GTypes, in_critical, Local, Nesting
  <2>3. Local(t)'
    BY Zenon, <2>1, <2>2
       DEF Local, Caller, FastPathInVM, Nesting, LazyNative, InVM, Running, vars, vmVars, threadVars, criticalVars
  <2> QED
    BY <2>1, <2>3, LockerKeeps
<1> QED
  BY <1>1, <1>2

\* The step of a thread in the VM that enters a region keeps the invariant,
LEMMA EnterKeeps ==
  ASSUME Counting, GInv, NEW t \in JavaThreads, InVM(t), op[t] \in {"enter_critical", "jni_lock"}, AfterLock(t),
         critical' = [critical EXCEPT ![t] = @ + 1],
         IF op[t] = "jni_lock" THEN jni_lock_count' = jni_lock_count + 1 ELSE jni_lock_count' = jni_lock_count,
         UNCHANGED <<vmVars, threadVars, lazy, native_unlock, jni_active_count, needs_gc, request>>
  PROVE  GInv'
<1> Local(t) /\ SInv /\ GTypes /\ Counts /\ Collecting
  BY DEF GInv
<1>1. /\ caller[t] = "block_for_jni_critical" => op'[t] = "unlock_critical" /\ caller'[t] = caller[t]
      /\ caller[t] = "jni" => op'[t] = "none" /\ caller'[t] = "none"
      /\ critical'[t] = critical[t] + 1 /\ critical[t] \in Nat
      /\ UNCHANGED <<pc, thread_state, to, type, vm>>
  BY AfterLockEffect DEF GTypes, vmVars, threadVars
<1>2. OthersKept(t) /\ StatesKept(t) /\ GTypes'
  <2>1. OthersKept(t) /\ StatesKept(t)
    BY AfterLockEffect DEF GTypes, OthersKept, StatesKept, vmVars, threadVars
  <2>2. GTypes'
    BY AfterLockEffect DEF GTypes
  <2> QED
    BY Zenon, <2>1, <2>2
<1>3. Local(t)'
  <2>1. critical'[t] > 0
    BY <1>1
  <2>2. Caller(t) /\ LazyNative(t) /\ (native_unlock'[t] <=> native_unlock[t]) /\ (lazy'[t] <=> lazy[t])
    BY Zenon DEF Local
  <2> QED
    BY ZenonT(30), <1>1, <2>1, <2>2 DEF Local, Caller, FastPathInVM, Nesting, LazyNative, InVM, Running
<1>4. SInv' /\ SameUncounted
  BY UnchangedKeeps
<1>5. \A u \in JavaThreads : Local(u)'
  BY Zenon, <1>1, <1>2, <1>3, OthersLocal DEF GInv
<1>6. Counts'
  <2>1. CASE critical[t] = 0
    <3>1. t \notin Critical /\ Critical' = Critical \cup {t}
      BY Zenon, <2>1, <1>1, <1>2, CriticalJoined
    <3>2. needs_gc => jni_lock_count' = jni_lock_count + 1
      BY <2>1 DEF Local, Nesting
    <3> QED
      BY <3>1, <3>2, <1>4, CountsEnter DEF GTypes
  <2>2. CASE critical[t] # 0
    <3>0. in_critical(t) /\ in_critical(t)'
      BY <2>2, <1>1 DEF in_critical
    <3>1. Critical' = Critical
      BY Zenon, <3>0, <1>2, CriticalSame
    <3>2. jni_lock_count' = jni_lock_count
      BY Zenon, <2>2 DEF Local, Nesting
    <3> QED
      BY <3>1, <3>2, <1>4, CountsKeep
  <2> QED
    BY Zenon, <2>1, <2>2
<1> QED
  BY Zenon, <1>1, <1>2, <1>4, <1>5, <1>6, InVMUncounted DEF Collecting, GInv

\* and so does the step that leaves one, to return or to collect.
LEMMA LeaveRegionKeeps ==
  ASSUME Counting, GInv, NEW t \in JavaThreads, InVM(t), op[t] \in {"exit_critical", "jni_unlock"},
         AfterUnlock(t) \/ (op' = [op EXCEPT ![t] = "collect"] /\ UNCHANGED <<caller, native_unlock>>),
         critical' = [critical EXCEPT ![t] = @ - 1],
         IF op[t] = "jni_unlock" THEN jni_lock_count' = jni_lock_count - 1 ELSE jni_lock_count' = jni_lock_count,
         UNCHANGED <<vmVars, threadVars, lazy, jni_active_count, needs_gc, request>>
  PROVE  GInv'
<1> Local(t) /\ SInv /\ GTypes /\ Counts /\ Collecting
  BY SMTT(30) DEF GInv
<1>1. /\ \/ op'[t] = "collect" /\ caller'[t] = caller[t] /\ native_unlock'[t] = native_unlock[t]
         \/ /\ native_unlock'[t] <=> native_unlock[t] /\ caller[t] # "native_unlock"
            /\ caller[t] = "jni" => op'[t] = "none" /\ caller'[t] = "none"
            /\ caller[t] # "jni" => op'[t] = "to_Java" /\ caller'[t] = caller[t]
      /\ critical'[t] = critical[t] - 1 /\ critical[t] \in Nat \ {0}
      /\ UNCHANGED <<pc, thread_state, to, type, vm>>
  BY SMTT(30), AfterUnlockEffect DEF GTypes, Local, Nesting, vmVars, threadVars
<1>2. OthersKept(t) /\ StatesKept(t) /\ GTypes'
  <2>1. critical' \in [JavaThreads -> Nat] /\ jni_lock_count' \in Int
    BY <1>1 DEF GTypes
  <2> QED
    BY <2>1, AfterUnlockEffect DEF GTypes, OthersKept, StatesKept, vmVars, threadVars
<1>3. Local(t)'
  BY Zenon, <1>1 DEF Local, Caller, FastPathInVM, Nesting, LazyNative, InVM, Running
<1>4. SInv' /\ SameUncounted
  BY UnchangedKeeps
<1>5. \A u \in JavaThreads : Local(u)'
  BY Zenon, <1>1, <1>2, <1>3, OthersLocal DEF GInv
<1>6. Counts'
  <2>1. CASE critical[t] = 1
    <3>1. t \in Critical /\ Critical' = Critical \ {t}
      BY Zenon, <2>1, <1>1, <1>2, CriticalLeft
    <3>2. needs_gc => jni_lock_count' = jni_lock_count - 1
      BY <2>1 DEF Local, Nesting
    <3> QED
      BY <3>1, <3>2, <1>4, CountsLeave DEF GTypes
  <2>2. CASE critical[t] # 1
    <3>0. in_critical(t) /\ in_critical(t)'
      BY <2>2, <1>1 DEF in_critical
    <3>1. Critical' = Critical
      BY Zenon, <3>0, <1>2, CriticalSame
    <3>2. jni_lock_count' = jni_lock_count
      BY SMTT(30), <2>2 DEF Local, Nesting
    <3> QED
      BY SMTT(30), <3>1, <3>2, <1>4, CountsKeep
  <2> QED
    BY Zenon, <2>1, <2>2
<1> QED
  BY Zenon, <1>1, <1>2, <1>4, <1>5, <1>6, InVMUncounted DEF Collecting, GInv

\* A thread that waits for the regions to be left, or for a collection, keeps the invariant.
LEMMA WaitKeeps ==
  ASSUME GInv, NEW t \in JavaThreads, NEW o \in {"jni_lock", "stall"}, op[t] = o, wait_JNICritical(t, o)
  PROVE  GInv'
<1> Local(t) /\ SInv /\ GTypes /\ Counts /\ Collecting
  BY DEF GInv
<1>1. /\ OthersKept(t) /\ GTypes' /\ UNCHANGED <<vmVars, criticalVars, needs_gc, request>>
      /\ op'[t] = (IF o = "stall" THEN "stall_wait" ELSE "jni_lock_wait") /\ caller'[t] = caller[t]
  BY ZenonT(30) DEF wait_JNICritical, Goto, GTypes, OthersKept, criticalVars
<1>2. SInv' /\ SameUncounted /\ StatesKept(t)
  BY <1>1, TransitionStep DEF wait_JNICritical, RunStates
<1>3. Local(t)'
  BY Zenon, <1>1 DEF Local, Caller, FastPathInVM, Nesting, LazyNative, vmVars, criticalVars
<1> QED
  BY <1>1, <1>2, <1>3, ThreadKeeps DEF vmVars, criticalVars

\* The paths of lock_critical and unlock_critical.
LEMMA CriticalKeeps ==
  ASSUME Counting, GInv, NEW t \in JavaThreads,
         enter_critical(t) \/ exit_critical(t) \/ jni_lock(t) \/ jni_unlock(t) \/ clear_needs_gc(t)
  PROVE  GInv'
<1> Local(t) /\ SInv /\ GTypes /\ Counts /\ Collecting
  BY DEF GInv
<1>1. CASE enter_critical(t)
  <2>1. InVM(t) /\ op[t] = "enter_critical"
    BY <1>1 DEF enter_critical, Local, FastPathInVM
  <2> QED
    BY Zenon, <1>1, <2>1, EnterKeeps DEF enter_critical
<1>2. CASE exit_critical(t)
  <2>1. InVM(t) /\ op[t] = "exit_critical"
    BY <1>2 DEF exit_critical, Local, FastPathInVM
  <2> QED
    BY Zenon, <1>2, <2>1, LeaveRegionKeeps DEF exit_critical
<1>3. CASE jni_lock(t)
  <2>1. InVM(t) /\ op[t] = "jni_lock"
    BY Zenon, <1>3 DEF jni_lock, Locked
  <2>2. CASE is_active_and_needs_gc \/ doing_gc
    BY Zenon, <1>3, <2>1, <2>2, WaitKeeps DEF jni_lock
  <2>3. CASE ~(is_active_and_needs_gc \/ doing_gc)
    BY Zenon, <1>3, <2>1, <2>3, EnterKeeps DEF jni_lock
  <2> QED
    BY <2>2, <2>3
<1>4. CASE jni_unlock(t)
  <2>1. InVM(t) /\ op[t] = "jni_unlock"
    BY <1>4 DEF jni_unlock, Locked
  <2>2. AfterUnlock(t) \/ (op' = [op EXCEPT ![t] = "collect"] /\ UNCHANGED <<caller, native_unlock>>)
    BY <1>4 DEF jni_unlock, Goto
  <2> QED
    BY Zenon, <1>4, <2>1, <2>2, LeaveRegionKeeps DEF jni_unlock
<1>5. CASE clear_needs_gc(t)
  <2>1. InVM(t) /\ op[t] = "relock" /\ AfterUnlock(t) /\ ~needs_gc'
        /\ UNCHANGED <<vmVars, threadVars, critical, lazy, jni_active_count, jni_lock_count, request>>
    BY Zenon, <1>5 DEF clear_needs_gc, Locked
  <2>2. /\ native_unlock'[t] <=> native_unlock[t] /\ caller[t] # "native_unlock"
        /\ caller[t] = "jni" => op'[t] = "none" /\ caller'[t] = "none"
        /\ caller[t] # "jni" => op'[t] = "to_Java" /\ caller'[t] = caller[t]
        /\ OthersKept(t) /\ StatesKept(t) /\ GTypes'
    BY <2>1, AfterUnlockEffect DEF GTypes, OthersKept, StatesKept, vmVars, threadVars
  <2>3. Local(t)'
    BY Zenon, <2>1, <2>2 DEF Local, Caller, FastPathInVM, Nesting, LazyNative, vmVars, threadVars
  <2>4. \A u \in JavaThreads : Local(u)'
    BY Zenon, <2>1, <2>2, <2>3, OthersLocal DEF vmVars, GInv
  <2>5. SInv' /\ SameUncounted
    BY <2>1, UnchangedKeeps
  <2>6. Counts'
    BY Zenon, <2>1, <2>5
       DEF Critical, in_critical, Counts, ActiveCount, CriticalCount, CountUpToDate, SameUncounted
  <2> QED
    BY Zenon, <2>1, <2>2, <2>4, <2>5, <2>6 DEF Collecting, vmVars, GInv
<1> QED
  BY <1>1, <1>2, <1>3, <1>4, <1>5

\* Allocations, stalls and requests for a collection.
LEMMA AllocationKeeps ==
  ASSUME GInv, NEW t \in JavaThreads,
         \/ allocate(t) \/ mem_allocate_work(t) \/ stall_until_clear(t) \/ collect(t)
         \/ doit_prologue(t) \/ execute_return(t) \/ doit_epilogue(t)
  PROVE  GInv'
<1> Local(t) /\ SInv /\ GTypes /\ Counts /\ Collecting
  BY DEF GInv
<1>1. CASE allocate(t) \/ mem_allocate_work(t) \/ collect(t)
  <2>1. OthersKept(t) /\ GTypes' /\ UNCHANGED <<vars, needs_gc, request>>
    BY Zenon, <1>1
       DEF allocate, mem_allocate_work, collect, Goto, vars, criticalVars, GTypes, OthersKept
  <2>2. /\ \/ op[t] \in {"none", "mem_allocate"} /\ ~lazy[t] /\ ~native_unlock[t] /\ op'[t] \in {"none", "stall", "mem_allocate", "doit_prologue"}
           \/ op[t] = "collect" /\ op'[t] = "doit_prologue"
        /\ caller'[t] = caller[t]
    BY Zenon, <1>1
       DEF allocate, mem_allocate_work, collect, Locked, InVM, Running, Goto, GTypes, Local, LazyNative,
           in_critical
  <2>3. Local(t)'
    BY Zenon, <2>1, <2>2
       DEF Local, Caller, FastPathInVM, Nesting, LazyNative, vars, vmVars, threadVars, criticalVars, Running
  <2> QED
    BY Zenon, <2>1, <2>3, LockerKeeps
<1>2. CASE stall_until_clear(t)
  <2>1. op[t] = "stall"
    BY Zenon, <1>2 DEF stall_until_clear, Locked
  <2>2. CASE needs_gc
    BY <1>2, <2>1, <2>2, WaitKeeps DEF stall_until_clear
  <2>3. CASE ~needs_gc
    <3>1. OthersKept(t) /\ GTypes' /\ UNCHANGED <<vars, needs_gc, request>> /\ op'[t] = "mem_allocate" /\ caller'[t] = caller[t]
      BY Zenon, <1>2, <2>3 DEF stall_until_clear, Goto, vars, criticalVars, GTypes, OthersKept
    <3>2. Local(t)'
      BY Zenon, <2>1, <3>1
         DEF Local, Caller, FastPathInVM, Nesting, LazyNative, vars, vmVars, threadVars, criticalVars, Running
    <3> QED
      BY Zenon, <3>1, <3>2, LockerKeeps
  <2> QED
    BY <2>2, <2>3
<1>3. CASE doit_prologue(t) /\ UNCHANGED <<threadVars, request>>
  <2>1. /\ op[t] = "doit_prologue" /\ UNCHANGED <<vars, needs_gc, caller, request>>
        /\ op' = [op EXCEPT ![t] = IF caller[t] # "none" THEN "relock" ELSE "mem_allocate"]
    BY Zenon, <1>3
       DEF doit_prologue, Locked, InVM, Running, AfterOperation, Goto, transition, threadVars, vars, SInv, Types
  <2>2. OthersKept(t) /\ GTypes'
    BY Zenon, <2>1 DEF GTypes, OthersKept, vars, criticalVars
  <2>3. Local(t)'
    BY Zenon, <2>1
       DEF GTypes, Local, Caller, FastPathInVM, Nesting, LazyNative, vars, vmVars, threadVars, criticalVars, Running
  <2> QED
    BY Zenon, <2>1, <2>2, <2>3, LockerKeeps
<1>4. CASE doit_prologue(t) /\ transition(t, "_thread_in_vm", "_thread_blocked") /\ request' = "queued"
  <2>1. /\ op[t] = "doit_prologue" /\ UNCHANGED <<vmVars, criticalVars, needs_gc, caller>>
        /\ op' = [op EXCEPT ![t] = "execute"]
    BY Zenon, <1>4
       DEF doit_prologue, Locked, InVM, Running, Goto, transition, threadVars, SInv, Types
  <2>2. OthersKept(t) /\ GTypes'
    BY Zenon, <2>1 DEF GTypes, OthersKept, criticalVars
  <2>3. SInv' /\ SameUncounted /\ StatesKept(t)
    BY Zenon, <1>4, <2>1, TransitionStep DEF RunStates
  <2>4. Local(t)'
    BY Zenon, <2>1 DEF GTypes, Local, Caller, FastPathInVM, Nesting, LazyNative, vmVars, criticalVars
  <2> QED
    BY Zenon, <1>4, <2>1, <2>2, <2>3, <2>4, ThreadKeeps DEF vmVars, criticalVars
<1>5. CASE execute_return(t)
  <2>1. op[t] = "execute" /\ UNCHANGED <<vmVars, criticalVars, needs_gc, op, caller, request>>
    BY <1>5 DEF execute_return, lockerVars
  <2>2. OthersKept(t) /\ GTypes'
    BY <2>1 DEF GTypes, OthersKept, criticalVars
  <2>3. SInv' /\ SameUncounted /\ StatesKept(t)
    BY Zenon, <1>5, <2>1, TransitionStep DEF RunStates, execute_return
  <2>4. Local(t)'
    BY Zenon, <2>1 DEF Local, Caller, FastPathInVM, Nesting, LazyNative, vmVars, criticalVars
  <2> QED
    BY Zenon, <2>1, <2>2, <2>3, <2>4, ThreadKeeps DEF vmVars, criticalVars
<1>6. CASE doit_epilogue(t)
  <2>1. /\ op[t] = "execute" /\ UNCHANGED <<vars, needs_gc, caller>> /\ request' = "none"
        /\ \/ caller[t] = "none" /\ ~native_unlock[t] /\ op' = [op EXCEPT ![t] = "none"]
           \/ caller[t] = "none" /\ ~native_unlock[t] /\ op' = [op EXCEPT ![t] = "mem_allocate"]
           \/ caller[t] # "none" /\ op' = [op EXCEPT ![t] = "relock"]
    BY Zenon, <1>6 DEF doit_epilogue, AfterOperation, Goto, Local, LazyNative
  <2>2. OthersKept(t) /\ GTypes'
    BY Zenon, <2>1 DEF GTypes, OthersKept, vars, criticalVars
  <2>3. Local(t)'
    BY Zenon, <2>1
       DEF GTypes, Local, Caller, FastPathInVM, Nesting, LazyNative, vars, vmVars, threadVars, criticalVars, Running
  <2> QED
    BY Zenon, <2>1, <2>2, <2>3, LockerKeeps
<1> QED
  BY Zenon, <1>1, <1>2, <1>3, <1>4, <1>5, <1>6 DEF doit_prologue

\* Lazy critical natives.
LEMMA LazyKeeps ==
  ASSUME Counting, GInv, NEW t \in JavaThreads,
         \/ check_needs_gc_for_critical_native(t) \/ return_to_wrapper(t) \/ call_critical_native(t)
         \/ return_from_critical_native(t) \/ critical_native_unlock(t)
  PROVE  GInv'
<1> Local(t) /\ SInv /\ GTypes /\ Counts /\ Collecting
  BY DEF GInv
<1>1. CASE check_needs_gc_for_critical_native(t) /\ needs_gc
  <2>1. /\ op[t] = "none" /\ ~native_unlock[t] /\ transition_from_java(t, "_thread_in_vm")
        /\ op' = [op EXCEPT ![t] = "lock_critical"] /\ caller' = [caller EXCEPT ![t] = "block_for_jni_critical"]
        /\ UNCHANGED <<vmVars, criticalVars, needs_gc, request>>
    BY Zenon, <1>1 DEF check_needs_gc_for_critical_native, Goto
  <2>2. OthersKept(t) /\ GTypes'
    BY Zenon, <2>1 DEF GTypes, OthersKept, criticalVars
  <2>3. SInv' /\ SameUncounted /\ StatesKept(t) /\ Running(t, "_thread_in_Java") /\ Running(t, "_thread_in_vm")'
    BY Zenon, <2>1, FromJavaStep
  <2>4. Local(t)'
    BY Zenon, <2>1, <2>3
       DEF GTypes, Local, Caller, FastPathInVM, Nesting, LazyNative, InVM, Running, vmVars, criticalVars
  <2> QED
    BY Zenon, <2>1, <2>2, <2>3, <2>4, ThreadKeeps DEF vmVars, criticalVars
<1>2. CASE check_needs_gc_for_critical_native(t) /\ ~needs_gc
  <2>1. /\ op[t] = "none" /\ ~native_unlock[t] /\ Running(t, "_thread_in_Java")
        /\ op' = [op EXCEPT ![t] = "to_native"]
        /\ UNCHANGED <<vars, needs_gc, caller, request>>
    BY Zenon, <1>2 DEF check_needs_gc_for_critical_native, Goto, vars
  <2>2. OthersKept(t) /\ GTypes'
    BY Zenon, <2>1 DEF GTypes, OthersKept, vars, criticalVars
  <2>3. Local(t)'
    BY Zenon, <2>1
       DEF GTypes, Local, Caller, FastPathInVM, Nesting, LazyNative, vars, vmVars, criticalVars, Running
  <2> QED
    BY <2>1, <2>2, <2>3, LockerKeeps
<1>3. CASE return_to_wrapper(t)
  <2>1. /\ op[t] = "to_Java" /\ transition(t, "_thread_in_vm", "_thread_in_Java")
        /\ op' = [op EXCEPT ![t] = IF caller[t] = "block_for_jni_critical" THEN "to_native" ELSE "none"]
        /\ caller' = [caller EXCEPT ![t] = "none"]
        /\ UNCHANGED <<vmVars, criticalVars, needs_gc, request>>
    BY <1>3 DEF return_to_wrapper, Goto
  <2>2. OthersKept(t) /\ GTypes'
    BY Zenon, <2>1 DEF GTypes, OthersKept, criticalVars
  <2>3. SInv' /\ SameUncounted /\ StatesKept(t)
    BY Zenon, <2>1, TransitionStep DEF RunStates
  <2>4. Local(t)'
    BY Zenon, <2>1 DEF GTypes, Local, Caller, FastPathInVM, Nesting, LazyNative, vmVars, criticalVars
  <2> QED
    BY Zenon, <2>1, <2>2, <2>3, <2>4, ThreadKeeps DEF vmVars, criticalVars
<1>4. CASE call_critical_native(t)
  <2>1. /\ op[t] = "to_native" /\ transition_from_java(t, "_thread_in_native")
        /\ op' = [op EXCEPT ![t] = "none"] /\ lazy' = [lazy EXCEPT ![t] = TRUE]
        /\ UNCHANGED <<vmVars, critical, native_unlock, jni_active_count, jni_lock_count, caller, needs_gc, request>>
    BY <1>4 DEF call_critical_native, Goto
  <2>2. OthersKept(t) /\ GTypes'
    BY Zenon, <2>1 DEF GTypes, OthersKept
  <2>3. /\ SInv' /\ SameUncounted /\ StatesKept(t)
        /\ Running(t, "_thread_in_Java") /\ Running(t, "_thread_in_native")'
    BY Zenon, <2>1, FromJavaStep
  <2>4. type[t] = "_running" \/ vm = "restart"
    BY Zenon, <2>3 DEF SInv, Types, HeldWhenSafe, HeldWhenCalledBack, safepoint_safe, Running
  <2>5. Local(t)'
    BY Zenon, <2>1, <2>3, <2>4 DEF GTypes, Local, Caller, FastPathInVM, Nesting, LazyNative, vmVars
  <2> QED
    BY Zenon, <2>1, <2>2, <2>3, <2>5, ThreadKeeps DEF vmVars
<1>5. CASE return_from_critical_native(t)
  <2>1. /\ lazy[t] /\ transition(t, "_thread_in_native", "_thread_in_Java")
        /\ lazy' = [lazy EXCEPT ![t] = FALSE]
        /\ UNCHANGED <<vmVars, critical, native_unlock, jni_active_count, jni_lock_count, op, caller, needs_gc, request>>
    BY <1>5 DEF return_from_critical_native, lockerVars
  <2>2. OthersKept(t) /\ GTypes'
    BY <2>1 DEF GTypes, OthersKept
  <2>3. SInv' /\ SameUncounted /\ StatesKept(t) /\ pc'[t] = "do_call_back" /\ to'[t] = "_thread_in_Java"
    BY Zenon, <2>1, TransitionStep DEF RunStates
  <2>4. Local(t)'
    BY Zenon, <2>1, <2>3 DEF GTypes, Local, Caller, FastPathInVM, Nesting, LazyNative
  <2> QED
    BY Zenon, <2>1, <2>2, <2>3, <2>4, ThreadKeeps DEF vmVars
<1>6. CASE critical_native_unlock(t)
  <2>1. /\ native_unlock[t] /\ op[t] = "none" /\ transition_from_java(t, "_thread_in_vm")
        /\ op' = [op EXCEPT ![t] = "unlock_critical"] /\ caller' = [caller EXCEPT ![t] = "native_unlock"]
        /\ UNCHANGED <<vmVars, criticalVars, needs_gc, request>>
    BY <1>6 DEF critical_native_unlock, Goto
  <2>2. OthersKept(t) /\ GTypes'
    BY Zenon, <2>1 DEF GTypes, OthersKept, criticalVars
  <2>3. SInv' /\ SameUncounted /\ StatesKept(t) /\ Running(t, "_thread_in_Java") /\ Running(t, "_thread_in_vm")'
    BY Zenon, <2>1, FromJavaStep
  <2>4. Local(t)'
    BY Zenon, <2>1, <2>3
       DEF GTypes, Local, Caller, FastPathInVM, Nesting, LazyNative, InVM, Running, vmVars, criticalVars
  <2> QED
    BY Zenon, <2>1, <2>2, <2>3, <2>4, ThreadKeeps DEF vmVars, criticalVars
<1> QED
  BY <1>1, <1>2, <1>3, <1>4, <1>5, <1>6

\* The counts stay right when a thread is counted out, even if that makes its native a region.
LEMMA CountsOutCounts ==
  ASSUME Counting, Counts, NEW t \in JavaThreads, CountsOut(t), jni_active_count \in Int, jni_lock_count \in Int,
         Critical' = Critical \/ Critical' = Critical \cup {t},
         jni_active_count' = jni_active_count + (IF t \in Critical' THEN 1 ELSE 0),
         UNCHANGED <<jni_lock_count, needs_gc>>
  PROVE  Counts'
<1>1. ActiveCount'
  <2>1. t \notin Critical \ Uncounted
    BY DEF CountsOut
  <2>2. CASE t \in Critical'
    <3>1. Critical' \ Uncounted' = (Critical \ Uncounted) \cup {t}
      BY <2>2 DEF CountsOut
    <3>2. Cardinality(Critical' \ Uncounted') = Cardinality(Critical \ Uncounted) + 1
      BY <2>1, <3>1 DEF Counting, Critical
    <3> QED
      BY <2>2, <3>2 DEF Counts, ActiveCount, CountsOut
  <2>3. CASE t \notin Critical'
    <3>1. Critical' \ Uncounted' = Critical \ Uncounted
      BY <2>3 DEF CountsOut
    <3> QED
      BY <2>3, <3>1 DEF Counts, ActiveCount, CountsOut
  <2> QED
    BY <2>2, <2>3
<1>2. CriticalCount'
  BY DEF CriticalCount, CountsOut
<1>3. CountUpToDate'
  <2>1. /\ Cardinality(Critical) \in Nat /\ Cardinality(Critical') \in Nat
        /\ Cardinality(Critical) <= Cardinality(Critical')
    BY DEF Counting, Critical
  <2> QED
    BY <2>1 DEF Counts, CountUpToDate, CountsOut
<1> QED
  BY <1>1, <1>2, <1>3 DEF Counts

\* The transitions of a thread, with and without the GC locker's leave.
LEMMA TransitionStepKeeps ==
  ASSUME Counting, GInv, NEW t \in JavaThreads, Transition(t) \/ Leave(t) \/ Enter(t)
  PROVE  GInv'
<1> Local(t) /\ SInv /\ GTypes /\ Counts /\ Collecting
  BY DEF GInv
<1>1. CASE (do_call_back(t) \/ set_thread_state(t) \/ block(t) \/ leave_block(t)) /\ UNCHANGED lockerVars
  <2>1. UNCHANGED <<vmVars, criticalVars, lockerVars>> /\ StatesKept(t)
    BY Zenon, <1>1
       DEF do_call_back, set_thread_state, block, leave_block, StatesKept, vmVars, SInv, Types
  <2>2. /\ pc[t] # "run"
        /\ pc'[t] = "run" => thread_state'[t] = to[t]
        /\ pc'[t] # "run" => to'[t] = to[t]
    BY Zenon, <1>1 DEF do_call_back, set_thread_state, block, leave_block, SInv, Types
  <2>3. OthersKept(t) /\ GTypes'
    BY <2>1 DEF GTypes, OthersKept, criticalVars, lockerVars
  <2>4. SInv' /\ SameUncounted
    BY <1>1, ThreadStepKeeps
  <2>5. Local(t)'
    BY Zenon, <2>1, <2>2
       DEF Local, Caller, FastPathInVM, Nesting, LazyNative, InVM, Running, vmVars, criticalVars, lockerVars
  <2> QED
    BY Zenon, <2>1, <2>3, <2>4, <2>5, ThreadKeeps DEF vmVars, criticalVars, lockerVars
<1>2. CASE call_back(t) /\ UNCHANGED lockerVars
  <2>1. SInv' /\ CountsOut(t)
    BY <1>2, CallBackKeeps
  <2>2. /\ UNCHANGED <<type, to, critical, lazy, native_unlock, jni_lock_count, lockerVars>> /\ StatesKept(t)
        /\ jni_active_count' = jni_active_count + (IF critical[t] > 0 THEN 1 ELSE 0)
        /\ pc[t] # "run" /\ pc'[t] # "run"
        /\ vm \notin {"restart", "safepoint"}
    BY Zenon, <1>2, <2>1
       DEF call_back, CountIfCritical, in_critical, CountsOut, StatesKept, SInv, Types, Phase
  <2>3. OthersKept(t) /\ GTypes'
    BY <2>2 DEF GTypes, OthersKept, lockerVars
  <2>4. Local(t)'
    BY Zenon, <2>2 DEF Local, Caller, FastPathInVM, Nesting, LazyNative, InVM, Running, lockerVars
  <2>5. \A u \in JavaThreads : Local(u)'
    BY Zenon, <2>2, <2>3, <2>4, OthersLocal DEF lockerVars, GInv
  <2>6. Counts'
    <3>1. Critical' = Critical /\ jni_active_count' = jni_active_count + (IF t \in Critical' THEN 1 ELSE 0)
      BY Zenon, <2>2 DEF Critical, in_critical
    <3> QED
      BY Zenon, <2>1, <2>2, <3>1, CountsOutCounts DEF GTypes, lockerVars
  <2> QED
    BY Zenon, <2>1, <2>2, <2>3, <2>5, <2>6 DEF Collecting, lockerVars, GInv
<1>3. CASE Leave(t) \/ Enter(t)
  <2>1. /\ op[t] = "none" /\ ~lazy[t] /\ ~native_unlock[t]
        /\ UNCHANGED <<vmVars, criticalVars, lockerVars>>
        /\ LeaveUnsafe(t) \/ LeaveSafe(t)
    BY Zenon, <1>3 DEF Leave, Enter, Outside, LeaveUnsafe, LeaveSafe
  <2>2. StatesKept(t)
    BY Zenon, <2>1
       DEF LeaveUnsafe, LeaveSafe, transition, transition_from_java, handle_polling_page_exception,
           StatesKept, vmVars, SInv, Types
  <2>3. OthersKept(t) /\ GTypes'
    BY Zenon, <2>1 DEF GTypes, OthersKept, criticalVars, lockerVars
  <2>4. SInv' /\ SameUncounted
    BY <2>1, LeaveKeeps
  <2>5. Local(t)'
    BY Zenon, <2>1 DEF Local, Caller, FastPathInVM, Nesting, LazyNative, criticalVars, lockerVars
  <2> QED
    BY Zenon, <2>1, <2>2, <2>3, <2>4, <2>5, ThreadKeeps DEF vmVars, criticalVars, lockerVars
<1> QED
  BY <1>1, <1>2, <1>3 DEF Transition, ThreadStep

\* A step of the VM thread that makes no native a region keeps what holds of the threads.
LEMMA VMLocal ==
  ASSUME GInv, UNCHANGED <<threadVars, critical, lazy, native_unlock, op, caller, needs_gc>>,
         \A t \in JavaThreads :
           type'[t] # "_running" /\ vm' # "restart" => (type[t] # "_running" /\ vm # "restart") \/ ~lazy[t]
  PROVE  \A t \in JavaThreads : Local(t)'
<1> SUFFICES ASSUME NEW t \in JavaThreads
             PROVE  Local(t)'
  BY Zenon
<1>1. Local(t)
  BY DEF GInv
<1>2. Caller(t)' /\ FastPathInVM(t)' /\ Nesting(t)'
  BY Zenon, <1>1 DEF Local, Caller, FastPathInVM, Nesting, InVM, Running, threadVars
<1>3. LazyNative(t)'
  BY Zenon, <1>1 DEF Local, LazyNative, Running, threadVars
<1> QED
  BY Zenon, <1>2, <1>3 DEF Local

\* The VM thread counts a thread out, or tells it to call back.
LEMMA ExamineStepKeeps ==
  ASSUME Counting, GInv, NEW t \in JavaThreads, examine_state_of_thread(t), UNCHANGED lockerVars
  PROVE  GInv'
<1> Local(t) /\ SInv /\ GTypes /\ Counts /\ Collecting
  BY DEF GInv
<1>1. CASE safepoint_safe(t)
  <2>1. /\ \/ /\ lazy[t] /\ critical' = [critical EXCEPT ![t] = critical[t] + 1] /\ critical[t] + 1 \in Nat
              /\ native_unlock' = [native_unlock EXCEPT ![t] = TRUE]
           \/ UNCHANGED <<critical, native_unlock>> /\ (lazy[t] => native_unlock[t])
        /\ type' = [type EXCEPT ![t] = "_at_safepoint"]
        /\ vm = "spin"
        /\ jni_active_count' = jni_active_count + (IF t \in Critical' THEN 1 ELSE 0)
        /\ UNCHANGED <<vm, pc, thread_state, to, lazy, jni_lock_count, lockerVars>>
    BY <1>1
       DEF examine_state_of_thread, check_for_lazy_critical_native, safepoint_safe, threadVars, GTypes,
           Local, LazyNative, Running, Critical, in_critical
  <2>2. SInv' /\ CountsOut(t)
    BY <1>1, ExamineKeeps
  <2>3. critical' \in [JavaThreads -> Nat] /\ native_unlock' \in [JavaThreads -> BOOLEAN]
    BY Zenon, <2>1 DEF GTypes
  <2>4. GTypes'
    BY <2>1, <2>3 DEF GTypes, lockerVars
  <2>5. OthersKept(t) /\ StatesKept(t)
    BY Zenon, <2>1 DEF GTypes, OthersKept, StatesKept, lockerVars, SInv, Types
  <2>6. Local(t)'
    <3>1. /\ \/ native_unlock'[t] /\ critical'[t] = critical[t] + 1 /\ lazy[t] /\ critical[t] \in Nat
             \/ (native_unlock'[t] <=> native_unlock[t]) /\ critical'[t] = critical[t] /\ (lazy[t] => native_unlock[t])
          /\ UNCHANGED <<op, caller, needs_gc>>
      BY <2>1 DEF GTypes, lockerVars
    <3>2. Caller(t)' /\ FastPathInVM(t)' /\ Nesting(t)'
      BY Zenon, <2>1, <3>1 DEF Local, Caller, FastPathInVM, Nesting, LazyNative, InVM, Running
    <3>3. LazyNative(t)'
      <4>1. LazyNative(t) /\ (op[t] = "none" => caller[t] = "none")
        BY Zenon DEF Local, Caller
      <4>2. native_unlock'[t] /\ op[t] = "none" => critical'[t] > 0
        BY SMTT(30), <3>1, <4>1 DEF LazyNative
      <4> QED
        BY Zenon, <2>1, <3>1, <4>1, <4>2 DEF LazyNative, Running
    <3> QED
      BY Zenon, <3>2, <3>3 DEF Local
  <2>7. \A u \in JavaThreads : Local(u)'
    BY SMTT(30), <2>1, <2>5, <2>6, OthersLocal DEF lockerVars, GInv
  <2>8. Critical' = Critical \/ Critical' = Critical \cup {t}
    BY <2>1 DEF GTypes, Critical, in_critical
  <2>9. Counts'
    BY Zenon, <2>1, <2>2, <2>8, CountsOutCounts DEF GTypes, lockerVars
  <2> QED
    BY ZenonT(30), <2>1, <2>2, <2>4, <2>7, <2>9 DEF Collecting, lockerVars, GInv
<1>2. CASE ~safepoint_safe(t)
  <2>1. /\ ~lazy[t] /\ type' = [type EXCEPT ![t] = "_call_back"]
        /\ UNCHANGED <<vm, threadVars, criticalVars, lockerVars>>
    BY <1>2 DEF examine_state_of_thread, safepoint_safe, criticalVars, Local, LazyNative, Running
  <2>2. SInv' /\ SameUncounted
    BY <1>2, ExamineKeeps
  <2>3. \A u \in JavaThreads : type'[u] # "_running" => type[u] # "_running" \/ ~lazy[u]
    BY <2>1 DEF SInv, Types
  <2>4. \A u \in JavaThreads : Local(u)'
    BY <2>1, <2>3, VMLocal DEF criticalVars, lockerVars
  <2>5. Critical' = Critical
    BY <2>1 DEF Critical, in_critical, criticalVars
  <2>6. Counts'
    BY <2>1, <2>2, <2>5, CountsKeep DEF criticalVars, lockerVars
  <2> QED
    BY ZenonT(30), <2>1, <2>2, <2>4, <2>6 DEF GTypes, Collecting, criticalVars, lockerVars, GInv
<1> QED
  BY <1>1, <1>2

\* The VM thread's part: safepoints and collections.
LEMMA VMThreadKeeps ==
  ASSUME Counting, GInv, Begin \/ VMThreadStep
  PROVE  GInv'
<1> SInv /\ GTypes /\ Counts /\ Collecting
  BY DEF GInv
<1>1. ASSUME \/ begin \/ start_synchronizing \/ make_polling_page_unreadable \/ spin_end \/ wait \/ synchronized
             \/ make_polling_page_readable \/ desynchronize \/ restart,
             make_polling_page_readable => request \notin {"queued", "collecting"},
             UNCHANGED lockerVars
      PROVE  GInv'
  <2>1. SInv'
    BY Zenon, <1>1, VMStepKeeps DEF VMStep
  <2>2. UNCHANGED <<threadVars, critical, lazy, native_unlock, op, caller, needs_gc, request>>
    BY Zenon, <1>1
       DEF begin, start_synchronizing, make_polling_page_unreadable, spin_end, wait, synchronized,
           make_polling_page_readable, desynchronize, restart, criticalVars, lockerVars
  <2>3. \A t \in JavaThreads : type'[t] # "_running" /\ vm' # "restart" => type[t] # "_running" /\ vm # "restart"
    BY Zenon, <1>1
       DEF begin, start_synchronizing, make_polling_page_unreadable, spin_end, wait, synchronized,
           make_polling_page_readable, desynchronize, restart
  <2>4. \A t \in JavaThreads : Local(t)'
    BY Zenon, <2>2, <2>3, VMLocal
  <2>5. GTypes' /\ Collecting'
    <3>1. jni_active_count' \in Int /\ jni_lock_count' \in Int
      BY <1>1
         DEF begin, start_synchronizing, make_polling_page_unreadable, spin_end, wait, synchronized,
             make_polling_page_readable, desynchronize, restart, criticalVars, GTypes
    <3>2. Collecting'
      BY Zenon, <1>1, <2>2
         DEF begin, start_synchronizing, make_polling_page_unreadable, spin_end, wait, synchronized,
             make_polling_page_readable, desynchronize, restart, criticalVars, Collecting
    <3> QED
      BY SMTT(30), <2>2, <3>1, <3>2 DEF GTypes
  <2>6. Critical' = Critical
    BY <2>2 DEF Critical, in_critical
  <2>7. Counts'
    <3>1. CASE begin \/ make_polling_page_unreadable \/ spin_end \/ wait \/ make_polling_page_readable
      <4>1. Uncounted' = Uncounted /\ UNCHANGED <<state, jni_active_count, jni_lock_count>>
        BY Zenon, <3>1
           DEF begin, make_polling_page_unreadable, spin_end, wait, make_polling_page_readable, threadVars,
               criticalVars, Uncounted
      <4> QED
        BY Zenon, <2>2, <2>6, <4>1, CountsKeep DEF SameUncounted
    <3>2. CASE start_synchronizing
      <4>1. Critical' \ Uncounted' = {}
        BY <2>6, <3>2 DEF start_synchronizing, threadVars, SInv, Types, Phase, Uncounted, Critical
      <4> QED
        BY SMTT(30), <2>2, <2>6, <3>2, <4>1, NoneCounted, CriticalCounted
           DEF start_synchronizing, SInv, Phase, Counts, ActiveCount, CriticalCount, CountUpToDate
    <3>3. CASE synchronized
      <4>1. Critical = Critical \ Uncounted /\ state = "_synchronizing"
        BY Zenon, <3>3, SynchronizedCounted
      <4> QED
        BY <2>2, <2>6, <3>3, <4>1, CriticalCounted
           DEF synchronized, Counts, ActiveCount, CriticalCount, CountUpToDate
    <3>4. CASE desynchronize \/ restart
      BY Zenon, <2>2, <2>6, <3>4
         DEF desynchronize, restart, criticalVars, SInv, Phase, Counts, ActiveCount, CriticalCount,
             CountUpToDate
    <3> QED
      BY <1>1, <3>1, <3>2, <3>3, <3>4
  <2> QED
    BY <2>1, <2>4, <2>5, <2>7 DEF GInv
<1>2. CASE check_active_before_gc
  <2>1. state = "_synchronized" /\ jni_lock_count \in Nat /\ \A t \in JavaThreads : ~InVM(t)
    BY <1>2, InVMUncounted, CriticalCounted
       DEF check_active_before_gc, SInv, Phase, Counts, CriticalCount
  <2>2. /\ UNCHANGED <<vars, op, caller>> /\ vm = "safepoint"
        /\ request' = "collecting" => jni_lock_count = 0
        /\ Critical' = Critical
    BY <1>2, <2>1 DEF check_active_before_gc, vars, criticalVars, Critical, in_critical
  <2>3. SInv' /\ SameUncounted
    BY <2>2, UnchangedKeeps DEF vars
  <2>4. ASSUME NEW t \in JavaThreads
        PROVE  Local(t)'
    <3>1. Local(t)
      BY DEF GInv
    <3> QED
      BY Zenon, <2>1, <2>2, <3>1
         DEF vars, vmVars, threadVars, criticalVars, Local, Caller, FastPathInVM, Nesting, LazyNative, InVM,
             Running
  <2>5. Counts'
    BY <2>1, <2>2 DEF vars, vmVars, criticalVars, Counts, ActiveCount, CriticalCount, CountUpToDate
  <2> QED
    BY Zenon, <2>2, <2>3, <2>4, <2>5 DEF vars, vmVars, criticalVars, GTypes, Collecting, GInv
<1>3. CASE do_collection
  <2>1. UNCHANGED <<vars, needs_gc, op, caller>> /\ request' = "done"
    BY <1>3 DEF do_collection
  <2>2. SInv' /\ SameUncounted
    BY <2>1, UnchangedKeeps DEF vars
  <2>3. \A t \in JavaThreads : Local(t)'
    BY <2>1, VMLocal DEF vars, vmVars, criticalVars
  <2>4. Counts'
    BY <2>1, <2>2, CountsKeep DEF vars, criticalVars, Critical, in_critical
  <2> QED
    BY SMTT(30), <2>1, <2>2, <2>3, <2>4 DEF vars, criticalVars, GTypes, Collecting, GInv
<1>4. CASE Begin
  <2>1. ~make_polling_page_readable
    BY <1>4 DEF Begin, begin, make_polling_page_readable
  <2> QED
    BY <1>1, <1>4, <2>1 DEF Begin
<1>5. CASE VMStep /\ (vm = "safepoint" => request \notin {"queued", "collecting"}) /\ UNCHANGED lockerVars
  <2>1. make_polling_page_readable => request \notin {"queued", "collecting"}
    BY <1>5 DEF make_polling_page_readable
  <2> QED
    BY <1>1, <1>5, <2>1, ExamineStepKeeps DEF VMStep
<1> QED
  BY <1>2, <1>3, <1>4, <1>5 DEF VMThreadStep

-----------------------------------------------------------------------------
(* The invariants and what follows from them. *)
INSTANCE FiniteSetTheorems

\* The Java threads are finitely many, so that Cardinality counts them.
LEMMA CardinalityCounts == Counting
<1> SUFFICES ASSUME NEW S \in SUBSET JavaThreads
             PROVE  /\ Cardinality(S) \in Nat
                    /\ Cardinality(S) = 0 <=> S = {}
                    /\ \A t \in S : Cardinality(S \ {t}) = Cardinality(S) - 1
                    /\ \A t \in JavaThreads \ S : Cardinality(S \cup {t}) = Cardinality(S) + 1
  BY DEF Counting
<1>1. IsFiniteSet(S)
  BY ThreadsAssumption, FS_Subset
<1>2. Cardinality(S) \in Nat
  BY <1>1, FS_CardinalityType
<1>3. Cardinality(S) = 0 <=> S = {}
  BY <1>1, FS_EmptySet
<1>4. \A t \in S : Cardinality(S \ {t}) = Cardinality(S) - 1
  BY <1>1, FS_RemoveElement
<1>5. \A t \in JavaThreads \ S : Cardinality(S \cup {t}) = Cardinality(S) + 1
  BY <1>1, FS_AddElement
<1> QED
  BY Zenon, <1>2, <1>3, <1>4, <1>5

\* The safepoint protocol keeps its invariant.
LEMMA InvariantHolds == Spec => []SInv
<1>1. SInv /\ [Next]_vars => SInv'
  <2> SUFFICES ASSUME SInv, [Next]_vars
               PROVE  SInv'
    OBVIOUS
  <2>1. CASE begin \/ VMStep
    BY <2>1, VMStepKeeps, CardinalityCounts
  <2>2. ASSUME NEW t \in JavaThreads, ThreadStep(t) \/ LeaveUnsafe(t) \/ LeaveSafe(t)
        PROVE  SInv'
    BY ZenonT(30), <2>2, ThreadStepKeeps, CallBackKeeps, LeaveKeeps, CardinalityCounts DEF ThreadStep
  <2>3. CASE UNCHANGED vars
    BY <2>3, StutterKeeps DEF vars
  <2> QED
    BY <2>1, <2>2, <2>3 DEF Next
<1> QED
  BY <1>1, InitHolds, PTL DEF Spec

\* The GC locker keeps its invariant.
LEMMA GInvariantHolds == GCSpec => []GInv
<1>1. GCInit => GInv
  <2> SUFFICES ASSUME GCInit
               PROVE  GInv
    OBVIOUS
  <2>1. SInv
    BY InitHolds DEF GCInit
  <2>2. Counts
    <3>1. Critical = {}
      BY DEF GCInit, Init, Critical, in_critical
    <3> QED
      BY ZenonT(30), <3>1, NoneCounted, CardinalityCounts DEF GCInit, Init, Counts, ActiveCount, CriticalCount, CountUpToDate
  <2>3. GTypes
    BY SMTT(30) DEF GCInit, Init, GTypes
  <2>4. (\A t \in JavaThreads : Local(t)) /\ Collecting
    BY DEF GCInit, Init, Local, Caller, FastPathInVM, Nesting, LazyNative, Collecting
  <2> QED
    BY Zenon, <2>1, <2>2, <2>3, <2>4 DEF GInv
<1>2. GInv /\ [GCNext]_gcVars => GInv'
  <2> SUFFICES ASSUME GInv, [GCNext]_gcVars
               PROVE  GInv'
    OBVIOUS
  <2>1. CASE Begin \/ VMThreadStep
    BY <2>1, VMThreadKeeps, CardinalityCounts
  <2>2. ASSUME NEW t \in JavaThreads, Transition(t) \/ Leave(t) \/ Enter(t)
        PROVE  GInv'
    BY Zenon, <2>2, TransitionStepKeeps, CardinalityCounts
  <2>3. ASSUME NEW t \in JavaThreads, LockerStep(t) \/ Call(t) \/ ReleasePrimitiveArrayCritical(t)
        PROVE  GInv'
    BY ZenonT(30), <2>3, MonitorKeeps, RegionKeeps, CriticalKeeps, AllocationKeeps, LazyKeeps, CardinalityCounts
       DEF LockerStep, Call
  <2>4. CASE UNCHANGED gcVars
    <3>1. UNCHANGED <<vmVars, threadVars, criticalVars, lockerVars>>
      BY <2>4 DEF gcVars, vars
    <3>2. SInv' /\ SameUncounted
      BY <3>1, UnchangedKeeps DEF GInv
    <3>3. Counts'
      BY Zenon, <3>1, <3>2, CountsKeep
         DEF criticalVars, lockerVars, Critical, in_critical, GInv
    <3>4. \A t \in JavaThreads : Local(t)'
      BY Zenon, <3>1, VMLocal DEF vmVars, criticalVars, lockerVars
    <3> QED
      BY Zenon, <3>1, <3>2, <3>3, <3>4 DEF vmVars, criticalVars, lockerVars, GInv, GTypes, Collecting
  <2> QED
    BY SMTT(30), <2>1, <2>2, <2>3, <2>4 DEF GCNext
<1> QED
  BY <1>1, <1>2, PTL DEF GCSpec

\* A collection never runs while a thread is in a critical region or in a lazy critical native.
THEOREM CollectsOutsideRegions == GCSpec => []NoGCInCritical
<1>1. GInv => NoGCInCritical
  <2> SUFFICES ASSUME GInv, request = "collecting"
               PROVE  Critical = {} /\ \A t \in JavaThreads : ~lazy[t]
    BY DEF NoGCInCritical
  <2>1. Cardinality(Critical) = 0 /\ vm = "safepoint"
    BY DEF GInv, Collecting, Counts, CriticalCount, SInv, Phase
  <2>2. Critical = {}
    BY ZenonT(30), <2>1, CardinalityCounts DEF Counting, Critical
  <2>3. ASSUME NEW t \in JavaThreads, lazy[t]
        PROVE  FALSE
    BY SMTT(30), <2>1, <2>2, <2>3 DEF GInv, Local, LazyNative, SInv, Phase, Critical, in_critical
  <2> QED
    BY <2>2, <2>3
<1> QED
  BY <1>1, GInvariantHolds, PTL

\* verify_critical_count: at a safepoint _jni_lock_count is the number of threads in a region.
THEOREM CountExactAtSafepoint == GCSpec => []CriticalCount
<1>1. GInv => CriticalCount
  BY DEF GInv, Counts
<1> QED
  BY <1>1, GInvariantHolds, PTL

\* While _needs_gc is set _jni_lock_count is kept up to date, except that it may fall behind
\* while the VM thread synchronizes.
THEOREM CountKeptUpToDate == GCSpec => []CountUpToDate
<1>1. GInv => CountUpToDate
  BY DEF GInv, Counts
<1> QED
  BY <1>1, GInvariantHolds, PTL

\* All Java threads are stopped while _state is _synchronized: none is in Java or VM code, or
\* past the test that would let it there, although states are read without a lock; also when the
\* transitions are those of the GC locker, the allocator and lazy critical natives.
THEOREM SafepointStops == (Spec => []Stopped) /\ (GCSpec => []Stopped)
<1>1. GInv => SInv
  BY Zenon DEF GInv
<1> QED
  BY <1>1, StoppedHolds, InvariantHolds, GInvariantHolds, PTL

\* _waiting_to_block counts the threads that are still to stop, each of them once, whether the
\* VM thread or the thread itself counts it out.
THEOREM ThreadsCountedOnce == (Spec => []CountedOnce) /\ (GCSpec => []CountedOnce)
<1>1. (SInv => CountedOnce) /\ (GInv => SInv)
  BY Zenon DEF SInv, GInv
<1> QED
  BY <1>1, InvariantHolds, GInvariantHolds, PTL

\* The fatal error of block() is never reached, and a page trap finds its thread running and the
\* safepoint in progress.
THEOREM NeverFatal == (Spec => []NoFatal) /\ (GCSpec => []NoFatal)
<1>1. SInv => NoFatal
  <2> SUFFICES ASSUME SInv, NEW t \in JavaThreads
               PROVE  /\ pc[t] = "block" /\ ~MustCallBack(t) => type[t] # "_call_back"
                      /\ Running(t, "_thread_in_Java") /\ PageArmed => state = "_synchronizing" /\ type[t] = "_running"
                      /\ pc[t] = "Safepoint_lock" => state = "_synchronizing"
    BY DEF NoFatal
  <2>1. pc[t] = "block" /\ ~MustCallBack(t) => type[t] # "_call_back"
    BY Zenon DEF SInv, HeldWhenCalledBack, MustCallBack
  <2>2. Running(t, "_thread_in_Java") /\ PageArmed => state = "_synchronizing" /\ type[t] = "_running"
    BY DEF SInv, Types, Phase, HeldWhenSafe, HeldWhenCalledBack, safepoint_safe, Running
  <2>3. pc[t] = "Safepoint_lock" => state = "_synchronizing"
    BY DEF SInv, Awaited
  <2> QED
    BY Zenon, <2>1, <2>2, <2>3
<1>2. GInv => SInv
  BY Zenon DEF GInv
<1> QED
  BY <1>1, <1>2, InvariantHolds, GInvariantHolds, PTL
=============================================================================
