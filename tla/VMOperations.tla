----------------------------- MODULE VMOperations -----------------------------
(***************************************************************************)
(* The VM thread and its operation queue (share/vm/runtime/vmThread.cpp):  *)
(* threads hand operations to the VM thread with VMThread::execute and     *)
(* wait for them, or do not; VMThread::loop takes the operations from a    *)
(* queue of two priorities and evaluates them, those that need a safepoint *)
(* in batches; wait_for_vm_thread_exit ends it.                            *)
(*                                                                         *)
(* A section under VMOperationQueue_lock, VMOperationRequest_lock or       *)
(* _terminate_lock is one step (NativeMonitor and MonitorOwner are about   *)
(* these locks), except where the VM thread gives the lock up.  Of the     *)
(* safepoint protocol (module Safepoint) only this is kept: begin() waits  *)
(* for the Java threads that are in the VM, and until end() none gets in.  *)
(***************************************************************************)
EXTENDS Integers, Sequences, FiniteSets

CONSTANTS
  JavaThreads,     \* requesters that safepoints stop
  OtherThreads,    \* requesters that they do not: GC threads, the watcher thread
  Modes,           \* the modes of the operations that each of them requests
  Nests,           \* the modes whose operations execute nested operations
  MaxAhead,        \* bound on the concurrent operations that a thread has in the queue
  HighTurns,       \* how often remove_next prefers safepoint operations (10 in the code)
  TraceLongCompiles,  \* a develop flag, FALSE in product builds
  NULL

Requesters == JavaThreads \cup OtherThreads

AllModes == {"_safepoint", "_no_safepoint", "_concurrent", "_async_safepoint"}

ASSUME VMOperationsAssumption ==
  /\ JavaThreads \cap OtherThreads = {}
  /\ Modes \in [Requesters -> SUBSET AllModes]
  /\ Nests \subseteq AllModes
  /\ MaxAhead \in Nat /\ HighTurns \in Nat \ {0}
  /\ TraceLongCompiles \in BOOLEAN
  /\ NULL \notin [calling_thread : Requesters, mode : AllModes]

VARIABLES
  pc, op,              \* of the requesters: where they are, the operation they request
  started, completed,  \* their tickets and completed operations, since execute() last returned
  evaluated,           \* history: their blocking operations evaluated, counted likewise
  vm_pc,               \* where the VM thread is
  back,                \* local of the VM thread: where its safepoint goes on
  safepoint_queue, medium_queue, queue_counter,
  notified,            \* the VM thread's wait on the queue lock has been notified
  cur_vm_operation, safepoint_ops, drain_list,
  prev_vm_operation,   \* the operation that executes a nested one, cur_vm_operation
  synchronizing, at_safepoint,
  should_terminate, terminated,
  terminator           \* where the thread in wait_for_vm_thread_exit is

requests == <<pc, op, started, completed, evaluated>>
queues == <<safepoint_queue, medium_queue, queue_counter>>
current == <<cur_vm_operation, safepoint_ops, drain_list, prev_vm_operation>>
safepoint == <<synchronizing, at_safepoint, back>>
exiting == <<should_terminate, terminated, terminator>>
vars == <<requests, vm_pc, notified, queues, current, safepoint, exiting>>

Init ==
  /\ pc = [t \in Requesters |-> "idle"] /\ op = [t \in Requesters |-> NULL]
  /\ started = [t \in Requesters |-> 0]
  /\ completed = [t \in Requesters |-> 0]
  /\ evaluated = [t \in Requesters |-> 0]
  /\ vm_pc = "loop" /\ back = NULL
  /\ safepoint_queue = <<>> /\ medium_queue = <<>> /\ queue_counter = 0
  /\ notified = FALSE
  /\ cur_vm_operation = NULL /\ safepoint_ops = <<>> /\ drain_list = <<>> /\ prev_vm_operation = NULL
  /\ synchronizing = FALSE /\ at_safepoint = FALSE
  /\ should_terminate = FALSE /\ terminated = FALSE /\ terminator = "idle"

\* An operation is known by who requested it and by its mode.
Operation(t, mode) == [calling_thread |-> t, mode |-> mode]

evaluate_at_safepoint(o) == o.mode \in {"_safepoint", "_async_safepoint"}

evaluate_concurrently(o) == o.mode \in {"_concurrent", "_async_safepoint"}

\* A Java thread neither enters the VM nor gets a lock with a safepoint check meanwhile.
Stopped(t) == t \in JavaThreads /\ (synchronizing \/ at_safepoint)

\* The Java threads that SafepointSynchronize::begin waits for.
InVM(t) == t \in JavaThreads /\ pc[t] \in {"prologue", "add", "epilogue"}

Goto(t, label) == pc' = [pc EXCEPT ![t] = label]

-----------------------------------------------------------------------------
(* VMThread::execute, called by any other thread *)

On(q) == {q[i] : i \in DOMAIN q}

Ahead(t, q) == Cardinality({i \in DOMAIN q : q[i].calling_thread = t})

execute(t) ==
  /\ pc[t] = "idle" /\ ~Stopped(t)
  /\ Ahead(t, safepoint_queue) + Ahead(t, medium_queue) + Ahead(t, safepoint_ops) < MaxAhead
  /\ \E mode \in Modes[t] : op' = [op EXCEPT ![t] = Operation(t, mode)]
  /\ Goto(t, "prologue")
  /\ UNCHANGED <<started, completed, evaluated, vm_pc, notified, queues, current, safepoint, exiting>>

\* doit_prologue may cancel the operation; a blocking one gets a ticket.
doit_prologue(t) ==
  /\ pc[t] = "prologue"
  /\ \/ /\ Goto(t, "idle")
        /\ op' = [op EXCEPT ![t] = NULL]
        /\ UNCHANGED started
     \/ /\ Goto(t, "add")
        /\ started' = [started EXCEPT ![t] = IF evaluate_concurrently(op[t]) THEN @ ELSE @ + 1]
        /\ UNCHANGED op
  /\ UNCHANGED <<completed, evaluated, vm_pc, notified, queues, current, safepoint, exiting>>

\* VMOperationQueue::add, and notify; only a blocking operation is waited for.
add(t) ==
  /\ pc[t] = "add"
  /\ IF evaluate_at_safepoint(op[t])
     THEN safepoint_queue' = Append(safepoint_queue, op[t]) /\ UNCHANGED medium_queue
     ELSE medium_queue' = Append(medium_queue, op[t]) /\ UNCHANGED safepoint_queue
  /\ notified' = (notified \/ vm_pc = "waiting")
  /\ IF evaluate_concurrently(op[t])
     THEN Goto(t, "idle") /\ op' = [op EXCEPT ![t] = NULL]
     ELSE Goto(t, "check") /\ UNCHANGED op
  /\ UNCHANGED <<started, completed, evaluated, vm_pc, queue_counter, current, safepoint, exiting>>

\* Under VMOperationRequest_lock: wait until the ticket is called.
check_completed(t) ==
  /\ pc[t] = "check" /\ ~Stopped(t)
  /\ Goto(t, IF completed[t] < started[t] THEN "waiting" ELSE "epilogue")
  /\ UNCHANGED <<op, started, completed, evaluated, vm_pc, notified, queues, current, safepoint, exiting>>

\* The operation, which is on the caller's stack, ends with the call.
doit_epilogue(t) ==
  /\ pc[t] = "epilogue"
  /\ Goto(t, "idle")
  /\ op' = [op EXCEPT ![t] = NULL]
  /\ completed' = [completed EXCEPT ![t] = @ - started[t]]
  /\ evaluated' = [evaluated EXCEPT ![t] = @ - started[t]]
  /\ started' = [started EXCEPT ![t] = 0]
  /\ UNCHANGED <<vm_pc, notified, queues, current, safepoint, exiting>>

-----------------------------------------------------------------------------
(* SafepointSynchronize::begin and end, as the VM thread calls them *)

Begin(then) ==
  /\ vm_pc' = "begin"
  /\ back' = then
  /\ synchronizing' = TRUE
  /\ UNCHANGED at_safepoint

begin ==
  /\ vm_pc = "begin"
  /\ \A u \in JavaThreads : ~InVM(u)
  /\ synchronizing' = FALSE
  /\ at_safepoint' = TRUE
  /\ vm_pc' = back
  /\ back' = NULL
  /\ UNCHANGED <<requests, notified, queues, current, exiting>>

End(then) ==
  /\ vm_pc' = then
  /\ at_safepoint' = FALSE
  /\ UNCHANGED <<synchronizing, back>>

-----------------------------------------------------------------------------
(* VMThread::loop *)

First(q) == IF q = <<>> THEN NULL ELSE Head(q)

Rest(q) == IF q = <<>> THEN q ELSE Tail(q)

\* Faulty form: safepoint operations always come first.
remove_next_high(drains) ==
  LET fromSafepoint == safepoint_queue # <<>>
      batch == fromSafepoint /\ drains
  IN  /\ cur_vm_operation' = First(IF fromSafepoint THEN safepoint_queue ELSE medium_queue)
      /\ medium_queue' = IF fromSafepoint THEN medium_queue ELSE Rest(medium_queue)
      /\ safepoint_queue' = IF batch THEN <<>> ELSE IF fromSafepoint THEN Rest(safepoint_queue) ELSE safepoint_queue
      /\ safepoint_ops' = IF batch THEN Rest(safepoint_queue) ELSE <<>>
      /\ UNCHANGED queue_counter

\* VMOperationQueue::remove_next: HighTurns times a safepoint operation if there is one,
\* then for once one of the others.  When drains holds, a safepoint operation brings all the
\* others in its queue along.
remove_next(drains) ==
  LET high == queue_counter < HighTurns
      fromSafepoint == IF high THEN safepoint_queue # <<>> ELSE medium_queue = <<>>
      batch == fromSafepoint /\ drains
  IN  /\ queue_counter' = IF high THEN queue_counter + 1 ELSE 0
      /\ cur_vm_operation' = First(IF fromSafepoint THEN safepoint_queue ELSE medium_queue)
      /\ medium_queue' = IF fromSafepoint THEN medium_queue ELSE Rest(medium_queue)
      /\ safepoint_queue' = IF batch THEN <<>> ELSE IF fromSafepoint THEN Rest(safepoint_queue) ELSE safepoint_queue
      /\ safepoint_ops' = IF batch THEN Rest(safepoint_queue) ELSE <<>>

\* Look for an operation; wait if there is none.
loop ==
  /\ vm_pc = "loop"
  /\ remove_next(FALSE)
  /\ vm_pc' = IF should_terminate THEN "exit" ELSE IF cur_vm_operation' = NULL THEN "waiting" ELSE "execute"
  /\ notified' = FALSE
  /\ UNCHANGED <<requests, drain_list, prev_vm_operation, safepoint, exiting>>

\* The wait ends with a notification or after GuaranteedSafepointInterval; in the second case
\* the VM thread may leave the lock for a safepoint of its own.
wait_notified ==
  /\ vm_pc = "waiting" /\ notified
  /\ vm_pc' = "recheck"
  /\ UNCHANGED <<requests, notified, queues, current, safepoint, exiting>>

wait_timedout ==
  /\ vm_pc = "waiting"
  /\ vm_pc' = "recheck"
  /\ UNCHANGED <<requests, notified, queues, current, safepoint, exiting>>

wait_cleanup ==
  /\ vm_pc = "waiting"
  /\ Begin("cleanup")
  /\ UNCHANGED <<requests, notified, queues, current, exiting>>

cleanup ==
  /\ vm_pc = "cleanup"
  /\ End("recheck")
  /\ UNCHANGED <<requests, notified, queues, current, exiting>>

\* Look again.  At termination what was found is dropped.
recheck ==
  /\ vm_pc = "recheck"
  /\ remove_next(TRUE)
  /\ notified' = FALSE
  /\ vm_pc' = IF should_terminate THEN "exit" ELSE IF cur_vm_operation' = NULL THEN "waiting" ELSE "execute"
  /\ UNCHANGED <<requests, drain_list, prev_vm_operation, safepoint, exiting>>

\* Leave the lock; the drain list makes the operations in the batch visible to a collection.
execute_operation ==
  /\ vm_pc = "execute"
  /\ IF evaluate_at_safepoint(cur_vm_operation)
     THEN drain_list' = safepoint_ops /\ Begin("evaluate")
     ELSE vm_pc' = "evaluate" /\ UNCHANGED <<drain_list, safepoint>>
  /\ UNCHANGED <<requests, notified, queues, cur_vm_operation, safepoint_ops, prev_vm_operation, exiting>>

CountFor(counts, o) ==
  IF evaluate_concurrently(o) THEN counts ELSE [counts EXCEPT ![o.calling_thread] = @ + 1]

evaluate ==
  /\ vm_pc = "evaluate"
  /\ evaluated' = CountFor(evaluated, cur_vm_operation)
  /\ vm_pc' = "complete"
  /\ UNCHANGED <<pc, op, started, completed, notified, queues, current, safepoint, exiting>>

\* The operation calls execute() itself, with an operation that needs a safepoint.
execute_nested ==
  /\ vm_pc = "evaluate"
  /\ cur_vm_operation.mode \in Nests
  /\ prev_vm_operation' = cur_vm_operation
  /\ cur_vm_operation' = Operation(cur_vm_operation.calling_thread, "_safepoint")
  /\ IF at_safepoint THEN vm_pc' = "nested" /\ UNCHANGED safepoint
                     ELSE Begin("nested")
  /\ UNCHANGED <<requests, notified, queues, safepoint_ops, drain_list, exiting>>

\* The nested operation is over, and then the outer one.
nested ==
  /\ vm_pc = "nested"
  /\ cur_vm_operation' = prev_vm_operation
  /\ prev_vm_operation' = NULL
  /\ evaluated' = CountFor(evaluated, prev_vm_operation)
  /\ IF evaluate_at_safepoint(prev_vm_operation) THEN vm_pc' = "complete" /\ UNCHANGED safepoint
                                                 ELSE End("complete")
  /\ UNCHANGED <<pc, op, started, completed, notified, queues, safepoint_ops, drain_list, exiting>>

\* The end of evaluate_operation: increment_vm_operation_completed_count, after which a blocking
\* operation may be gone, or delete, after which the other ones are.
complete ==
  /\ vm_pc = "complete"
  /\ completed' = CountFor(completed, cur_vm_operation)
  /\ IF evaluate_at_safepoint(cur_vm_operation) THEN vm_pc' = "batch" /\ cur_vm_operation' = NULL
                                                ELSE vm_pc' = "evaluated" /\ UNCHANGED cur_vm_operation
  /\ UNCHANGED <<pc, op, started, evaluated, notified, queues, safepoint_ops, drain_list, prev_vm_operation, safepoint, exiting>>

\* No safepoint operation: with TraceLongCompiles the VM thread prints its name if it took long.
trace_long ==
  /\ vm_pc = "evaluated"
  /\ cur_vm_operation' = NULL
  /\ vm_pc' = "notify"
  /\ UNCHANGED <<requests, notified, queues, safepoint_ops, drain_list, prev_vm_operation, safepoint, exiting>>

\* Faulty form: the drain list still holds the operation that is evaluated.
batch_next_listed ==
  /\ vm_pc = "batch" /\ safepoint_ops # <<>>
  /\ cur_vm_operation' = Head(safepoint_ops)
  /\ safepoint_ops' = Tail(safepoint_ops)
  /\ vm_pc' = "evaluate"
  /\ UNCHANGED <<requests, notified, queues, drain_list, prev_vm_operation, safepoint, exiting>>

\* The rest of the batch, at the same safepoint; then whatever has been queued since, if
\* peek_at_safepoint_priority sees any.
batch_next ==
  /\ vm_pc = "batch" /\ safepoint_ops # <<>>
  /\ cur_vm_operation' = Head(safepoint_ops)
  /\ safepoint_ops' = Tail(safepoint_ops)
  /\ drain_list' = Tail(safepoint_ops)
  /\ vm_pc' = "evaluate"
  /\ UNCHANGED <<requests, notified, queues, prev_vm_operation, safepoint, exiting>>

batch_peek ==
  /\ vm_pc = "batch" /\ safepoint_ops = <<>>
  /\ safepoint_queue # <<>>
  /\ vm_pc' = "drain"
  /\ UNCHANGED <<requests, notified, queues, current, safepoint, exiting>>

batch_end ==
  /\ vm_pc = "batch" /\ safepoint_ops = <<>>
  /\ safepoint_queue = <<>>
  /\ drain_list' = <<>>
  /\ vm_pc' = "end"
  /\ UNCHANGED <<requests, notified, queues, cur_vm_operation, safepoint_ops, prev_vm_operation, safepoint, exiting>>

drain_at_safepoint_priority ==
  /\ vm_pc = "drain"
  /\ safepoint_ops' = safepoint_queue
  /\ safepoint_queue' = <<>>
  /\ vm_pc' = "batch"
  /\ UNCHANGED <<requests, notified, medium_queue, queue_counter, cur_vm_operation, drain_list, prev_vm_operation, safepoint, exiting>>

end ==
  /\ vm_pc = "end"
  /\ End("notify")
  /\ UNCHANGED <<requests, notified, queues, current, exiting>>

\* Faulty form: a thread that is woken does not look at its ticket again.
notify_all_once ==
  /\ vm_pc = "notify"
  /\ pc' = [t \in Requesters |-> IF pc[t] = "waiting" THEN "epilogue" ELSE pc[t]]
  /\ \/ vm_pc' = "loop" /\ UNCHANGED safepoint
     \/ Begin("regular")
  /\ UNCHANGED <<op, started, completed, evaluated, notified, queues, current, exiting>>

\* Wake every thread that waits for its ticket; from time to time a safepoint for its own sake.
notify_all ==
  /\ vm_pc = "notify"
  /\ pc' = [t \in Requesters |-> IF pc[t] = "waiting" THEN "check" ELSE pc[t]]
  /\ \/ vm_pc' = "loop" /\ UNCHANGED safepoint
     \/ Begin("regular")
  /\ UNCHANGED <<op, started, completed, evaluated, notified, queues, current, exiting>>

regular ==
  /\ vm_pc = "regular"
  /\ End("loop")
  /\ UNCHANGED <<requests, notified, queues, current, exiting>>

-----------------------------------------------------------------------------
(* wait_for_vm_thread_exit, and the end of VMThread::run *)

\* Faulty form: the flag is set, but the VM thread is not notified.
wait_for_vm_thread_exit_silent ==
  /\ terminator = "idle"
  /\ should_terminate' = TRUE
  /\ terminator' = "check"
  /\ UNCHANGED <<requests, vm_pc, notified, queues, current, safepoint, terminated>>

\* Tell the VM thread to stop, under VMOperationQueue_lock, and wait until it has.
wait_for_vm_thread_exit ==
  /\ terminator = "idle"
  /\ should_terminate' = TRUE
  /\ notified' = (notified \/ vm_pc = "waiting")
  /\ terminator' = "check"
  /\ UNCHANGED <<requests, vm_pc, queues, current, safepoint, terminated>>

check_terminated ==
  /\ terminator = "check"
  /\ terminator' = IF terminated THEN "done" ELSE "waiting"
  /\ UNCHANGED <<requests, vm_pc, notified, queues, current, safepoint, should_terminate, terminated>>

\* The VM thread exits at a safepoint that nobody ends.
run_exit ==
  /\ vm_pc = "exit"
  /\ Begin("gone")
  /\ UNCHANGED <<requests, notified, queues, current, exiting>>

run_terminated ==
  /\ vm_pc = "gone" /\ ~terminated
  /\ terminated' = TRUE
  /\ terminator' = IF terminator = "waiting" THEN "check" ELSE terminator
  /\ UNCHANGED <<requests, vm_pc, notified, queues, current, safepoint, should_terminate>>

-----------------------------------------------------------------------------
RequesterStep(t) == doit_prologue(t) \/ add(t) \/ check_completed(t) \/ doit_epilogue(t)

VMThreadStep ==
  \/ loop \/ wait_notified \/ cleanup \/ recheck \/ execute_operation
  \/ evaluate \/ nested \/ complete \/ trace_long \/ batch_next \/ batch_peek \/ drain_at_safepoint_priority \/ batch_end \/ end
  \/ notify_all \/ begin \/ regular \/ run_exit \/ run_terminated

Next ==
  \/ \E t \in Requesters : execute(t) \/ RequesterStep(t)
  \/ VMThreadStep \/ execute_nested \/ wait_timedout \/ wait_cleanup
  \/ wait_for_vm_thread_exit \/ check_terminated

Spec == Init /\ [][Next]_vars

\* Threads go on with their calls, the VM thread with its loop.  No thread has to make a
\* request, and the timeout of the VM thread's wait, which a flag can turn off, is not relied
\* on.  A requester gets VMOperationRequest_lock between two safepoints some time.  Threads
\* that safepoints do not stop could keep the VM thread at one for ever, by adding an
\* operation each time before it peeks; they do not always win that race.
Fairness ==
  /\ \A t \in Requesters : WF_vars(RequesterStep(t)) /\ SF_vars(check_completed(t))
  /\ WF_vars(VMThreadStep) /\ SF_vars(batch_end)
  /\ WF_vars(check_terminated)

FairSpec == Spec /\ Fairness

-----------------------------------------------------------------------------
\* Blocking operations live on the stack of a thread inside execute().
Alive(o) ==
  evaluate_concurrently(o) \/ (op[o.calling_thread] = o /\ pc[o.calling_thread] \in {"check", "waiting"})

\* evaluate_operation has deleted it, or the caller may have.
Freed(o) == evaluate_concurrently(o) \/ ~Alive(o)

Evaluating == vm_pc \in {"evaluate", "nested"}

Outer == IF prev_vm_operation = NULL THEN cur_vm_operation ELSE prev_vm_operation

\* The VM thread never reads an operation whose caller has returned (evaluate_operation, 408: "if
\* it is stack allocated the calling thread might have deallocated"), nor one that it has deleted
\* itself; and while it evaluates, which may be a collection, every operation it has taken out of
\* the queue and not evaluated yet is on the drain list that oops_do scans (499: "ensure ops can
\* be scanned").
OperationsAlive ==
  /\ \A o \in On(safepoint_queue) \cup On(medium_queue) \cup On(safepoint_ops) \cup On(drain_list) : Alive(o)
  /\ Evaluating => Alive(Outer) /\ On(safepoint_ops) \subseteq On(drain_list)
  /\ TraceLongCompiles /\ vm_pc = "evaluated" => ~Freed(cur_vm_operation)

\* execute() returns from a blocking operation when it has been evaluated, once, and at a
\* safepoint if it needs one, whatever batches, nested operations and concurrent operations
\* of the same thread come in between; safepoints are not nested.
EvaluatedOnce ==
  /\ \A t \in Requesters :
       /\ completed[t] <= evaluated[t] /\ evaluated[t] <= started[t] /\ started[t] <= 1
       /\ pc[t] = "epilogue" => evaluated[t] = 1
  /\ Evaluating /\ evaluate_at_safepoint(cur_vm_operation) => at_safepoint
  /\ vm_pc \in {"loop", "waiting", "recheck", "execute"} => ~at_safepoint /\ prev_vm_operation = NULL
  /\ vm_pc = "begin" => ~at_safepoint

\* Every blocking request is answered unless the VM exits: no notification is lost between
\* add and the loop's wait, or between evaluate_operation, which counts without a lock, and
\* the wait in execute(); and an endless supply of safepoint operations does not starve the
\* others (remove_next: "to prevent starvation of lower priority queue").
RequestsAnswered ==
  \A t \in Requesters : pc[t] = "check" ~> (pc[t] = "idle" \/ should_terminate)

\* DestroyJavaVM gets to know that the VM thread is gone, wherever the request to terminate
\* finds it (wait_for_vm_thread_exit, run).
TerminationCompletes == should_terminate ~> terminator = "done"
=============================================================================
