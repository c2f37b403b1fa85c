# TLA+ models of the HotSpot runtime under Graal

This directory models the synchronization core of the virtual machine in this
repository: the native monitors that every VM lock is made of, the way the VM
thread gets past them, the safepoint protocol that stops all Java threads, the
queue through which threads ask the VM thread for such a stop, and the GC locker
that decides when a stop may become a collection; the monitors of Java objects
and the park events under both kinds of monitor; and the work-stealing queues of
the parallel collectors. TLC checks the models on small instances; TLAPS proves
the central facts about each of them for any number of threads.

Source paths below are relative to `src/share/vm` unless they start with
another directory of the repository.

## 1. The system and its parts

The repository is HotSpot (`src/`), the Graal compiler and Truffle (`graal/`),
the serviceability agent (`agent/`), and build and test scripts. What follows is
the inventory from which the models were chosen. `PROJECT.json` lists the same
parts with the state of each.

| part | state | operations | what is hard about it |
|---|---|---|---|
| native monitor, `runtime/mutex.cpp` | `_LockWord` (lock byte and cxq in one word), `_EntryList`, `_OnDeck`, `_WaitSet`, `_WaitLock`, per-thread `ParkEvent` | `ILock`, `IUnlock`, `notify`, `notify_all`, `IWait`, raw locking | two locks in one (outer byte, inner `_OnDeck`), succession after release, timeouts against notifications, one link field for all lists |
| ownership and sneaking, `runtime/mutex.cpp` | `_owner`, `_snuck`, thread state | `lock`, `lock_without_safepoint_check`, `try_lock`, `unlock`, `wait` | blocked threads may hold the lock byte when a safepoint stops them; the VM thread goes past them |
| safepoints, `runtime/safepoint.cpp`, `runtime/interfaceSupport.hpp` | `_state`, `_waiting_to_block`, polling page, per-thread type and `JavaThreadState` | `begin`, `end`, `block`, `examine_state_of_thread`, page traps, state transitions | threads change state while the VM thread reads it; each must be counted once |
| GC locker, `memory/gcLocker.cpp` and callers | `_jni_lock_count`, `_needs_gc`, `_doing_gc`, `_jni_active_critical` | `lock_critical`, `unlock_critical`, `jni_lock`, `jni_unlock`, `stall_until_clear`, `check_active_before_gc`, lazy critical natives | counts kept only on slow paths, flags read without a lock, a collection owed by the last thread out |
| VM thread, `runtime/vmThread.cpp` | operation queues, drain list, current operation, tickets | `execute`, `loop`, `evaluate_operation`, `wait_for_vm_thread_exit` | operations on their callers' stacks, batches, nested and concurrent operations, termination |
| object monitors, `runtime/objectMonitor.cpp`, `synchronizer.cpp`, `biasedLocking.cpp` | mark word, `_owner`, `_cxq`, `_EntryList`, `_succ`, `_Responsible`, `_count` | enter, exit, wait, notify, inflate, deflate, revoke | release before the search for an heir, spinners, the plain store of compiled code, inflation races |
| parking, `src/os/linux/vm/os_linux.cpp` | `_Event`, `_nParked`, `_counter`, `_cur_index`, mutexes, conditions, the interrupt flag | `park`, `unpark`, `sleep`, `interrupt` | lost wakeups, timeouts against permits |
| mux and spin locks, `runtime/thread.cpp` | one word: lock bit and list | `muxAcquire`, `muxRelease` | hand-off by the releaser |
| task queues, `utilities/taskqueue.hpp` | `_bottom`, `_age` (top and tag) | `push`, `pop_local`, `pop_global`, termination | the last element, index wrap-around, tag reuse |
| thread list and suspension, `runtime/thread.cpp` | thread list, suspend flags | `add`, `remove`, `java_suspend`, `java_resume` | against safepoints |
| JNI fast field access, `prims/jniFastGetField.cpp` | safepoint counter | speculative load between two samples | counter parity |
| collectors, `memory/`, `gc_implementation/` | heap | collection phases | heap-sized data; barriers and tokens of the concurrent collectors |
| code cache, `code/`, `runtime/sweeper.cpp` | nmethod states | make not entrant, zombie, sweep | activations against the sweeper |
| compile broker, `compiler/compileBroker.cpp` | compile queues | submit, wait, compile | blocking compiles |
| class loading, `classfile/`, `oops/instanceKlass.cpp` | dictionaries, placeholders, init state | resolve, define, initialize | parallel loading, init by several threads |
| Graal and Truffle, `graal/`, `src/share/vm/graal/` | graphs, assumptions, installed code | compile, install, invalidate | invalidation against installation |

The parts interact in one chain, and the modules follow it: threads block on
park events; native monitors and Java monitors are built of them; every VM lock
is a native monitor; a Java thread that blocks on one changes its thread state;
the thread states are what a safepoint looks at; the VM thread makes safepoints
for the operations in its queue; a collection is such an operation, and runs only
if the GC locker lets it. The threads of a parallel collection share their work
through the task queues.

## 2. Modules

| module | models | relation |
|---|---|---|
| `AbstractSemaphore` | what a park event promises: a semaphore with at most one permit | |
| `ThreadParking` | `os_linux.cpp`: `PlatformEvent`, `Parker`, `os::sleep`, `os::interrupt` | implements `AbstractSemaphore` |
| `ThreadParking_proofs` | theorems about `ThreadParking` | |
| `AbstractMonitor` | what a monitor promises its clients | |
| `NativeMonitor` | `mutex.cpp`: lock words, lists and every step of the functions on them | implements `AbstractMonitor` |
| `NativeMonitor_proofs`, `NativeMonitorWaits_proofs` | theorems about `NativeMonitor` | the second extends the first |
| `ObjectMonitor` | `objectMonitor.cpp` and the unlock of compiled code | implements `AbstractMonitor` |
| `ObjectMonitor_proofs` | theorems about `ObjectMonitor` | |
| `MonitorOwner` | `_owner`, thread states, sneaking, safepoints in three steps | uses the monitor's abstract steps |
| `MonitorOwner_proofs` | theorems about `MonitorOwner` | |
| `Safepoint` | `SafepointSynchronize` and the transition classes | |
| `VMOperations` | `vmThread.cpp`: the operation queue, the loop of the VM thread, its termination | takes `Safepoint` and the locks for what the other modules show |
| `VMOperations_proofs` | theorems about `VMOperations` | |
| `GCLocker` | `GC_locker`, allocation, collection requests, JNI critical regions and lazy critical natives | extends `Safepoint`: every step of both |
| `GCLocker_proofs` | theorems about `Safepoint` and `GCLocker` | |
| `AbstractDeque` | a deque with atomic operations | |
| `TaskQueue` | `taskqueue.hpp`: `push`, `pop_local`, `pop_global` | implements `AbstractDeque` |
| `TaskQueue_proofs` | theorems about `TaskQueue` | |
| `MC*` | values of the constants for TLC, and the refinements of `AbstractMonitor` | |

`MCNativeMonitor` and `MCObjectMonitor` keep the abstract state in a history
variable `state`, which every step sets to the value of the refinement mapping in
the new state. It restricts no behaviour; it spares TLC the evaluation of the
mapping for every pair of states.

### ThreadParking

`Self` is the thread that owns the events, `Others` are the threads that unpark
and interrupt it. A `PlatformEvent` is `Event`, `nParked` and `mutex`, one of each
for `_ParkEvent` and `_SleepEvent`; a `Parker` is `counter`, `cur_index` and
`parker_mutex`. The CAS of `park` and the exchange of `unpark` happen without the
mutex and are steps of their own, as are the acquisition of the mutex, the test
of `_Event` in the loop, the wait and its end, and the final store of 0.
`pthread_cond_wait` may return at any time, a timed one also because it expired.
`os::interrupt` sets the flag and then unparks the three objects one after the
other; `os::sleep` goes round its loop. `WorkAroundNPTLTimedWaitHang` has its
default, so signals are sent with the mutex held.

The refinement maps the permit to `Event["_ParkEvent"] = 1` and the status of the
thread to the call it is in. A timed park that gives up takes a permit with it that
is posted before its last store; `AbstractSemaphore` says so in `TimeOut`.

### ObjectMonitor

The state is that of an inflated `ObjectMonitor`: `owner` (a thread, the
`BasicLock` of a thread, or `NULL`), `recursions`, the queues `cxq`, `EntryList`
and `WaitSet`, `succ`, `Responsible`, `count` and `waiters`; `TState` and
`notified` of each `ObjectWaiter`; the locals `iterator` (the waiter a notifier has
dequeued and not yet released) and `WasNotified`; and each thread's park event, a
semaphore.
Accesses to words that other threads write are steps of their own, also the test
and the store in `if (_succ == Self) _succ = NULL`. What only the owner may change
(moving `cxq` to `EntryList`, unlinking a node) is one step. `TrySpin` may go
round its loop any number of times and give up at any turn. `notify` dequeues a
waiter, stores its `TState`, stores `_notified` and puts it on a queue in steps of
their own, `notifyAll` the same with the two stores the other way round; the waiter
reads `TState` without the lock (1583), again with it (1584), and samples
`_notified` later (1600). `wait_end` then decides by the sample and the interrupt flag
what `wait()` returns. The exit of compiled
code (`fast_unlock`) has its two forms: queues seen empty, and heir seen.
`inflate` stands for the deflation of a monitor that is not busy at a safepoint,
a stack lock, and the inflation by the next thread.

The knobs have their defaults (`Knob_ExitPolicy` 0, `Knob_QMode` 0,
`Knob_MoveNotifyee` 2, `SyncFlags` 0).

### VMOperations

A requester goes through `execute`: the prologue and the ticket, `add` with the
notification, the wait for the ticket, the epilogue. The VM thread goes through
`loop`: `remove_next`, the wait with or without a timeout and with the safepoint
of its own that may follow it, the evaluation, the rest of the batch, the drain of
what was queued meanwhile, the notification of the requesters. An operation is
known by its caller and its mode. `started` and `completed` are the tickets,
counted since `execute` last returned, which keeps them small. `HighTurns` is the
10 of `remove_next`. Java threads stand still from `begin` to `end`; other threads
do not. Sections under one lock are one step; the VM thread takes these locks
without sneaking, as the code does on purpose (`vmThread.cpp:424`, `:568`, `:316`).
`complete` is the increment of the ticket that lets the caller go. After it the VM
thread returns to `evaluate_operation`'s caller, which touches the operation again
only if `TraceLongCompiles` is on (`trace_long`); the constant of that name is the
flag, a develop flag that is off (`globals.hpp:634`), and `FALSE` in the run.

### NativeMonitor

The state is the state of a `Monitor`: `LockByte` and `cxq` (two variables for
one word: every CAS of the word is one action that reads and writes both),
`EntryList`, `OnDeck` (a thread, `NULL`, or `LBIT` for the inner lock),
`WaitSet`, `WaitLock`, and of each `ParkEvent` its `Notified` field and the
`Event` semaphore. The lists are sequences. `pc[t]` is the label in the C++
function that thread `t` is at, `call[t]` the entry point it is in, `w[t]` and
`List[t]` the locals of those names. An action is a run of code with at most one
access to shared state that other threads may race with, so all interleavings of
reads, stores and CASes are explored. `storeload` fences stand between the store
and the load in each Dekker-style pair, so the interleaving semantics is the
memory model the code asks for.

Abstracted: the length of the spin loops (`TrySpin` is one attempt or more, each
a step of its own); spurious returns of `park` are allowed;
`Thread::muxAcquire` and `muxRelease` of `_WaitLock` are a plain lock;
`NativeMonitorFlags` is 0, its default.

### MonitorOwner

`lock` is split where the code reads shared state: the fast attempt, the test of
`can_sneak && _owner == NULL`, the spin, the transition to blocked, `ILock`, the
transition back, and `set_owner`. A Java thread passes a transition only when no
safepoint is on, or locks without the check and blocks in the VM (`ILock_in_vm`).
`IWait`, `Timeout`, `reentry`, `notify_all` are the steps of
`AbstractMonitor`, which `NativeMonitor` is shown to implement. Safepoints are
`begin`, `synchronized` (all Java threads are at a label where they are blocked
or will stop) and `end`; `Safepoint` has the detail.

Which thread may call what is `Calls`, chosen at the start among the members of the
constant `Uses`. There are two kinds of locks, and `Discipline` is what the VM keeps
to. On one kind the VM thread may sneak; Java threads take it with a safepoint check,
and no Java thread holds it across a safepoint (`thread.cpp:947` checks for a
"Thread holding lock at safepoint that vm can block on"). The other kind, such as
`VMOperationQueue_lock` and `_terminate_lock`, is taken without checks by everybody,
by the VM thread also inside safepoints (`vmThread.cpp:316`, `:532`, `:624`). A lock
that has an owner at a safepoint has one that safepoints do not stop
(`NonJavaThreads`); the VM thread then blocks behind it (`mutex.cpp:912`).

### Safepoint

The VM thread's label is `vm`; the threads' `thread_state` is `JavaThreadState`,
with its transition states. A transition is the store of the transition state,
the read of `_state`, `block` if a safepoint is on, and the store of the new
state. `block` takes `Safepoint_lock`, counts the thread out if it is needed,
and waits on `Threads_lock`, which the VM thread holds from `begin` to `end`.
`examine_state_of_thread` is one step per thread and look, in any order.

The two locks are not variables: `Safepoint_lock` is held by the VM thread at
certain labels, and `block`'s critical section is one step; `Threads_lock` is
held from `begin` to `restart`. Left out: external suspension, thread start and
exit, deferred arming of the page (`DeferPollingPageLoopCount` is -1 by default),
native frames that are not walkable, and statistics.

### GCLocker

Extends `Safepoint` with the variables of `GC_locker`, the two locks
`JNICritical_lock` and `Heap_lock`, one collection request and, for each thread,
its place in the locker's or the allocator's code. Every blocking lock is a
`ThreadBlockInVM`, so a thread may be stopped by a safepoint before and after it.
A JNI caller nests up to `MaxCritical` regions; an allocation may fail, and then
collect, stall or return NULL as `mem_allocate_work` does; a lazy critical native
is entered without a count, and the VM thread enters the region on its behalf if
a safepoint finds it there. A thread may allocate inside a region, where it
returns NULL instead of stalling. A request is skipped if a collection was made since
it read the counts: for an allocation any, for a full one (`_full`, from `jni_unlock`)
only a full one, and every collection may or may not have been one
(`vmGCOperations.cpp:88`). The collection is one step at the safepoint. The pending
list lock (`vmGCOperations.cpp:115`) is left out: every request takes it right before
`Heap_lock` and gives it up right after.

### TaskQueue

The state is that of a `GenericTaskQueue`: the ring `elems`, `bottom` and `age`,
a record for the word with top and tag. Each access to a word that another
worker writes is a step; reads by the owner of what only the owner writes are
part of the next one. A call that fails without a store is a stutter. Memory is
sequentially consistent, which is what the fences in `pop_local` and `pop_global`
are there for. The ring is small, the arithmetic modulo its size is the code's.
`OverflowTaskQueue` adds a stack that only the owner touches, and is left out, as
is the choice of a victim in `steal`.

The refinement mapping reads the queue from `top` to `bottom`, with one more task
while the owner has lowered `_bottom` past a task that a thief may still take; a
pop takes effect at its CAS, or at the owner's second read of `top`.

## 3. What TLC checks

Each passing run finishes in under four minutes with two workers.

| run | instance | properties | distinct states |
|---|---|---|---|
| `parking` | a thread that parks, sleeps and parks on its Parker; 2 threads that unpark and interrupt it | `Guarantees`, `ImplementsSemaphore`, `PermitWakes`, `InterruptWakes` | 80,163 |
| `monitor_wait` | 2 threads that lock, wait with a timeout and notify, one that notifies one or all | `TypeOK`, `MutualExclusion`, `InnerLock`, `Residency`, `Assertions`, `NoStranding`, `ImplementsMonitor` | 898,176 |
| `monitor_live` | 2 threads, all calls | `ImplementsFairMonitor` | 35,367 |
| `object_monitor` | a timed waiter, a thread that leaves in compiled code, a notifier that enters recursively and calls `exit()` | `Assertions`, `Residency`, `NoStranding`, `ImplementsMonitor` | 778,448 |
| `object_live` | a waiter that spins, is suspended and interrupted; a thread with recursive enters and `notifyAll` | `NeverDeflatedInUse`, `ImplementsFairMonitor`, `InterruptEndsWait` | 81,067 |
| `owner_sneak` | 3 Java threads, one thread that safepoints do not stop and the VM thread; a lock of each kind | `OwnerExclusion`, `SneakScope`, `VMThreadEnters`, `SafepointEnds` | 16,311 |
| `vm_operations` | 2 Java threads and one that safepoints do not stop, all four modes, nested operations, termination | `OperationsAlive`, `EvaluatedOnce`, `RequestsAnswered`, `TerminationCompletes` | 69,348 |
| `gc_locker` | 3 threads: one in lazy critical natives, one in nested JNI regions, one that allocates; safepoints for the collections | `NoGCInCritical`, `CriticalCount`, `CountUpToDate`, `Stopped`, `CountedOnce`, `NoFatal` | 1,964,408 |
| `gc_live` | 2 threads that allocate in and outside of regions, entered through JNI only | `InactiveWhenInitiating`, `RequestServed`, `NeedsGCCleared`, `StallEnds`, `SafepointCompletes` | 69,275 |
| `task_queue` | an owner, 2 thieves, a ring of 4, 4 tasks | `Canonical`, `ImplementsDeque` | 557,405 |

What they show. A park event is a binary semaphore, and neither a permit nor an
interrupt is missed on the way into a wait. Both kinds of monitor lose no thread
between their lists, never leave a queued thread without somebody who will wake
it, and take only steps of one abstract monitor; when they are free and contended
for, somebody gets in. For the Java monitor this holds although compiled code
releases with a plain store after its look at the queues: the timed park of the
`Responsible` thread is what makes up for it, and without the timeout
`NoStranding` fails. The VM thread's sneaking is safe among Java threads, and a lock
it blocks on inside a safepoint comes free. No Java thread runs in a safepoint, every thread is counted once, and every safepoint that
begins completes. The VM thread reaches an operation only while it exists,
evaluates it once, and answers every request until it is told to stop. No
collection runs while a thread is in a critical region, and one that was put off
for a region entered through JNI is requested when the last thread leaves; the count
of threads in regions is exact whenever `_needs_gc` is set, but for natives that the
VM thread is turning into regions while it synchronizes. Each
task of a queue is handed out once.

`CHECK_DEADLOCK FALSE` stands where the program may really stop: every thread may
be waiting for a notification that no thread will send, and nothing happens after
the VM thread has exited.

### Bounds

Three threads are the least that show the monitor's hard case: one that releases
and arranges succession, one that barges in meanwhile, one that enqueues itself
and is seen by neither (the comment at `Punt` describes it with T1, T2, T3).
Timed waits can do all that untimed ones can, so `monitor_wait` has only them.
Liveness is checked on two threads with all calls. For Java monitors three
threads are needed as well: an owner that leaves, an heir, and a thread that
barges in or strands itself; one of each kind of exit is among them, and one of them
enters recursively. Spinning, suspension and interrupts are in `object_live`, with
two threads. For parking, two threads that unpark let
one be late with its signal while the other posts again. In `vm_operations` one
thread keeps the safepoint queue filled, one waits for an operation of the other
queue, and one adds to both during safepoints; `HighTurns` = 2 instead of 10 makes
the turn of the lower queue come as it does in the code, only sooner, and
`MaxAhead` bounds the operations a thread has in the queues. For safepoints the
VM thread deals with each thread alone; the three threads of `gc_locker` give one that
is counted by the VM thread, one that calls back and one that is still running. For
the GC locker the three threads are the three roles that meet: a lazy native that
becomes a region late, a region entered through JNI (`MaxCritical` = 2: nested or
outermost), and the thread whose allocation sets `_needs_gc` and stalls. With two
threads the count is never behind, with three it is, as the second half of
`CountUpToDate` allows. In `gc_live` `MaxCritical` is 1: a thread that enters and leaves
nested regions for ever keeps the outermost one, and nothing in the VM prevents it.
The overlap of three regions is not explored. For the task queue, two thieves can race
with each other and with the owner for one task; a ring of 4 holds two tasks at
most and comes round after four pushes, and four tasks let both thieves hold a
stale one while the ring is full. `MaxTag` = 2 stops pushing after the tag was
raised twice, by a last task taken or by top coming round; that a tag of 32 bits
comes round while a thief sleeps is outside the model.

### Fairness

* Monitor: `WF` of each thread's steps inside the monitor's code, since the
  scheduler runs every runnable thread; `SF` of `CallUnlock`: critical sections
  are finite. Nothing makes a client call the monitor. The steps include the end of
  a timed park, so a timed wait that nobody notifies ends.
* Parking: `WF` of the threads' steps, `SF` of the acquisitions of the Parker's
  mutex, which others may take again and again. No wait has to expire or to wake
  without reason.
* Java monitor: `WF` of the threads' steps and of the timers; `SF` of `spin_abort`,
  because the counter of the spin loop runs out, and of `enter_end`, because a
  thread is not suspended each time it has just won. Nothing makes a thread leave
  the monitor.
* VM thread: `WF` of its steps and of the requesters'; the timeout of its wait is
  not relied on. `SF` of `check_completed`, because a requester gets its lock
  between two safepoints some time, and of `batch_end`: threads that safepoints do
  not stop could add an operation each time before the VM thread peeks, and are
  taken not to win that race for ever.
* Owner: `WF` of the threads' steps, critical sections included; `SF` of `ILock`,
  because a queued thread is not passed by for ever, which is the liveness
  `ImplementsFairMonitor` shows; and a safepoint operation ends.
* Safepoint and GC locker: `WF` of the VM thread; `SF` of the steps inside a transition
  or on a lock, because a thread may lose the race for a free lock to a safepoint but
  not for ever; `SF` of `Leave`: code in the VM reaches a transition and Java code a
  poll, which is what HotSpot demands of both; `SF` of `ReleasePrimitiveArrayCritical`:
  the JNI specification asks for short regions. Native code outside a region need
  not return.

### Where the code and its comments disagree

Two runs are expected to fail.

* `gc_lazy_served`: the wrapper of a lazy critical native tests `_needs_gc` once. A
  thread that is stopped by a safepoint on its way out of `block_for_jni_critical`
  starts its native although the flag was set there. The last thread out of the
  regions then finds the locker active again, its collection is refused, and
  `_needs_gc` is cleared without one.
* `object_interrupt`: "Monitor notify has precedence over thread interrupt"
  (`objectMonitor.cpp:1687`). `notify` stores `TState` (1713) before `_notified` (1715).
  A waiter that an interrupt woke, and that reads both between the two stores (1583,
  1600), goes on as released and not notified: it throws `InterruptedException`
  (1677-1682), and the notification it was chosen for reaches nobody. `notifyAll` has
  the stores the other way round (1841, 1845), and with it in place of `notify` TLC
  finds no violation (40,024 states). Since clients of `AbstractMonitor` see a
  notification as consumed when the waiter is dequeued, `ImplementsMonitor` holds all
  the same.

Read in the code while it was modelled, and not the subject of a run:

* `gcLocker.hpp:52`: `_jni_lock_count` is "only kept up to date when _needs_gc is true";
  a native that a safepoint finds becomes a region while the VM thread synchronizes and
  is counted when it is done, so the count may be behind meanwhile. `CountUpToDate`
  says exactly this much.
* `objectMonitor.cpp:1593`: the waiter's `TState` is called stable, and the thread on a
  queue; it may be in the hands of the notifier, which stores `TState` again when it
  puts the thread on `_cxq`.
* `vmThread.cpp:553`: with `TraceLongCompiles` on, the VM thread reads the name of an
  operation whose caller has been let go. The comment there says so, against "Last
  access" at `:401` and "unsafe" at `:408`. With the constant `TRUE`, `OperationsAlive`
  fails.
* `mutex.cpp:912`: the VM thread takes a set lock byte with `_owner == NULL` for a
  stopped Java thread. On a lock that a thread takes which ignores safepoints, it
  may be that thread. `vmThread.cpp:424` and `:568` avoid sneaking for such locks.
* `mutex.cpp:676`: the VM thread also sneaks past a thread on its way into
  `wait()`, whose lock byte may then be cleared under it, contrary to the
  assertions of `notify`; `vmThread.cpp:310` tells of the notification that may get
  lost that way and takes its lock without sneaking.
* `os_linux.cpp:5732`: the comment in `PlatformEvent::unpark` expects an unpark of a
  blocked thread to leave a permit behind; `park` stores 0, so it does not.
* `os_linux.cpp:5711`: a timed park that expires takes a permit with it that is
  posted between its test and its store.
* `os_linux.cpp:5973`: without the workaround flag `Parker::unpark` would read
  `_cur_index` again after it has released the mutex, when it may be -1.
* `vmThread.cpp:530`: operations added by threads that safepoints do not stop
  prolong a safepoint without regard to the counter of `remove_next`. At `:477`
  operations found in the queue at termination are dropped.

## 4. What is proved

Every theorem is for all values of the constants that its module's assumptions
allow. The assumptions say that the threads, `NULL` and the like are different,
that the tables of calls have the right domains, and what is named below. They
stand in the models, and TLC evaluates them on every run.

| module | theorem | states |
|---|---|---|
| `NativeMonitor_proofs` | `TypeCorrect`, `MonitorExcludes`, `SuccessionExcludes`, `HeirStays` | `TypeOK`, `MutualExclusion`, `InnerLock`, `OnDeckStays` |
| `NativeMonitorWaits_proofs` | `LockNotStranded`, `AssertionsHold`, `OneResidency` | `NoStranding`, `Assertions`, `Residency` |
| `MonitorOwner_proofs` | `OwnerIsExclusive`, `SneakEndsInSafepoint` | `OwnerExclusion`, `SneakScope` |
| `GCLocker_proofs` | `CollectsOutsideRegions`, `CountExactAtSafepoint`, `CountKeptUpToDate` | `NoGCInCritical`, `CriticalCount`, `CountUpToDate` |
| | `SafepointStops`, `ThreadsCountedOnce`, `NeverFatal` | `Stopped`, `CountedOnce`, `NoFatal`, of `Safepoint` alone and composed with the GC locker |
| `VMOperations_proofs` | `OperationsStayAlive`, `OperationsEvaluatedOnce` | `OperationsAlive` if `TraceLongCompiles` is off, `EvaluatedOnce` |
| `TaskQueue_proofs` | `QueueCanonical`, `QueueIsDeque` | `Canonical`, `ImplementsDeque` |
| `ThreadParking_proofs` | `GuaranteesHold`, `ParkEventIsSemaphore` | `Guarantees`, and `Spec => Semaphore!Spec`, the safety half of `ImplementsSemaphore` |
| `ObjectMonitor_proofs` | `MonitorIsOwned`, `MonitorHandedOverClean` | `Ownership` (a conjunct of `Assertions`), `NoRecursionsLeft` |

Each proof has the same shape: an inductive invariant, a lemma that it holds
initially, a lemma for each action or group of actions that it is kept, and a
lemma that it implies the property. What follows says what the invariants add to
the properties, and why they need it.

**Native monitor.** `Locks` is the conjunction of the first four properties. None
of the last three is inductive alone: exclusion needs to know that a thread in the
OnDeck loop that takes the lock byte is `OnDeck` itself when it clears `_OnDeck`,
or it would release an inner lock that some exiting thread holds; and `OnDeckStays`
needs `InnerLock`, since only the holder of the inner lock may overwrite
`_OnDeck`. The proof first reduces each step to its `Effect` on the two locks, a
small case distinction over label, lock byte and `OnDeck`; `EffectLocks` then shows
once that every effect preserves the three properties. The type invariant is split
in three parts so that each leaf looks at the variables of one part.

`MInv` adds three things to `Locks`. `Placed` says where each thread is: no list has
a thread twice, no thread is in two of the six places, and a thread's label says
in which it is (`Flow`), with what the inner lock and `WaitLock` guard (`Guarded`);
`Residency` and `Assertions` follow from it, the first by way of the size of a set
that has one member. `HeirAwake` says that a thread that is OnDeck while the lock is
free is not asleep without somebody on the way to wake it; `DutyTaken` that with
nobody OnDeck and threads queued some exiting thread has yet to look. Both are
stronger than `NoStranding`, which only asks for some thread in `IUnlock`: that is
kept by no step of `IUnlock` on its own, because such a thread may be past its last
look. Most steps move no thread between lists (`QuietStep`) or only their own
(`SelfStep`), and are dealt with together.

**Owner and sneaking.** `Discipline` is an assumption about the `Uses` of a lock: one past
which the VM thread may sneak is used by Java threads besides it only, and the VM
thread does not notify on it. It is what the comments at `mutex.cpp:913` and
`vmThread.cpp:310`, `:424` and `:567` say of the code; without it the theorems do
not hold (section 3 has both cases). The invariant adds the stop of the Java
threads (`Stopping`): a Java thread that has the lock byte and not the ownership
stands still at a transition for as long as the sneak lasts.

**Safepoints.** `SInv` relates what the VM thread has concluded about a thread to
what the thread can do: one that was seen safe (`HeldWhenSafe`) or told to call back
(`HeldWhenCalledBack`) is at a label from which it does not get away before the end,
and `Phase` ties `_state`, the page and the types to the label of the VM thread.
`Stopped` alone is about the synchronized state, and tells nothing of the way there.
The assumption is that the set of Java threads is finite, because they are counted.

**GC locker.** `GInv` is `SInv`, what holds of each thread by itself (`Local`), the
counts, and that a collection is at a safepoint with the count 0. The hard part is the
count: with
`_needs_gc` clear it is not kept up, and is computed by the next safepoint from the
threads that are counted out (`ActiveCount`); with `_needs_gc` set only inner regions
take the fast paths (`Nesting`). `LazyNative` has that a native which the VM thread
made a region stays one until its wrapper has left it. The lemmas about `SInv` are
about single actions of a thread or of the VM thread, and so serve the safepoint
protocol by itself and under the GC locker.

**VM operations.** `VInv` places each blocking operation: it is in one of the two
queues, the batch or the hands of the VM thread, once (`OnePlace`), its caller is
in `execute` with tickets that fit (`Tickets`, `Queued`), and the drain list is the
batch while an operation of the batch is evaluated (`Draining`). The assumption
includes that `NULL` is no operation. The theorem on `OperationsAlive` is for builds
without `TraceLongCompiles`; with it the property fails (section 3).

**Task queue.** `QInv` has, for a thief, that the `_age` it has read is not newer than
the current one, in the order that top and tag give together, and that if it is
still the current one then the task it holds is the one at the top (`ThiefState`);
and, for the owner, which of the sizes 0 and N - 1 it may see at each label
(`OwnerState`). A stale thief fails its CAS because `_age` has moved on in that
order; tags are natural numbers here, and do not come round. The refinement is
shown step by step: each action is `AbstractDeque`'s push or one of its pops, or
leaves the contents and what the workers have got as they are. The assumption on
the ring is that N is a power of two and at least 4.

**Parking.** The inductive invariant has the types; `Parking` (`_Event` is negative
or 1, and not 0, while the thread is inside the park, and `_nParked` counts it
exactly from the first to the last test); `Flow` (the operation determines the
event); `Answers` (`OS_OK` is about to be returned only with a permit to take,
`OS_TIMEOUT` only from a timed park); and `Conditions` (`_cur_index` is -1 outside
the wait). `Guarantees` alone says nothing about the values of `_Event` between the
CAS and the final store, which is where the refinement needs `Answers`: the final
store is `Acquire` or `TimeOut` depending on it.

**Java monitor.** The inductive invariant adds `Flow`: where `exit()` returns to is
outside the monitor, and a thread in the spin loop knows its caller; without it a
won spin or the return from `exit()` could lead anywhere. The assumption is that
the address of a `BasicLock`, which is on a stack, is neither a `Thread*` nor `NULL`.

Only model-checked:

* `Residency`, `NoStranding`, `NeverDeflatedInUse` and the other conjuncts of
  `Assertions` of the Java monitor. Its queues are changed by many more actions than
  those of the native monitor, and an invariant like `MInv` has not been worked out
  for it; `NoStranding` also rests on the timer of `Responsible`.
* The refinements of `AbstractMonitor`. Their safety part for the native monitor is
  `MonitorExcludes` and `OneResidency` in another form, but the steps were not
  matched one by one.
* `InactiveWhenInitiating` and `RequestServed`, which hold without lazy critical
  natives only (`gc_lazy_served`), so that a theorem would need that restriction
  through the whole invariant.
* All liveness properties: fairness and `ENABLED` are out of the prover's reach, as
  is induction over data.

## 5. Not modelled

Of the parts that have a module:

* parking: the free lists of `ParkEvent`s and `Parker`s, suspension in
  `Parker::park`, the other operating systems;
* Java monitors: `try_enter`, `complete_exit` and `reenter`, suspension inside
  `wait()`, JVMTI events, the knobs that are off by default, the stack locks and
  biased locks of objects that are not inflated;
* safepoints: external suspension, thread start and exit, deferred arming;
* the GC locker: the pending list lock, and what a collection does;
* the VM thread: `VM_Exit`, and what the single operations do;
* task queues: the overflow stack, the choice of a victim, the terminator.

Other parts:

* mux locks, the thread list, JNI fast field access, class initialization, the
  compile queues, the states of nmethods and Truffle's assumptions are protocols
  of the same kind, and candidates for modules of their own;
* compilers and collectors as algorithms, parsing and verification of class files,
  tool interfaces, the serviceability agent and build scripts are not: they are
  sequential transformations of large data, or have no protocol to check.

The models cover a small part of the repository's lines: most of it is compilers,
collectors, libraries and tests.
