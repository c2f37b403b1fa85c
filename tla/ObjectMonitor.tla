----------------------------- MODULE ObjectMonitor -----------------------------
(***************************************************************************)
(* The monitor of a Java object once it is inflated                        *)
(* (share/vm/runtime/objectMonitor.cpp): enter, exit, wait, notify and     *)
(* notifyAll, the spinning of TrySpin, and the exit that compiled code     *)
(* emits (cpu/x86/vm/macroAssembler_x86.cpp, fast_unlock), for the default *)
(* values of the knobs (ExitPolicy 0, QMode 0, MoveNotifyee 2).            *)
(*                                                                         *)
(* Every access to a word that another thread may change is a step; what   *)
(* only the owner may change (EntryList, the inside of cxq) is changed in  *)
(* one.  How long a thread spins is left open.  A ParkEvent is the binary  *)
(* semaphore that ThreadParking implements.                                *)
(***************************************************************************)
EXTENDS Integers, Sequences, FiniteSets

CONSTANTS
  Threads, NULL,
  Ops,             \* what each thread does with the monitor while it has it
  Spinners,        \* the threads that TrySpin lets spin
  Suspendable,     \* the threads that may be suspended while they wait to enter
  Interruptible,   \* the threads that may be interrupted
  MaxRecursions    \* bound on nested enters

AllOps == {"enter", "exit", "fast_unlock", "wait", "timed_wait", "notify", "notifyAll"}

\* The address of the BasicLock with which t locked the object before it was inflated.
BasicLock(t) == <<t>>

ASSUME ObjectMonitorAssumption ==
  /\ NULL \notin Threads
  /\ \A t \in Threads : BasicLock(t) \notin Threads \cup {NULL}
  /\ Ops \in [Threads -> SUBSET AllOps]
  /\ Spinners \cup Suspendable \cup Interruptible \subseteq Threads
  /\ MaxRecursions \in Nat

VARIABLES
  pc,
  owner,           \* a thread, the BasicLock on a thread's stack, or NULL
  recursions,
  cxq, EntryList, WaitSet,         \* the queues of ObjectWaiters, by thread
  succ, Responsible,
  count, waiters,                  \* references that keep the monitor from being deflated
  TState, notified,                \* of each thread's ObjectWaiter
  iterator,                        \* local of notify and notifyAll: the waiter that is in transit
  WasNotified,                     \* local of wait(): what it has read of _notified
  event,                           \* of each thread's ParkEvent
  interrupted, interrupting,       \* the flag, and who is in os::interrupt for whom
  stage,                           \* which of the four calls of TrySpin a thread is in
  timed, wakee, save,              \* locals: a timed park; whom to unpark; the recursions
  inWait,                          \* locals: the thread is inside wait(),
  after,                           \* and where its exit() returns to
  left                             \* history: the thread has given up the monitor

notices == <<notified, iterator, WasNotified>>
lists == <<cxq, EntryList, WaitSet, TState, notices>>
hints == <<succ, Responsible>>
counts == <<count, waiters>>
env == <<interrupted, interrupting>>
locals == <<stage, timed, wakee, save, inWait, after, left>>
vars == <<pc, owner, recursions, lists, hints, counts, event, env, locals>>

Init ==
  /\ pc = [t \in Threads |-> "out"]
  /\ owner = NULL
  /\ recursions = 0
  /\ cxq = <<>> /\ EntryList = <<>> /\ WaitSet = <<>>
  /\ succ = NULL /\ Responsible = NULL
  /\ count = 0 /\ waiters = 0
  /\ TState = [t \in Threads |-> "TS_RUN"]
  /\ notified = [t \in Threads |-> FALSE]
  /\ iterator = NULL
  /\ WasNotified = [t \in Threads |-> FALSE]
  /\ event = [t \in Threads |-> 0]
  /\ interrupted = [t \in Threads |-> FALSE]
  /\ interrupting = {}
  /\ stage = [t \in Threads |-> "none"]
  /\ timed = [t \in Threads |-> FALSE]
  /\ wakee = [t \in Threads |-> NULL]
  /\ save = [t \in Threads |-> 0]
  /\ inWait = [t \in Threads |-> FALSE]
  /\ after = [t \in Threads |-> "out"]
  /\ left = [t \in Threads |-> FALSE]

At(t, label) == pc[t] = label
Goto(t, label) == pc' = [pc EXCEPT ![t] = label]

Remove(q, t) == SelectSeq(q, LAMBDA u : u # t)
On(q) == {q[i] : i \in DOMAIN q}

\* TryLock: take a free monitor and go to label won, or go to label lost.
TryLock(t, won, lost) ==
  IF owner = NULL THEN owner' = t /\ Goto(t, won)
                  ELSE UNCHANGED owner /\ Goto(t, lost)

\* TryLock, which TrySpin repeats, and spin if that is worth it; a lost TryLock leaves no
\* trace, so one in a row stands for all.
TrySpin(t, caller, won, lost) ==
  \/ TryLock(t, won, lost) /\ UNCHANGED stage
  \/ /\ t \in Spinners /\ owner # NULL
     /\ stage' = [stage EXCEPT ![t] = caller]
     /\ Goto(t, "spin_admit")
     /\ UNCHANGED owner

\* if (_succ == Self) _succ = NULL : two accesses.  The store, which may hit the name of
\* another heir, is store_succ; label next comes after either.
ClearSucc(t, store, next) == Goto(t, IF succ = t THEN store ELSE next)

-----------------------------------------------------------------------------
(* enter *)

\* enter() returns to its caller, which may be wait().
Entered(t) == IF inWait[t] THEN "wait_end" ELSE "in"

call_enter(t) ==
  /\ At(t, "out")
  /\ Goto(t, "enter")
  /\ UNCHANGED <<owner, recursions, lists, hints, counts, event, env, locals>>

\* A recursive enter, by the owner or by the holder of the BasicLock.
enter_again(t) ==
  /\ At(t, "in") /\ "enter" \in Ops[t]
  /\ recursions < MaxRecursions
  /\ owner' = t
  /\ recursions' = IF owner = t THEN recursions + 1 ELSE 1
  /\ UNCHANGED <<pc, lists, hints, counts, event, env, locals>>

\* The first CAS; contention starts with a spin that leaves no other trace.
enter(t) ==
  /\ At(t, "enter")
  /\ TrySpin(t, "early", Entered(t), "contended")
  /\ UNCHANGED <<recursions, lists, hints, counts, event, env, timed, wakee, save, inWait, after, left>>

\* A monitor that nobody uses is deflated; t locks the object on its stack, and the next
\* thread to come inflates it again, with the BasicLock as the owner.
is_busy == count # 0 \/ waiters # 0 \/ owner # NULL \/ cxq # <<>> \/ EntryList # <<>>

inflate(t) ==
  /\ At(t, "enter") /\ ~is_busy
  /\ \A u \in Threads \ {t} : pc[u] \in {"out", "enter"}
  /\ owner' = BasicLock(t)
  /\ succ' = NULL /\ Responsible' = NULL /\ recursions' = 0
  /\ Goto(t, "in")
  /\ UNCHANGED <<lists, counts, event, env, locals>>

\* _count keeps the monitor inflated from here to the end of enter(); EnterI tries, then
\* spins.
enter_contended(t) ==
  /\ At(t, "contended")
  /\ count' = count + 1
  /\ TrySpin(t, "EnterI", "acquired", "push")
  /\ UNCHANGED <<recursions, lists, hints, waiters, event, env, timed, wakee, save, inWait, after, left>>

\* EnterI enqueues the thread: reset the event and push the node on cxq.  A CAS that loses
\* to another push tries the lock again.
EnterI_push(t) ==
  /\ At(t, "push")
  /\ event' = [event EXCEPT ![t] = 0]
  /\ \/ /\ cxq' = <<t>> \o cxq
        /\ TState' = [TState EXCEPT ![t] = "TS_CXQ"]
        /\ Goto(t, IF cxq = <<>> THEN "resp_check" ELSE "enter_try")
        /\ UNCHANGED owner
     \/ /\ owner = NULL
        /\ owner' = t
        /\ Goto(t, "acquired")
        /\ UNCHANGED <<cxq, TState>>
  /\ UNCHANGED <<recursions, EntryList, WaitSet, notices, hints, counts, env, locals>>

\* The first thread in the queues tries to become responsible for it.
EnterI_resp_check(t) ==
  /\ At(t, "resp_check")
  /\ Goto(t, IF EntryList = <<>> THEN "resp_cas" ELSE "enter_try")
  /\ UNCHANGED <<owner, recursions, lists, hints, counts, event, env, locals>>

EnterI_resp_cas(t) ==
  /\ At(t, "resp_cas")
  /\ Responsible' = IF Responsible = NULL THEN t ELSE Responsible
  /\ Goto(t, "enter_try")
  /\ UNCHANGED <<owner, recursions, lists, succ, counts, event, env, locals>>

\* Faulty form: the responsible thread parks like any other.
EnterI_try_untimed(t) ==
  /\ At(t, "enter_try")
  /\ TryLock(t, "unlink", "enter_parked")
  /\ UNCHANGED <<recursions, lists, hints, counts, event, env, locals>>

\* Try the lock before parking, with a timeout if responsible, and again after every wakeup.
\* Only an owner takes the responsibility away, so one step can test both.
EnterI_try(t) ==
  /\ At(t, "enter_try")
  /\ TryLock(t, "unlink", "enter_parked")
  /\ timed' = [timed EXCEPT ![t] = owner # NULL /\ Responsible = t]
  /\ UNCHANGED <<recursions, lists, hints, counts, event, env, stage, wakee, save, inWait, after, left>>

\* A futile wakeup spins once more.
EnterI_wake(t) ==
  /\ At(t, "enter_wake")
  /\ TrySpin(t, "futile", "unlink", "enter_clear")
  /\ UNCHANGED <<recursions, lists, hints, counts, event, env, timed, wakee, save, inWait, after, left>>

\* Faulty form: the thread parks again without another look at the owner.
clear_succ_parks(t) ==
  /\ \/ At(t, "enter_clear") /\ Goto(t, "enter_parked")
     \/ At(t, "reenter_clear") /\ Goto(t, "reenter_parked")
     \/ At(t, "wait_succ") /\ Goto(t, "wait_sample")
  /\ succ' = IF succ = t THEN NULL ELSE succ
  /\ UNCHANGED <<owner, recursions, lists, Responsible, counts, event, env, locals>>

\* "after clearing _succ a contending thread must retry _owner before parking."  wait() clears
\* _succ too, on its way to enter() or ReenterI.
clear_succ(t) ==
  /\ \/ At(t, "enter_clear") /\ ClearSucc(t, "enter_store", "enter_try")
     \/ At(t, "reenter_clear") /\ ClearSucc(t, "reenter_store", "reenter_try")
     \/ At(t, "wait_succ") /\ ClearSucc(t, "woken_store", "wait_sample")
  /\ UNCHANGED <<owner, recursions, lists, hints, counts, event, env, locals>>

\* UnlinkAfterAcquire, from whichever queue the node is on; then the end of EnterI, or
\* that of ReenterI.
Unlink(t) ==
  /\ cxq' = IF TState[t] = "TS_CXQ" THEN Remove(cxq, t) ELSE cxq
  /\ EntryList' = IF TState[t] = "TS_ENTER" THEN Remove(EntryList, t) ELSE EntryList
  /\ TState' = [TState EXCEPT ![t] = "TS_RUN"]

Unlinked(t) == IF notified[t] THEN "wait_end" ELSE "acquired"

UnlinkAfterAcquire(t) ==
  /\ At(t, "unlink")
  /\ Unlink(t)
  /\ ClearSucc(t, "unlink_store", Unlinked(t))
  /\ UNCHANGED <<owner, recursions, WaitSet, notices, hints, counts, event, env, locals>>

\* EnterI ends by giving up the responsibility, and enter() returns,
enter_end(t) ==
  /\ At(t, "acquired")
  /\ Responsible' = IF Responsible = t THEN NULL ELSE Responsible
  /\ count' = count - 1
  /\ Goto(t, Entered(t))
  /\ UNCHANGED <<owner, recursions, lists, succ, waiters, event, env, locals>>

\* Faulty form: a suspended thread no longer counts.
enter_suspended_uncounted(t) ==
  /\ At(t, "acquired") /\ t \in Suspendable
  /\ Responsible' = IF Responsible = t THEN NULL ELSE Responsible
  /\ recursions' = 0
  /\ succ' = NULL
  /\ count' = count - 1
  /\ after' = [after EXCEPT ![t] = "suspended"]
  /\ Goto(t, "exit")
  /\ UNCHANGED <<owner, lists, waiters, event, env, stage, timed, wakee, save, inWait, left>>

\* unless the thread was suspended meanwhile: then it gives up the monitor too and, once it
\* is resumed, starts EnterI afresh.
enter_suspended(t) ==
  /\ At(t, "acquired") /\ t \in Suspendable
  /\ Responsible' = IF Responsible = t THEN NULL ELSE Responsible
  /\ recursions' = 0
  /\ succ' = NULL
  /\ after' = [after EXCEPT ![t] = "suspended"]
  /\ Goto(t, "exit")
  /\ UNCHANGED <<owner, lists, counts, event, env, stage, timed, wakee, save, inWait, left>>

java_suspend_self(t) ==
  /\ At(t, "suspended")
  /\ after' = [after EXCEPT ![t] = "out"]
  /\ TrySpin(t, "EnterI", "acquired", "push")
  /\ UNCHANGED <<recursions, lists, hints, counts, event, env, timed, wakee, save, inWait, left>>

-----------------------------------------------------------------------------
(* TrySpin_VaryDuration *)

\* Leave the loop for the place where the caller goes on with, or without, the monitor.
SpinEnds(t, won) ==
  /\ Goto(t, CASE stage[t] = "early"    -> IF won THEN Entered(t) ELSE "contended"
               [] stage[t] = "EnterI"   -> IF won THEN "acquired" ELSE "push"
               [] stage[t] = "futile"   -> IF won THEN "unlink" ELSE "enter_clear"
               [] stage[t] = "ReenterI" -> IF won THEN "unlink" ELSE "reenter_parked")
  /\ stage' = [stage EXCEPT ![t] = "none"]
  /\ UNCHANGED <<timed, wakee, save, inWait, after, left>>

\* if (_succ == NULL) _succ = Self : two accesses.
spin_admit(t) ==
  /\ At(t, "spin_admit")
  /\ Goto(t, IF succ = NULL THEN "spin_set" ELSE "spinning")
  /\ UNCHANGED <<owner, recursions, lists, hints, counts, event, env, locals>>

spin_set(t) ==
  /\ At(t, "spin_set")
  /\ succ' = t
  /\ Goto(t, "spinning")
  /\ UNCHANGED <<owner, recursions, lists, Responsible, counts, event, env, locals>>

\* One turn of the loop: the monitor is free and taken, or still held and the turn ends
\* with the same test of _succ.
spin_turn(t) ==
  /\ At(t, "spinning")
  /\ IF owner = NULL
     THEN /\ owner' = t
          /\ IF succ = t THEN Goto(t, "won_store") /\ UNCHANGED locals ELSE SpinEnds(t, TRUE)
     ELSE Goto(t, "spin_admit") /\ UNCHANGED <<owner, locals>>
  /\ UNCHANGED <<recursions, lists, hints, counts, event, env>>

\* A lost CAS, a safepoint, an owner that is not running, or no turns left.
spin_abort(t) ==
  /\ At(t, "spinning")
  /\ IF succ = t THEN Goto(t, "spin_store") /\ UNCHANGED locals ELSE SpinEnds(t, FALSE)
  /\ UNCHANGED <<owner, recursions, lists, hints, counts, event, env>>

spin_retry(t) ==
  /\ At(t, "spin_retry")
  /\ owner' = IF owner = NULL THEN t ELSE owner
  /\ SpinEnds(t, owner = NULL)
  /\ UNCHANGED <<recursions, lists, hints, counts, event, env>>

\* The store of _succ = NULL, wherever the test has led to it.
store_succ(t) ==
  /\ \/ At(t, "enter_store") /\ Goto(t, "enter_try") /\ UNCHANGED locals
     \/ At(t, "reenter_store") /\ Goto(t, "reenter_try") /\ UNCHANGED locals
     \/ At(t, "woken_store") /\ Goto(t, "wait_sample") /\ UNCHANGED locals
     \/ At(t, "unlink_store") /\ Goto(t, Unlinked(t)) /\ UNCHANGED locals
     \/ At(t, "spin_store") /\ Goto(t, "spin_retry") /\ UNCHANGED locals
     \/ At(t, "won_store") /\ SpinEnds(t, TRUE)
  /\ succ' = NULL
  /\ UNCHANGED <<owner, recursions, lists, Responsible, counts, event, env>>

-----------------------------------------------------------------------------
(* ParkEvent::park, in EnterI, in wait and in ReenterI *)

Woken(t) ==
  CASE pc[t] = "enter_parked"   -> "enter_wake"
    [] pc[t] = "wait_parked"    -> "wait_woken"
    [] pc[t] = "reenter_parked" -> "reenter_wake"

Parked(t) == pc[t] \in {"enter_parked", "wait_parked", "reenter_parked"}

park(t) ==
  /\ Parked(t) /\ event[t] = 1
  /\ event' = [event EXCEPT ![t] = 0]
  /\ timed' = [timed EXCEPT ![t] = FALSE]
  /\ Goto(t, Woken(t))
  /\ UNCHANGED <<owner, recursions, lists, hints, counts, env, stage, wakee, save, inWait, after, left>>

\* A timed park that expires takes a permit that comes too late with it.
park_expires(t) ==
  /\ Parked(t) /\ timed[t]
  /\ event' = [event EXCEPT ![t] = 0]
  /\ timed' = [timed EXCEPT ![t] = FALSE]
  /\ Goto(t, Woken(t))
  /\ UNCHANGED <<owner, recursions, lists, hints, counts, env, stage, wakee, save, inWait, after, left>>

-----------------------------------------------------------------------------
(* exit *)

Return(t) ==
  /\ Goto(t, after[t])
  /\ wakee' = [wakee EXCEPT ![t] = NULL]
  /\ left' = [left EXCEPT ![t] = FALSE]
  /\ UNCHANGED <<stage, timed, save, inWait, after>>

\* The holder of a BasicLock becomes the owner first; a nested exit stays inside.  Compiled
\* code comes here too in these cases.
call_exit(t) ==
  /\ At(t, "in")
  /\ "exit" \in Ops[t] \/ ("fast_unlock" \in Ops[t] /\ (owner # t \/ recursions # 0))
  /\ owner' = t
  /\ IF recursions # 0
     THEN recursions' = recursions - 1 /\ UNCHANGED pc
     ELSE Goto(t, "exit") /\ UNCHANGED recursions
  /\ UNCHANGED <<lists, hints, counts, event, env, locals>>

exit(t) ==
  /\ At(t, "exit")
  /\ Responsible' = NULL
  /\ Goto(t, "exit_drop")
  /\ UNCHANGED <<owner, recursions, lists, succ, counts, event, env, locals>>

\* Release the monitor, and look for waiting threads only afterwards: first at the queues,
exit_drop(t) ==
  /\ At(t, "exit_drop")
  /\ owner' = NULL
  /\ left' = [left EXCEPT ![t] = TRUE]
  /\ Goto(t, "exit_EntryList")
  /\ UNCHANGED <<recursions, lists, hints, counts, event, env, stage, timed, wakee, save, inWait, after>>

exit_EntryList(t) ==
  /\ At(t, "exit_EntryList")
  /\ Goto(t, IF EntryList = <<>> THEN "exit_cxq" ELSE "exit_succ")
  /\ UNCHANGED <<owner, recursions, lists, hints, counts, event, env, locals>>

exit_cxq(t) ==
  /\ At(t, "exit_cxq")
  /\ IF cxq = <<>> THEN Return(t) ELSE Goto(t, "exit_succ") /\ UNCHANGED locals
  /\ UNCHANGED <<owner, recursions, lists, hints, counts, event, env>>

\* then for an heir that is already awake.
exit_succ(t) ==
  /\ At(t, "exit_succ")
  /\ IF succ # NULL THEN Return(t) ELSE Goto(t, "exit_retake") /\ UNCHANGED locals
  /\ UNCHANGED <<owner, recursions, lists, hints, counts, event, env>>

\* Faulty form: a store where a CAS is needed.
exit_retake_store(t) ==
  /\ At(t, "exit_retake")
  /\ owner' = t
  /\ Goto(t, "exit_choose")
  /\ UNCHANGED <<recursions, lists, hints, counts, event, env, locals>>

\* Choosing an heir takes the monitor again; who takes it instead inherits the duty.
exit_retake(t) ==
  /\ At(t, "exit_retake")
  /\ IF owner = NULL THEN owner' = t /\ Goto(t, "exit_choose") /\ UNCHANGED locals
                     ELSE Return(t) /\ UNCHANGED owner
  /\ UNCHANGED <<recursions, lists, hints, counts, event, env>>

\* Faulty form: the nodes that move to EntryList keep their TState.
exit_choose_stale(t) ==
  /\ At(t, "exit_choose")
  /\ IF EntryList # <<>>
     THEN Goto(t, "exit_epilog") /\ UNCHANGED lists
     ELSE IF cxq = <<>>
     THEN Goto(t, "exit_drop") /\ UNCHANGED lists
     ELSE /\ EntryList' = cxq
          /\ cxq' = <<>>
          /\ Goto(t, "exit_drained")
          /\ UNCHANGED <<WaitSet, TState, notices>>
  /\ UNCHANGED <<owner, recursions, hints, counts, event, env, locals>>

\* The head of EntryList, after all of cxq has moved there if it was empty.
exit_choose(t) ==
  /\ At(t, "exit_choose")
  /\ IF EntryList # <<>>
     THEN Goto(t, "exit_epilog") /\ UNCHANGED lists
     ELSE IF cxq = <<>>
     THEN Goto(t, "exit_drop") /\ UNCHANGED lists
     ELSE /\ EntryList' = cxq
          /\ cxq' = <<>>
          /\ TState' = [u \in Threads |-> IF u \in On(cxq) THEN "TS_ENTER" ELSE TState[u]]
          /\ Goto(t, "exit_drained")
          /\ UNCHANGED <<WaitSet, notices>>
  /\ UNCHANGED <<owner, recursions, hints, counts, event, env, locals>>

exit_drained(t) ==
  /\ At(t, "exit_drained")
  /\ Goto(t, IF succ # NULL THEN "exit_drop" ELSE "exit_epilog")
  /\ UNCHANGED <<owner, recursions, lists, hints, counts, event, env, locals>>

\* ExitEpilog: name the heir, release, unpark it.
ExitEpilog(t) ==
  /\ At(t, "exit_epilog")
  /\ succ' = Head(EntryList)
  /\ wakee' = [wakee EXCEPT ![t] = Head(EntryList)]
  /\ Goto(t, "epilog_drop")
  /\ UNCHANGED <<owner, recursions, lists, Responsible, counts, event, env, stage, timed, save, inWait, after, left>>

epilog_drop(t) ==
  /\ At(t, "epilog_drop")
  /\ owner' = NULL
  /\ Goto(t, "epilog_unpark")
  /\ UNCHANGED <<recursions, lists, hints, counts, event, env, locals>>

epilog_unpark(t) ==
  /\ At(t, "epilog_unpark")
  /\ event' = [event EXCEPT ![wakee[t]] = 1]
  /\ Return(t)
  /\ UNCHANGED <<owner, recursions, lists, hints, counts, env>>

\* Compiled code: with the queues empty it releases with a plain store and looks no more;
\* with an heir in sight it releases and looks for the heir again.
fast_unlock(t) ==
  /\ At(t, "in") /\ "fast_unlock" \in Ops[t]
  /\ owner = t /\ recursions = 0
  /\ Goto(t, IF EntryList = <<>> /\ cxq = <<>> THEN "fast_drop"
             ELSE IF succ # NULL THEN "fast_succ_drop" ELSE "exit")
  /\ UNCHANGED <<owner, recursions, lists, hints, counts, event, env, locals>>

fast_drop(t) ==
  /\ At(t, "fast_drop")
  /\ owner' = NULL
  /\ Return(t)
  /\ UNCHANGED <<recursions, lists, hints, counts, event, env>>

fast_succ_drop(t) ==
  /\ At(t, "fast_succ_drop")
  /\ owner' = NULL
  /\ left' = [left EXCEPT ![t] = TRUE]
  /\ Goto(t, "fast_recheck")
  /\ UNCHANGED <<recursions, lists, hints, counts, event, env, stage, timed, wakee, save, inWait, after>>

fast_recheck(t) ==
  /\ At(t, "fast_recheck")
  /\ IF succ # NULL THEN Return(t) ELSE Goto(t, "fast_retake") /\ UNCHANGED locals
  /\ UNCHANGED <<owner, recursions, lists, hints, counts, event, env>>

fast_retake(t) ==
  /\ At(t, "fast_retake")
  /\ IF owner = NULL THEN owner' = t /\ Goto(t, "exit") /\ UNCHANGED locals
                     ELSE Return(t) /\ UNCHANGED owner
  /\ UNCHANGED <<recursions, lists, hints, counts, event, env>>

-----------------------------------------------------------------------------
(* wait *)

\* _WaitSetLock is held for more than one step only by notify and notifyAll.
WaitSetLocked ==
  \E t \in Threads : pc[t] \in {"notify_mark", "notify_move", "notifyAll", "notifyAll_state", "notifyAll_move"}

\* CHECK_OWNER makes the holder of a BasicLock the owner; a pending interrupt is thrown.
call_wait(t) ==
  /\ At(t, "in")
  /\ \E op \in Ops[t] \cap {"wait", "timed_wait"} : timed' = [timed EXCEPT ![t] = op = "timed_wait" /\ ~interrupted[t]]
  /\ owner' = t
  /\ interrupted' = [interrupted EXCEPT ![t] = FALSE]
  /\ Goto(t, IF interrupted[t] THEN "in" ELSE "wait_add")
  /\ UNCHANGED <<recursions, lists, hints, counts, event, interrupting, stage, wakee, save, inWait, after, left>>

\* Reset the event, join the wait set, give up all the recursions, and exit().
AddWaiter(t) ==
  /\ At(t, "wait_add") /\ ~WaitSetLocked
  /\ event' = [event EXCEPT ![t] = 0]
  /\ WaitSet' = Append(WaitSet, t)
  /\ TState' = [TState EXCEPT ![t] = "TS_WAIT"]
  /\ Responsible' = NULL
  /\ waiters' = waiters + 1
  /\ save' = [save EXCEPT ![t] = recursions]
  /\ recursions' = 0
  /\ inWait' = [inWait EXCEPT ![t] = TRUE]
  /\ after' = [after EXCEPT ![t] = "wait_check"]
  /\ Goto(t, "exit")
  /\ UNCHANGED <<owner, cxq, EntryList, notices, succ, count, env, stage, timed, wakee, left>>

\* Faulty form: only a notification keeps the thread from parking.
wait_check_notified(t) ==
  /\ At(t, "wait_check")
  /\ after' = [after EXCEPT ![t] = "out"]
  /\ timed' = [timed EXCEPT ![t] = @ /\ ~notified[t]]
  /\ Goto(t, IF notified[t] THEN "wait_woken" ELSE "wait_parked")
  /\ UNCHANGED <<owner, recursions, lists, hints, counts, event, env, stage, wakee, save, inWait, left>>

\* An interrupt, or a notification that came during exit(), leaves nothing to park for.
wait_check(t) ==
  /\ At(t, "wait_check")
  /\ after' = [after EXCEPT ![t] = "out"]
  /\ timed' = [timed EXCEPT ![t] = @ /\ ~interrupted[t] /\ ~notified[t]]
  /\ Goto(t, IF interrupted[t] \/ notified[t] THEN "wait_woken" ELSE "wait_parked")
  /\ UNCHANGED <<owner, recursions, lists, hints, counts, event, env, stage, wakee, save, inWait, left>>

\* Has a notification moved the thread?  The first look is without _WaitSetLock.
wait_woken(t) ==
  /\ At(t, "wait_woken")
  /\ Goto(t, IF TState[t] = "TS_WAIT" THEN "wait_unlink" ELSE "wait_succ")
  /\ UNCHANGED <<owner, recursions, lists, hints, counts, event, env, locals>>

\* The second is with it; a thread that is still on the wait set takes itself off.
DequeueSpecificWaiter(t) ==
  /\ At(t, "wait_unlink") /\ ~WaitSetLocked
  /\ WaitSet' = Remove(WaitSet, t)
  /\ TState' = [TState EXCEPT ![t] = IF @ = "TS_WAIT" THEN "TS_RUN" ELSE @]
  /\ Goto(t, "wait_succ")
  /\ UNCHANGED <<owner, recursions, cxq, EntryList, notices, hints, counts, event, env, locals>>

\* WasNotified = node._notified, again without the lock.  A thread that is on no queue enters
\* anew.
wait_sample(t) ==
  /\ At(t, "wait_sample")
  /\ WasNotified' = [WasNotified EXCEPT ![t] = notified[t]]
  /\ Goto(t, IF TState[t] = "TS_RUN" THEN "enter" ELSE "reenter_try")
  /\ UNCHANGED <<owner, recursions, cxq, EntryList, WaitSet, TState, notified, iterator, hints, counts, event, env, locals>>

\* ReenterI: a notified thread is on the queues already.
ReenterI(t) ==
  /\ At(t, "reenter_try")
  /\ TrySpin(t, "ReenterI", "unlink", "reenter_parked")
  /\ UNCHANGED <<recursions, lists, hints, counts, event, env, timed, wakee, save, inWait, after, left>>

ReenterI_wake(t) ==
  /\ At(t, "reenter_wake")
  /\ TryLock(t, "unlink", "reenter_clear")
  /\ UNCHANGED <<recursions, lists, hints, counts, event, env, locals>>

\* Inside again: an interrupt is thrown only if the thread has not seen a notification.
wait_end(t) ==
  /\ At(t, "wait_end")
  /\ recursions' = save[t]
  /\ waiters' = waiters - 1
  /\ interrupted' = [interrupted EXCEPT ![t] = @ /\ WasNotified[t]]
  /\ notified' = [notified EXCEPT ![t] = FALSE]
  /\ WasNotified' = [WasNotified EXCEPT ![t] = FALSE]
  /\ save' = [save EXCEPT ![t] = 0]
  /\ inWait' = [inWait EXCEPT ![t] = FALSE]
  /\ Goto(t, "in")
  /\ UNCHANGED <<owner, cxq, EntryList, WaitSet, TState, iterator, hints, count, event, interrupting, stage, timed, wakee, after, left>>

-----------------------------------------------------------------------------
(* notify, notifyAll, interrupt *)

call_notify(t) ==
  /\ At(t, "in")
  /\ owner' = t
  /\ \E op \in Ops[t] \cap {"notify", "notifyAll"} : Goto(t, op)
  /\ UNCHANGED <<recursions, lists, hints, counts, event, env, locals>>

\* Under _WaitSetLock.  notify stores TState first and _notified second; the waiter reads them
\* in the same order, without the lock.
DequeueWaiter ==
  /\ iterator' = Head(WaitSet)
  /\ WaitSet' = Tail(WaitSet)

notify(t) ==
  /\ At(t, "notify")
  /\ IF WaitSet = <<>>
     THEN Goto(t, "in") /\ UNCHANGED lists
     ELSE /\ DequeueWaiter
          /\ TState' = [TState EXCEPT ![Head(WaitSet)] = "TS_ENTER"]
          /\ Goto(t, "notify_mark")
          /\ UNCHANGED <<cxq, EntryList, notified, WasNotified>>
  /\ UNCHANGED <<owner, recursions, hints, counts, event, env, locals>>

\* Faulty form: the waiter is moved, but not marked as notified.
notify_mark_lost(t) ==
  /\ At(t, "notify_mark")
  /\ Goto(t, "notify_move")
  /\ UNCHANGED <<owner, recursions, lists, hints, counts, event, env, locals>>

notify_mark(t) ==
  /\ At(t, "notify_mark")
  /\ notified' = [notified EXCEPT ![iterator] = TRUE]
  /\ Goto(t, "notify_move")
  /\ UNCHANGED <<owner, recursions, cxq, EntryList, WaitSet, TState, iterator, WasNotified, hints, counts, event, env, locals>>

\* notifyAll has the stores the other way round, and goes on until the wait set is empty.
notifyAll(t) ==
  /\ At(t, "notifyAll")
  /\ IF WaitSet = <<>>
     THEN Goto(t, "in") /\ UNCHANGED lists
     ELSE /\ DequeueWaiter
          /\ notified' = [notified EXCEPT ![Head(WaitSet)] = TRUE]
          /\ Goto(t, "notifyAll_state")
          /\ UNCHANGED <<cxq, EntryList, TState, WasNotified>>
  /\ UNCHANGED <<owner, recursions, hints, counts, event, env, locals>>

notifyAll_state(t) ==
  /\ At(t, "notifyAll_state")
  /\ TState' = [TState EXCEPT ![iterator] = "TS_ENTER"]
  /\ Goto(t, "notifyAll_move")
  /\ UNCHANGED <<owner, recursions, cxq, EntryList, WaitSet, notices, hints, counts, event, env, locals>>

\* The waiter goes to cxq, or if notify finds EntryList empty, there.
Transfer(t) ==
  LET toEntryList == At(t, "notify_move") /\ EntryList = <<>> IN
  /\ pc[t] \in {"notify_move", "notifyAll_move"}
  /\ TState' = [TState EXCEPT ![iterator] = IF toEntryList THEN @ ELSE "TS_CXQ"]
  /\ EntryList' = IF toEntryList THEN <<iterator>> ELSE EntryList
  /\ cxq' = IF toEntryList THEN cxq ELSE <<iterator>> \o cxq
  /\ iterator' = NULL
  /\ Goto(t, IF At(t, "notify_move") THEN "in" ELSE "notifyAll")
  /\ UNCHANGED <<owner, recursions, WaitSet, notified, WasNotified, hints, counts, event, env, locals>>

\* os::interrupt sets the flag and unparks the thread.
interrupt(t) ==
  /\ t \in Interruptible \ interrupting
  /\ interrupted' = [interrupted EXCEPT ![t] = TRUE]
  /\ interrupting' = interrupting \cup {t}
  /\ UNCHANGED <<pc, owner, recursions, lists, hints, counts, event, locals>>

interrupt_unpark(t) ==
  /\ t \in interrupting
  /\ interrupting' = interrupting \ {t}
  /\ event' = [event EXCEPT ![t] = 1]
  /\ UNCHANGED <<pc, owner, recursions, lists, hints, counts, interrupted, locals>>

-----------------------------------------------------------------------------
Call(t) == call_enter(t) \/ enter_again(t) \/ call_exit(t) \/ fast_unlock(t) \/ call_wait(t) \/ call_notify(t)

EnterStep(t) ==
  \/ enter(t) \/ enter_contended(t) \/ EnterI_push(t) \/ EnterI_resp_check(t) \/ EnterI_resp_cas(t)
  \/ EnterI_try(t) \/ EnterI_wake(t) \/ clear_succ(t)
  \/ UnlinkAfterAcquire(t) \/ enter_end(t) \/ enter_suspended(t) \/ java_suspend_self(t)

SpinStep(t) == spin_admit(t) \/ spin_set(t) \/ spin_turn(t) \/ spin_retry(t) \/ store_succ(t)

ExitStep(t) ==
  \/ exit(t) \/ exit_drop(t) \/ exit_EntryList(t) \/ exit_cxq(t) \/ exit_succ(t) \/ exit_retake(t)
  \/ exit_choose(t) \/ exit_drained(t) \/ ExitEpilog(t) \/ epilog_drop(t) \/ epilog_unpark(t)
  \/ fast_drop(t) \/ fast_succ_drop(t) \/ fast_recheck(t) \/ fast_retake(t)

WaitStep(t) ==
  \/ AddWaiter(t) \/ wait_check(t) \/ wait_woken(t) \/ DequeueSpecificWaiter(t) \/ wait_sample(t)
  \/ ReenterI(t) \/ ReenterI_wake(t) \/ wait_end(t)
  \/ notify(t) \/ notify_mark(t) \/ notifyAll(t) \/ notifyAll_state(t) \/ Transfer(t)

Step(t) == EnterStep(t) \/ SpinStep(t) \/ ExitStep(t) \/ WaitStep(t) \/ park(t)

Next ==
  \E t \in Threads :
    Call(t) \/ inflate(t) \/ Step(t) \/ spin_abort(t) \/ park_expires(t) \/ interrupt(t) \/ interrupt_unpark(t)

Spec == Init /\ [][Next]_vars

\* A thread goes on with what it called; timers expire; the spin counter runs out however
\* often the loop comes round; a thread is not suspended each time it gets the monitor.
\* Nothing makes a thread leave the monitor.
Fairness ==
  \A t \in Threads :
    /\ WF_vars(Step(t)) /\ WF_vars(park_expires(t)) /\ WF_vars(interrupt_unpark(t))
    /\ SF_vars(spin_abort(t)) /\ SF_vars(enter_end(t))

FairSpec == Spec /\ Fairness

-----------------------------------------------------------------------------
\* Where the code takes its thread to be the owner.
Owning(t) ==
  pc[t] \in {"in", "notify", "notify_mark", "notify_move", "notifyAll", "notifyAll_state", "notifyAll_move", "wait_add", "wait_end", "unlink", "unlink_store", "won_store",
             "acquired", "exit", "exit_drop", "exit_choose",
             "exit_drained", "exit_epilog", "epilog_drop", "fast_drop", "fast_succ_drop"}

\* Every thread knows whether it owns the monitor, so at most one is inside and the queues have
\* one writer.
Ownership == \A t \in Threads : Owning(t) <=> owner \in {t, BasicLock(t)}

\* The asserts and guarantees on _owner, _succ, _recursions and TState, among them those of enter (438),
\* EnterI (530), exit (1096), wait (1597, 1657), ReenterI (761).
Assertions ==
  /\ Ownership
  /\ \A t \in Threads :
       /\ pc[t] \in {"acquired", "wait_end", "push"} => succ # t
       /\ pc[t] \in {"acquired", "wait_end"} => recursions = 0
       /\ pc[t] \in {"contended", "push"} => Responsible # t
       /\ pc[t] \in {"reenter_try", "reenter_parked"} => TState[t] \in {"TS_ENTER", "TS_CXQ"}
       /\ pc[t] \in {"wait_succ", "woken_store", "wait_sample"} => TState[t] # "TS_WAIT"
       /\ t \in On(WaitSet) => TState[t] = "TS_WAIT" /\ ~notified[t]
       /\ pc[t] = "exit_epilog" => EntryList # <<>>

Queues == <<cxq, EntryList, WaitSet>>
QueueOf == [TS_RUN |-> 0, TS_CXQ |-> 1, TS_ENTER |-> 2, TS_WAIT |-> 3]

\* "A thread appears on at most one monitor list" (191), once, and TState names it; only a
\* waiter that a notification is moving, which a thread inside is doing, is on none.
Residency ==
  /\ \A q \in 1..3 : Cardinality(On(Queues[q])) = Len(Queues[q])
  /\ \A t \in Threads, q \in 1..3 :
       t \in On(Queues[q]) <=> QueueOf[TState[t]] = q /\ t # iterator
  /\ iterator # NULL => owner \in Threads

\* A safepoint may deflate a monitor that is not busy.  No thread that is blocked at the
\* safepoint comes back to it: _count and _waiters cover the gaps in which it is on no queue.
NeverDeflatedInUse ==
  ~is_busy => \A t \in Threads : ~Parked(t) /\ pc[t] # "suspended"

\* Threads that will look at the owner again, or that are choosing who does: threads on their
\* way to a park, all of which try the lock before they park (in ReenterI only a spinner that
\* finds itself the heir does, or one whose park will return at once), threads whose park is
\* about to end, and threads in exit().
Vigilant(t) ==
  \/ pc[t] \in {"enter", "contended", "push", "resp_check", "resp_cas", "enter_try", "enter_wake",
                "enter_clear", "wait_woken", "wait_unlink", "wait_succ", "wait_sample", "reenter_try", "reenter_wake", "reenter_clear",
                "enter_store", "reenter_store", "woken_store", "spin_store", "spin_retry"}
  \/ stage[t] # "none" /\ (stage[t] # "ReenterI" \/ succ = t \/ event[t] = 1)
  \/ Parked(t) /\ (event[t] = 1 \/ timed[t])
  \/ left[t]
  \/ pc[t] = "wait_check" /\ (notified[t] \/ interrupted[t])

\* "the monitor is unlocked but all the contending threads remain parked" (575) never lasts:
\* with a free monitor and threads on its queues somebody is vigilant.  The exit of compiled
\* code, which looks at the queues before it releases, relies on the timed park of the
\* Responsible thread for this, every other exit on _succ or on the thread it unparks.
NoStranding ==
  (owner = NULL /\ On(cxq) \cup On(EntryList) # {}) => \E t \in Threads : Vigilant(t)

\* What each thread is doing, as the clients of the monitor see it.
Status(t) ==
  IF inWait[t] /\ ~(after[t] = "wait_check" /\ pc[t] # "wait_check" /\ ~left[t])
  THEN IF t \in On(WaitSet) THEN "waiting" ELSE IF notified[t] \/ iterator = t THEN "notified" ELSE "timed_out"
  ELSE IF after[t] = "suspended" THEN "contending"
  ELSE IF pc[t] = "out" \/ left[t] THEN "out"
  ELSE IF pc[t] = "notify" THEN "notifying"
  ELSE IF pc[t] \in {"notifyAll", "notifyAll_state", "notifyAll_move"} THEN "notifying_all"
  ELSE IF pc[t] \in {"in", "notify_mark", "notify_move", "wait_add", "exit", "exit_drop", "fast_drop", "fast_succ_drop"} THEN "in"
  ELSE "contending"

\* An interrupt ends a wait() however it interleaves with the reset of the event, the exit
\* and the tests before the park: nobody sleeps on with the flag set (wait, 1474, 1508, 1548).
InterruptEndsWait ==
  \A t \in Threads : (At(t, "wait_parked") /\ interrupted[t]) ~> ~At(t, "wait_parked")

\* "Monitor notify has precedence over thread interrupt" (wait, 1687): a thread that a
\* notification has released does not throw InterruptedException, which would clear the flag.
NotifyPrecedence ==
  [][\A t \in Threads : At(t, "wait_end") /\ notified[t] /\ interrupted[t] => interrupted'[t]]_vars
=============================================================================
