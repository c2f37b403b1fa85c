----------------------------- MODULE ThreadParking -----------------------------
(***************************************************************************)
(* How a Java thread blocks and is woken on Linux (os/linux/vm/            *)
(* os_linux.cpp): PlatformEvent (the thread's _SleepEvent and _ParkEvent), *)
(* Parker (LockSupport.park), os::sleep, and os::interrupt, which sets the *)
(* flag and unparks all three.                                             *)
(*                                                                         *)
(* Self is the associated thread, the only one that may park; Others       *)
(* unpark and interrupt it.  What a thread does while it holds a pthread   *)
(* mutex is one step with the acquisition, except where another thread     *)
(* reads or writes the same word without the mutex (_Event), or can tell   *)
(* that the mutex is held (the Parker's trylock).  Time is not modelled: a *)
(* timed wait may expire whenever it waits.  WorkAroundNPTLTimedWaitHang   *)
(* has its default, 1: signals are sent with the mutex held.               *)
(***************************************************************************)
EXTENDS Integers, Sequences

CONSTANTS Self, Others, NULL

ASSUME ParkingAssumption ==
  /\ Self \notin Others
  /\ NULL \notin Others \cup {Self}

Events == {"_SleepEvent", "_ParkEvent"}

\* The conditions of a Parker: REL_INDEX and ABS_INDEX, and -1 when none is in use.
REL_INDEX == 0
ABS_INDEX == 1

VARIABLES
  pc,            \* where each thread is
  interrupted,   \* osthread->interrupted() of Self
  \* PlatformEvent, for both events of Self
  Event, nParked, mutex,
  \* Parker of Self
  counter, cur_index, parker_mutex,
  \* locals of Self: the event it parks on, whether the wait is timed or has expired,
  \* what park(millis) will return, and the operation it is in
  ev, timed, expired, ret, op,
  \* locals of each of Others: what is still to be unparked, the old value of _counter,
  \* and who is inside os::interrupt (under Threads_lock)
  targets, s, interrupter

own == <<ev, timed, expired, ret, op>>
event == <<Event, nParked, mutex>>
parker == <<counter, cur_index, parker_mutex>>
others == <<targets, s, interrupter>>
vars == <<pc, interrupted, event, parker, own, others>>

Init ==
  /\ pc = [t \in Others \cup {Self} |-> "idle"]
  /\ interrupted = FALSE
  /\ Event = [e \in Events |-> 0]
  /\ nParked = [e \in Events |-> 0]
  /\ mutex = [e \in Events |-> NULL]
  /\ counter = 0 /\ cur_index = -1 /\ parker_mutex = NULL
  /\ ev = "_ParkEvent" /\ timed = FALSE /\ expired = FALSE /\ ret = "OS_OK" /\ op = "none"
  /\ targets = [u \in Others |-> <<>>]
  /\ s = [u \in Others |-> 0]
  /\ interrupter = NULL

Goto(t, label) == pc' = [pc EXCEPT ![t] = label]

-----------------------------------------------------------------------------
(* PlatformEvent::park() and park(millis), on event ev. *)

\* A caller's park: monitors and Object.wait use _ParkEvent.
call_park ==
  /\ pc[Self] = "idle"
  /\ Goto(Self, "event_dec")
  /\ ev' = "_ParkEvent" /\ op' = "park"
  /\ timed' \in BOOLEAN
  /\ UNCHANGED <<interrupted, event, parker, expired, ret, others>>

\* Where a finished park returns to: os::sleep goes round its loop.
AfterPark == IF op = "park" THEN "returned" ELSE "sleep_check"

\* The CAS loop takes one from _Event; a permit ends the park here.
park_dec ==
  /\ pc[Self] = "event_dec"
  /\ Event' = [Event EXCEPT ![ev] = @ - 1]
  /\ IF Event[ev] = 0 THEN Goto(Self, "event_lock") /\ UNCHANGED ret
                      ELSE Goto(Self, AfterPark) /\ ret' = "OS_OK"
  /\ UNCHANGED <<interrupted, nParked, mutex, parker, ev, timed, expired, op, others>>

park_lock ==
  /\ pc[Self] = "event_lock"
  /\ mutex[ev] = NULL
  /\ mutex' = [mutex EXCEPT ![ev] = Self]
  /\ nParked' = [nParked EXCEPT ![ev] = @ + 1]
  /\ expired' = FALSE
  /\ Goto(Self, "event_test")
  /\ UNCHANGED <<interrupted, Event, parker, ev, timed, ret, op, others>>

\* Faulty form: the thread that leaves is not taken off _nParked.
park_test_counted ==
  /\ pc[Self] = "event_test"
  /\ IF Event[ev] < 0 /\ ~expired
       THEN mutex' = [mutex EXCEPT ![ev] = NULL] /\ Goto(Self, "event_wait") /\ UNCHANGED ret
       ELSE /\ ret' = IF Event[ev] >= 0 THEN "OS_OK" ELSE "OS_TIMEOUT"
            /\ Goto(Self, "event_clear")
            /\ UNCHANGED mutex
  /\ UNCHANGED <<interrupted, Event, nParked, parker, ev, timed, expired, op, others>>

\* while (_Event < 0) cond_wait; an expired timed wait leaves the loop without the test.
park_test ==
  /\ pc[Self] = "event_test"
  /\ IF Event[ev] < 0 /\ ~expired
       THEN mutex' = [mutex EXCEPT ![ev] = NULL] /\ Goto(Self, "event_wait") /\ UNCHANGED <<nParked, ret>>
       ELSE /\ nParked' = [nParked EXCEPT ![ev] = @ - 1]
            /\ ret' = IF Event[ev] >= 0 THEN "OS_OK" ELSE "OS_TIMEOUT"
            /\ Goto(Self, "event_clear")
            /\ UNCHANGED mutex
  /\ UNCHANGED <<interrupted, Event, parker, ev, timed, expired, op, others>>

\* cond_wait may return for no reason, and a timed one because the time is over.
park_wake ==
  /\ pc[Self] = "event_wait"
  /\ expired' \in (IF timed THEN BOOLEAN ELSE {FALSE})
  /\ Goto(Self, "event_relock")
  /\ UNCHANGED <<interrupted, event, parker, ev, timed, ret, op, others>>

park_relock ==
  /\ pc[Self] = "event_relock"
  /\ mutex[ev] = NULL
  /\ mutex' = [mutex EXCEPT ![ev] = Self]
  /\ Goto(Self, "event_test")
  /\ UNCHANGED <<interrupted, Event, nParked, parker, own, others>>

\* Faulty form: _Event is left at 1, as the comment in unpark() describes.
park_clear_keep ==
  /\ pc[Self] = "event_clear"
  /\ mutex' = [mutex EXCEPT ![ev] = NULL]
  /\ Goto(Self, AfterPark)
  /\ UNCHANGED <<interrupted, Event, nParked, parker, own, others>>

park_clear ==
  /\ pc[Self] = "event_clear"
  /\ Event' = [Event EXCEPT ![ev] = 0]
  /\ mutex' = [mutex EXCEPT ![ev] = NULL]
  /\ Goto(Self, AfterPark)
  /\ UNCHANGED <<interrupted, nParked, parker, own, others>>

\* The locals of the call are gone.
return ==
  /\ pc[Self] = "returned"
  /\ Goto(Self, "idle")
  /\ ev' = "_ParkEvent" /\ timed' = FALSE /\ expired' = FALSE /\ ret' = "OS_OK" /\ op' = "none"
  /\ UNCHANGED <<interrupted, event, parker, others>>

-----------------------------------------------------------------------------
(* os::sleep, on _SleepEvent; op tells whether it is interruptible. *)

sleep ==
  /\ pc[Self] = "idle"
  /\ op' \in {"sleep", "sleep_uninterruptibly"}
  /\ ev' = "_SleepEvent" /\ timed' = TRUE
  /\ Event' = [Event EXCEPT !["_SleepEvent"] = 0]   \* slp->reset()
  /\ Goto(Self, "sleep_check")
  /\ UNCHANGED <<interrupted, nParked, mutex, parker, expired, ret, others>>

\* The top of the loop: the interrupt flag first, then whether any time is left.
sleep_check ==
  /\ pc[Self] = "sleep_check"
  /\ IF op = "sleep" /\ interrupted THEN Goto(Self, "sleep_intrpt")
                                    ELSE Goto(Self, "event_dec") \/ Goto(Self, "returned")
  /\ UNCHANGED <<interrupted, event, parker, own, others>>

\* is_interrupted(thread, true) clears the flag and the sleep returns OS_INTRPT.
sleep_intrpt ==
  /\ pc[Self] = "sleep_intrpt"
  /\ interrupted' = FALSE
  /\ Goto(Self, "returned")
  /\ UNCHANGED <<event, parker, own, others>>

\* Thread.interrupted(): the thread clears its own flag.
is_interrupted ==
  /\ pc[Self] = "idle"
  /\ interrupted
  /\ interrupted' = FALSE
  /\ UNCHANGED <<pc, event, parker, own, others>>

-----------------------------------------------------------------------------
(* Parker::park(isAbsolute, time). *)

\* The fast path takes a permit without the mutex.
Parker_park ==
  /\ pc[Self] = "idle"
  /\ counter' = 0
  /\ op' = "Parker"
  /\ IF counter > 0 THEN Goto(Self, "returned") ELSE Goto(Self, "parker_check")
  /\ UNCHANGED <<interrupted, event, cur_index, parker_mutex, ev, timed, expired, ret, others>>

\* An interrupt, or a time that is already over, and the park returns.
parker_check ==
  /\ pc[Self] = "parker_check"
  /\ IF interrupted THEN Goto(Self, "returned") ELSE Goto(Self, "parker_recheck") \/ Goto(Self, "returned")
  /\ UNCHANGED <<interrupted, event, parker, own, others>>

\* Again after the transition to _thread_blocked.
parker_recheck ==
  /\ pc[Self] = "parker_recheck"
  /\ Goto(Self, IF interrupted THEN "returned" ELSE "parker_try")
  /\ UNCHANGED <<interrupted, event, parker, own, others>>

\* Faulty form: the permit is not looked at again with the mutex held.
parker_try_blind ==
  /\ pc[Self] = "parker_try"
  /\ IF parker_mutex # NULL
       THEN Goto(Self, "returned") /\ UNCHANGED cur_index
       ELSE cur_index' = REL_INDEX /\ Goto(Self, "parker_wait")
  /\ UNCHANGED <<interrupted, event, counter, parker_mutex, own, others>>

\* A mutex that is taken means somebody is unparking this thread.  With the mutex the
\* thread takes a permit, or waits, which releases the mutex.
parker_try ==
  /\ pc[Self] = "parker_try"
  /\ \/ /\ parker_mutex # NULL
        /\ Goto(Self, "returned")
        /\ UNCHANGED <<counter, cur_index, timed>>
     \/ /\ parker_mutex = NULL /\ counter > 0
        /\ counter' = 0
        /\ Goto(Self, "returned")
        /\ UNCHANGED <<cur_index, timed>>
     \/ /\ parker_mutex = NULL /\ counter = 0
        /\ cur_index' \in {REL_INDEX, ABS_INDEX}
        /\ timed' \in (IF cur_index' = ABS_INDEX THEN {TRUE} ELSE BOOLEAN)
        /\ Goto(Self, "parker_wait")
        /\ UNCHANGED counter
  /\ UNCHANGED <<interrupted, event, parker_mutex, ev, expired, ret, op, others>>

\* The wait ends for no reason or because the time is over: nobody looks which.
parker_wake ==
  /\ pc[Self] = "parker_wait"
  /\ Goto(Self, "parker_relock")
  /\ UNCHANGED <<interrupted, event, parker, own, others>>

parker_relock ==
  /\ pc[Self] = "parker_relock"
  /\ parker_mutex = NULL
  /\ cur_index' = -1
  /\ counter' = 0
  /\ Goto(Self, "returned")
  /\ UNCHANGED <<interrupted, event, parker_mutex, own, others>>

-----------------------------------------------------------------------------
(* The other threads. *)

Target(u) == Head(targets[u])

\* pthread_cond_signal: where the threads are once Self has been woken, if it waits there.
signal_event(e) ==
  IF pc[Self] = "event_wait" /\ ev = e THEN [pc EXCEPT ![Self] = "event_relock"] ELSE pc

signal_parker(i) ==
  IF pc[Self] = "parker_wait" /\ cur_index = i THEN [pc EXCEPT ![Self] = "parker_relock"] ELSE pc

\* One unpark is done: go on with the next, or return.
Unparked(u, at) ==
  LET more == Len(targets[u]) > 1
  IN  /\ targets' = [targets EXCEPT ![u] = Tail(@)]
      /\ pc' = [at EXCEPT ![u] = IF more THEN "unpark" ELSE "idle"]
      /\ interrupter' = IF interrupter = u /\ ~more THEN NULL ELSE interrupter

\* Unsafe_Unpark, and the unpark of a notify or of a monitor's exit.
unpark(u) ==
  /\ pc[u] = "idle"
  /\ \E target \in {"Parker", "_ParkEvent"} : targets' = [targets EXCEPT ![u] = <<target>>]
  /\ Goto(u, "unpark")
  /\ UNCHANGED <<interrupted, event, parker, own, s, interrupter>>

\* Faulty form: only what LockSupport and the monitors wait on is unparked.
interrupt_nosleep(u) ==
  /\ pc[u] = "idle"
  /\ interrupter = NULL
  /\ interrupter' = u
  /\ interrupted' = TRUE
  /\ targets' = [targets EXCEPT ![u] = <<"Parker", "_ParkEvent">>]
  /\ Goto(u, "unpark")
  /\ UNCHANGED <<event, parker, own, s>>

\* os::interrupt: set the flag, then unpark everything; with the flag set before, all but
\* _SleepEvent.
interrupt(u) ==
  /\ pc[u] = "idle"
  /\ interrupter = NULL
  /\ interrupter' = u
  /\ interrupted' = TRUE
  /\ targets' = [targets EXCEPT ![u] =
                   (IF interrupted THEN <<>> ELSE <<"_SleepEvent">>) \o <<"Parker", "_ParkEvent">>]
  /\ Goto(u, "unpark")
  /\ UNCHANGED <<event, parker, own, s>>

\* PlatformEvent::unpark: only a thread that has taken _Event below zero needs a signal.
event_xchg(u) ==
  /\ pc[u] = "unpark" /\ Target(u) \in Events
  /\ Event' = [Event EXCEPT ![Target(u)] = 1]
  /\ IF Event[Target(u)] >= 0 THEN Unparked(u, pc)
                              ELSE Goto(u, "unpark_event") /\ UNCHANGED <<targets, interrupter>>
  /\ UNCHANGED <<interrupted, nParked, mutex, parker, own, s>>

\* Under the mutex: signal the thread if it is counted in.
event_lock(u) ==
  /\ pc[u] = "unpark_event"
  /\ mutex[Target(u)] = NULL
  /\ Unparked(u, IF nParked[Target(u)] # 0 THEN signal_event(Target(u)) ELSE pc)
  /\ UNCHANGED <<interrupted, event, parker, own, s>>

\* Parker::unpark posts the permit with the mutex held ...
parker_lock(u) ==
  /\ pc[u] = "unpark" /\ Target(u) = "Parker"
  /\ parker_mutex = NULL
  /\ parker_mutex' = u
  /\ s' = [s EXCEPT ![u] = counter]
  /\ counter' = 1
  /\ Goto(u, "unpark_parker")
  /\ UNCHANGED <<interrupted, event, cur_index, own, targets, interrupter>>

\* ... and signals a thread that waits before it releases the mutex.
parker_unlock(u) ==
  /\ pc[u] = "unpark_parker"
  /\ parker_mutex' = NULL
  /\ Unparked(u, IF s[u] < 1 /\ cur_index # -1 THEN signal_parker(cur_index) ELSE pc)
  /\ s' = [s EXCEPT ![u] = 0]
  /\ UNCHANGED <<interrupted, event, counter, cur_index, own>>

-----------------------------------------------------------------------------
\* The steps that Self takes by itself once it has begun to park or to sleep.
SelfStep ==
  \/ park_dec \/ park_lock \/ park_test \/ park_relock \/ park_clear \/ return
  \/ sleep_check \/ sleep_intrpt
  \/ parker_check \/ parker_recheck \/ parker_try \/ parker_relock

SelfBegins == call_park \/ sleep \/ Parker_park \/ is_interrupted

\* A spurious wakeup or the end of the time.
Wakes == park_wake \/ parker_wake

OtherStep(u) == event_xchg(u) \/ event_lock(u) \/ parker_lock(u) \/ parker_unlock(u)

Next ==
  \/ SelfStep \/ SelfBegins \/ Wakes
  \/ \E u \in Others : unpark(u) \/ interrupt(u) \/ OtherStep(u)

Spec == Init /\ [][Next]_vars

\* Every thread that can run does, and a pthread mutex that is released again and again is
\* acquired in the end; nothing makes a wait expire or wake spuriously.
Fairness ==
  /\ WF_vars(SelfStep) /\ SF_vars(parker_relock)
  /\ \A u \in Others : WF_vars(OtherStep(u)) /\ SF_vars(parker_lock(u))

FairSpec == Spec /\ Fairness

-----------------------------------------------------------------------------
\* The guarantees and asserts of the code: park() finds _Event >= 0 and nobody parked when
\* it begins and when it returns (os_linux.cpp:5631, 5636, 5654, 5658, 5665, 5714), only
\* one thread is ever counted in _nParked (5743), and Parker::park finds no condition in
\* use (5921).
Guarantees ==
  /\ \A e \in Events : Event[e] \in -1 .. 1 /\ nParked[e] \in 0 .. 1
  /\ pc[Self] \in {"event_dec", "event_lock", "returned", "sleep_check"} => nParked[ev] = 0
  /\ pc[Self] \in {"event_dec", "returned", "sleep_check"} => Event[ev] >= 0
  /\ pc[Self] = "parker_try" => cur_index = -1

\* The _ParkEvent as its users see it.
ParkStatus ==
  IF op # "park" THEN "running"
  ELSE IF pc[Self] = "returned" THEN ret
  ELSE IF timed THEN "parked_timed" ELSE "parked"

Semaphore == INSTANCE AbstractSemaphore WITH permit <- Event["_ParkEvent"] = 1, status <- ParkStatus

\* PlatformEvent's park() and unpark() are a binary semaphore: an untimed park returns
\* only with a permit, OS_OK is returned exactly when one is taken, no permit is lost but
\* to a timed park that gives up, and a thread parked with a permit posted returns,
\* whatever the xchg, the CAS, the mutex and the late signal do in between.
ImplementsSemaphore == Semaphore!FairSpec

\* LockSupport: a Parker::park that begins, waits or is woken with a permit posted returns,
\* although the permit is tested before the wait and the signal is sent only to a
\* condition seen in use.
PermitWakes == (op = "Parker" /\ counter = 1) ~> (op # "Parker")

\* A thread that is interrupted while it is on its way into, in, or on its way round an
\* interruptible sleep, or in Parker::park, comes out; the flag is tested before the wait
\* and set before the unparks, and the sleep resets its event.
InterruptWakes == (interrupted /\ op \in {"sleep", "Parker"}) ~> (op \notin {"sleep", "Parker"})
=============================================================================
