-------------------------- MODULE ThreadParking_proofs --------------------------
(***************************************************************************)
(* Proofs about ThreadParking, for any set of threads that unpark and      *)
(* interrupt Self.                                                         *)
(***************************************************************************)
EXTENDS ThreadParking, TLAPS

-----------------------------------------------------------------------------
(* The inductive invariant. *)

Waiting == {"event_test", "event_wait", "event_relock"}
InPark == Waiting \cup {"event_lock", "event_clear"}
ParkLabels == InPark \cup {"event_dec"}

Types ==
  /\ pc = [t \in Others \cup {Self} |-> pc[t]]
  /\ ev \in Events
  /\ Event \in [Events -> -1 .. 1]
  /\ nParked \in [Events -> 0 .. 1]
  /\ ret \in {"OS_OK", "OS_TIMEOUT"}

\* _Event is below zero, and then up to one, only while Self is inside the park on it, and
\* _nParked counts Self from the first to the last test of _Event.
Parking ==
  \A e \in Events :
    /\ Event[e] = -1 => ev = e /\ pc[Self] \in InPark
    /\ ev = e /\ pc[Self] \in InPark => Event[e] # 0
    /\ nParked[e] = IF ev = e /\ pc[Self] \in Waiting THEN 1 ELSE 0

\* Which operation Self is in tells which event it parks on.
Flow ==
  /\ op = "park" => ev = "_ParkEvent" /\ pc[Self] \in ParkLabels \cup {"returned"}
  /\ pc[Self] \in ParkLabels /\ op # "park" => ev = "_SleepEvent"
  /\ pc[Self] = "sleep_check" => op # "park" /\ ev = "_SleepEvent"

\* What park(millis) is about to return is the truth.
Answers ==
  /\ pc[Self] \in Waiting /\ expired => timed
  /\ pc[Self] = "event_clear" => \/ ret = "OS_OK" /\ Event[ev] = 1
                                 \/ ret = "OS_TIMEOUT" /\ timed

Conditions == cur_index = -1 \/ pc[Self] \in {"parker_wait", "parker_relock"}

IInv == Types /\ Parking /\ Flow /\ Answers /\ Conditions

\* No step of PlatformEvent::park breaks the invariant.
LEMMA EventStepKeeps ==
  ASSUME IInv,
         \/ call_park \/ park_dec \/ park_lock \/ park_test \/ park_wake \/ park_relock
         \/ park_clear \/ return
  PROVE  IInv'
<1> USE ParkingAssumption
<1> USE DEF IInv, Types, Parking, Flow, Answers, Conditions, Waiting, InPark, ParkLabels, Events, Goto
<1>1. CASE call_park
  BY Zenon, <1>1 DEF call_park, event, parker, own, others
<1>2. CASE park_dec
  BY <1>2 DEF park_dec, AfterPark, event, parker, own, others
<1>3. CASE park_lock
  <2>1. Types'
    <3>1. pc' = [t \in Others \cup {Self} |-> pc'[t]] /\ ev' \in Events /\ ret' \in {"OS_OK", "OS_TIMEOUT"}
      BY Zenon, <1>3 DEF park_lock, event, parker, own, others
    <3>2. Event' \in [Events -> -1 .. 1]
      BY <1>3 DEF park_lock
    <3>3. nParked' \in [Events -> 0 .. 1]
      <4>1. nParked[ev] + 1 = 1
        BY <1>3 DEF park_lock
      <4> HIDE DEF Events
      <4> QED
        BY <1>3, <4>1 DEF park_lock
    <3> QED
      BY <3>1, <3>2, <3>3
  <2>2. Parking'
    BY <1>3 DEF park_lock, event, parker, own, others
  <2>3. Flow' /\ Answers' /\ Conditions'
    BY <1>3 DEF park_lock, event, parker, own, others
  <2> QED
    BY <2>1, <2>2, <2>3
<1>4. CASE park_test
  BY <1>4 DEF park_test, event, parker, own, others
<1>5. CASE park_wake
  BY Zenon, <1>5 DEF park_wake, event, parker, own, others
<1>6. CASE park_relock
  BY Zenon, <1>6 DEF park_relock, event, parker, own, others
<1>7. CASE park_clear
  <2>1. Types'
    <3>1. pc' = [t \in Others \cup {Self} |-> pc'[t]] /\ ev' \in Events /\ ret' \in {"OS_OK", "OS_TIMEOUT"}
      BY Zenon, <1>7 DEF park_clear, AfterPark, event, parker, own, others
    <3>2. Event' \in [Events -> -1 .. 1]
      <4> HIDE DEF Events
      <4> QED
        BY <1>7 DEF park_clear
    <3>3. nParked' \in [Events -> 0 .. 1]
      BY <1>7 DEF park_clear
    <3> QED
      BY <3>1, <3>2, <3>3
  <2>2. Parking'
    BY <1>7 DEF park_clear, AfterPark, event, parker, own, others
  <2>3. Flow' /\ Answers' /\ Conditions'
    BY <1>7 DEF park_clear, AfterPark, event, parker, own, others
  <2> QED
    BY <2>1, <2>2, <2>3
<1>8. CASE return
  BY Zenon, <1>8 DEF return, event, parker, own, others
<1> QED
  BY <1>1, <1>2, <1>3, <1>4, <1>5, <1>6, <1>7, <1>8

\* No step of os::sleep breaks the invariant.
LEMMA SleepStepKeeps ==
  ASSUME IInv,
         \/ sleep \/ sleep_check \/ sleep_intrpt \/ is_interrupted
  PROVE  IInv'
<1> USE ParkingAssumption
<1> USE DEF IInv, Types, Parking, Flow, Answers, Conditions, Waiting, InPark, ParkLabels, Events, Goto
<1>1. CASE sleep
  <2>1. Types'
    <3>1. pc' = [t \in Others \cup {Self} |-> pc'[t]] /\ ev' \in Events /\ ret' \in {"OS_OK", "OS_TIMEOUT"}
      BY Zenon, <1>1 DEF sleep, event, parker, own, others
    <3>2. Event' \in [Events -> -1 .. 1]
      <4>1. Event' = [Event EXCEPT !["_SleepEvent"] = 0] /\ Event \in [Events -> -1 .. 1] /\ 0 \in -1 .. 1
        BY <1>1 DEF sleep
      <4> HIDE DEF Events, IInv, Types
      <4> QED
        BY <4>1, Zenon
    <3>3. nParked' \in [Events -> 0 .. 1]
      BY <1>1 DEF sleep
    <3> QED
      BY <3>1, <3>2, <3>3
  <2>2. Parking'
    BY <1>1 DEF sleep, event, parker, own, others
  <2>3. Flow' /\ Answers' /\ Conditions'
    BY <1>1 DEF sleep, event, parker, own, others
  <2> QED
    BY <2>1, <2>2, <2>3
<1>2. CASE sleep_check
  BY <1>2 DEF sleep_check, event, parker, own, others
<1>3. CASE sleep_intrpt
  BY Zenon, <1>3 DEF sleep_intrpt, event, parker, own, others
<1>4. CASE is_interrupted
  BY <1>4 DEF is_interrupted, event, parker, own, others
<1> QED
  BY <1>1, <1>2, <1>3, <1>4

\* No step of Parker::park breaks the invariant.
LEMMA ParkerStepKeeps ==
  ASSUME IInv,
         \/ Parker_park \/ parker_check \/ parker_recheck \/ parker_try \/ parker_wake
         \/ parker_relock
  PROVE  IInv'
<1> USE ParkingAssumption
<1> USE DEF IInv, Types, Parking, Flow, Answers, Conditions, Waiting, InPark, ParkLabels, Events, Goto
<1>1. CASE Parker_park
  BY <1>1 DEF Parker_park, event, parker, own, others
<1>2. CASE parker_check
  BY <1>2 DEF parker_check, event, parker, own, others
<1>3. CASE parker_recheck
  BY Zenon, <1>3 DEF parker_recheck, event, parker, own, others
<1>4. CASE parker_try
  BY Zenon, <1>4 DEF parker_try, REL_INDEX, ABS_INDEX, event, parker, own, others
<1>5. CASE parker_wake
  BY Zenon, <1>5 DEF parker_wake, event, parker, own, others
<1>6. CASE parker_relock
  BY Zenon, <1>6 DEF parker_relock, event, parker, own, others
<1> QED
  BY <1>1, <1>2, <1>3, <1>4, <1>5, <1>6

\* No step of a thread that unparks or interrupts Self breaks the invariant.
LEMMA OtherStepKeeps ==
  ASSUME IInv, NEW u \in Others,
         \/ unpark(u) \/ interrupt(u) \/ OtherStep(u)
  PROVE  IInv'
<1> USE ParkingAssumption
<1> USE DEF IInv, Types, Parking, Flow, Answers, Conditions, Waiting, InPark, ParkLabels, Events, Goto
<1>1. CASE unpark(u)
  BY Zenon, <1>1 DEF unpark, event, parker, own, others
<1>2. CASE interrupt(u)
  BY Zenon, <1>2 DEF interrupt, event, parker, own, others
<1>3. CASE event_xchg(u)
  <2>1. Types'
    BY <1>3 DEF event_xchg, Unparked, own
  <2>2. pc'[Self] = pc[Self] /\ UNCHANGED <<own, nParked, cur_index>>
    BY Zenon, <1>3 DEF event_xchg, Unparked, parker
  <2>3. \A e \in Events : Event'[e] \in {Event[e], 1}
    BY <1>3 DEF event_xchg
  <2>4. Parking'
    BY <2>2, <2>3 DEF own
  <2>5. Flow' /\ Answers' /\ Conditions'
    BY <2>2, <2>3 DEF own
  <2> QED
    BY <2>1, <2>4, <2>5
<1>4. CASE event_lock(u)
  <2>1. Types'
    BY Zenon, <1>4 DEF event_lock, Unparked, signal_event, event, own
  <2>2. UNCHANGED <<own, event, cur_index>>
    BY <1>4 DEF event_lock, parker
  <2>3. pc'[Self] = pc[Self] \/ (pc[Self] = "event_wait" /\ pc'[Self] = "event_relock")
    BY <1>4 DEF event_lock, Unparked, signal_event
  <2>4. Parking'
    BY <2>2, <2>3 DEF own, event
  <2>5. Flow' /\ Answers' /\ Conditions'
    BY <2>2, <2>3 DEF own, event
  <2> QED
    BY <2>1, <2>4, <2>5
<1>5. CASE parker_lock(u)
  BY Zenon, <1>5 DEF parker_lock, event, parker, own, others
<1>6. CASE parker_unlock(u)
  BY Zenon, <1>6 DEF parker_unlock, Unparked, signal_parker, event, parker, own, others
<1> QED
  BY <1>1, <1>2, <1>3, <1>4, <1>5, <1>6 DEF OtherStep

-----------------------------------------------------------------------------
\* The invariant holds of every behaviour.
LEMMA InvariantHolds == Spec => []IInv
<1>1. Init => IInv
  BY DEF Init, IInv, Types, Parking, Flow, Answers, Conditions, Waiting, InPark, ParkLabels, Events
<1>2. IInv /\ [Next]_vars => IInv'
  <2> SUFFICES ASSUME IInv, [Next]_vars PROVE IInv'
    OBVIOUS
  <2>1. CASE SelfStep \/ SelfBegins \/ Wakes
    BY <2>1, EventStepKeeps, SleepStepKeeps, ParkerStepKeeps DEF SelfStep, SelfBegins, Wakes
  <2>2. ASSUME NEW u \in Others, unpark(u) \/ interrupt(u) \/ OtherStep(u) PROVE IInv'
    BY <2>2, OtherStepKeeps
  <2>3. CASE UNCHANGED vars
    BY <2>3 DEF vars, event, parker, own, IInv, Types, Parking, Flow, Answers, Conditions
  <2> QED
    BY <2>1, <2>2, <2>3 DEF Next
<1> QED
  BY <1>1, <1>2, PTL DEF Spec

\* The guarantees of PlatformEvent::park and unpark and the assert of Parker::park hold,
\* however many threads unpark and interrupt at once.
THEOREM GuaranteesHold == Spec => []Guarantees
<1>1. IInv => Guarantees
  BY DEF IInv, Types, Parking, Conditions, Waiting, InPark, Guarantees, Events
<1> QED
  BY <1>1, InvariantHolds, PTL
-----------------------------------------------------------------------------
(* The refinement, step by step.  _Event of the _ParkEvent is 1 exactly    *)
(* when there is a permit, and the thread is parked from the call of park  *)
(* until park() has stored 0 again.                                        *)

permit == Event["_ParkEvent"] = 1

\* A step that leaves permit and status alone is a stuttering step of the semaphore.
LEMMA Stutters ==
  ASSUME permit' <=> permit, ParkStatus' = ParkStatus
  PROVE  UNCHANGED Semaphore!sem
  BY Zenon DEF permit, Semaphore!sem

\* Every step of PlatformEvent::park is a step of the semaphore: Park when it is called,
\* Acquire when it takes the permit with the CAS or stores 0 after a wakeup, TimeOut when it
\* stores 0 after the time is over, Return when it is done.
LEMMA EventStepRefines ==
  ASSUME IInv, call_park \/ park_dec \/ park_lock \/ park_test \/ park_wake \/ park_relock \/ park_clear \/ return
  PROVE  Semaphore!Next \/ UNCHANGED Semaphore!sem
<1> USE ParkingAssumption
<1> USE DEF IInv, Types, Parking, Flow, Answers, Waiting, InPark, ParkLabels, Events, Goto, ParkStatus, permit, event, own
<1>1. CASE call_park
  <2>1. ParkStatus' \in {"parked", "parked_timed"} /\ ParkStatus = "running" /\ UNCHANGED Event
    BY <1>1 DEF call_park
  <2>2. Semaphore!Park
    BY <2>1 DEF Semaphore!Park
  <2> QED
    BY <2>2 DEF Semaphore!Next
<1>2. CASE park_dec
  <2>1. CASE op = "park" /\ Event[ev] = 1
    <3>1. ParkStatus \in {"parked", "parked_timed"} /\ ParkStatus' = "OS_OK" /\ permit /\ ~permit'
      BY <1>2, <2>1 DEF park_dec, AfterPark
    <3>2. Semaphore!Acquire
      BY <3>1 DEF Semaphore!Acquire
    <3> QED
      BY <3>2 DEF Semaphore!Next
  <2>2. CASE ~(op = "park" /\ Event[ev] = 1)
    <3>1. (permit' <=> permit) /\ ParkStatus' = ParkStatus
      BY <1>2, <2>2 DEF park_dec, AfterPark
    <3> QED
      BY <3>1, Stutters
  <2> QED
    BY <2>1, <2>2
<1>3. CASE park_lock \/ park_test \/ park_wake \/ park_relock
  <2>1. UNCHANGED <<Event, op, timed>>
    BY Zenon, <1>3 DEF park_lock, park_test, park_wake, park_relock
  <2>2. pc[Self] # "returned" /\ pc'[Self] # "returned"
    BY Zenon, <1>3 DEF park_lock, park_test, park_wake, park_relock
  <2>3. (permit' <=> permit) /\ ParkStatus' = ParkStatus
    BY <2>1, <2>2
  <2> QED
    BY <2>3, Stutters
<1>4. CASE park_clear
  <2>1. CASE op = "park" /\ ret = "OS_OK"
    <3>1. ParkStatus \in {"parked", "parked_timed"} /\ ParkStatus' = "OS_OK" /\ permit /\ ~permit'
      BY <1>4, <2>1 DEF park_clear, AfterPark
    <3>2. Semaphore!Acquire
      BY <3>1 DEF Semaphore!Acquire
    <3> QED
      BY <3>2 DEF Semaphore!Next
  <2>2. CASE op = "park" /\ ret = "OS_TIMEOUT"
    <3>1. ParkStatus = "parked_timed" /\ ParkStatus' = "OS_TIMEOUT" /\ ~permit'
      BY <1>4, <2>2 DEF park_clear, AfterPark
    <3>2. Semaphore!TimeOut
      BY <3>1 DEF Semaphore!TimeOut
    <3> QED
      BY <3>2 DEF Semaphore!Next
  <2>3. CASE op # "park"
    <3>1. (permit' <=> permit) /\ ParkStatus' = ParkStatus
      BY <1>4, <2>3 DEF park_clear, AfterPark
    <3> QED
      BY <3>1, Stutters
  <2> QED
    BY <1>4, <2>1, <2>2, <2>3 DEF park_clear
<1>5. CASE return
  <2>1. CASE op = "park"
    <3>1. ParkStatus = ret /\ ParkStatus' = "running" /\ UNCHANGED Event
      BY <1>5, <2>1 DEF return
    <3>2. Semaphore!Return
      BY <1>5, <2>1, <3>1 DEF Semaphore!Return, return
    <3> QED
      BY <3>2 DEF Semaphore!Next
  <2>2. CASE op # "park"
    <3>1. (permit' <=> permit) /\ ParkStatus' = ParkStatus
      BY <1>5, <2>2 DEF return
    <3> QED
      BY <3>1, Stutters
  <2> QED
    BY <2>1, <2>2
<1> QED
  BY <1>1, <1>2, <1>3, <1>4, <1>5

\* os::sleep and Parker::park do not touch the _ParkEvent.
LEMMA SleepStepRefines ==
  ASSUME IInv, \/ sleep \/ sleep_check \/ sleep_intrpt \/ is_interrupted
               \/ Parker_park \/ parker_check \/ parker_recheck \/ parker_try \/ parker_wake \/ parker_relock
  PROVE  UNCHANGED Semaphore!sem
<1> USE DEF IInv, Types, Flow, InPark, Waiting, ParkLabels, Events, Goto, ParkStatus, permit, event, own
<1>1. CASE sleep \/ sleep_check \/ sleep_intrpt \/ is_interrupted
  <2>1. (permit' <=> permit) /\ ParkStatus' = ParkStatus
    BY SMTT(30), <1>1 DEF sleep, sleep_check, sleep_intrpt, is_interrupted
  <2> QED
    BY SMTT(30), <2>1, Stutters
<1>2. CASE Parker_park \/ parker_check \/ parker_recheck \/ parker_try \/ parker_wake \/ parker_relock
  <2>1. (permit' <=> permit) /\ ParkStatus' = ParkStatus
    BY Zenon, <1>2 DEF Parker_park, parker_check, parker_recheck, parker_try, parker_wake, parker_relock
  <2> QED
    BY <2>1, Stutters
<1> QED
  BY <1>1, <1>2

\* The xchg of unpark() posts the permit; nothing else another thread does is visible.
LEMMA OtherStepRefines ==
  ASSUME IInv, NEW u \in Others, unpark(u) \/ interrupt(u) \/ OtherStep(u)
  PROVE  Semaphore!Next \/ UNCHANGED Semaphore!sem
<1> USE ParkingAssumption DEF IInv, Types, Events, ParkStatus, permit, own
<1>1. CASE event_xchg(u)
  <2>1. ParkStatus' = ParkStatus
    BY Zenon, <1>1 DEF event_xchg, Unparked, Goto
  <2>2. CASE Target(u) = "_ParkEvent"
    <3>1. permit'
      BY <1>1, <2>2 DEF event_xchg
    <3>2. Semaphore!Unpark
      BY <2>1, <3>1 DEF Semaphore!Unpark
    <3> QED
      BY <3>2 DEF Semaphore!Next
  <2>3. CASE Target(u) # "_ParkEvent"
    <3>1. permit' <=> permit
      BY <1>1, <2>3 DEF event_xchg
    <3> QED
      BY <2>1, <3>1, Stutters
  <2> QED
    BY <2>2, <2>3
<1>2. CASE unpark(u) \/ interrupt(u) \/ event_lock(u) \/ parker_lock(u) \/ parker_unlock(u)
  <2>1. permit' <=> permit
    BY <1>2 DEF unpark, interrupt, event_lock, parker_lock, parker_unlock, event
  <2>2. UNCHANGED own
    BY SMTT(30), <1>2 DEF unpark, interrupt, event_lock, parker_lock, parker_unlock
  <2>3. pc'[Self] = pc[Self] \/ (pc[Self] # "returned" /\ pc'[Self] # "returned")
    BY Zenon, <1>2 DEF unpark, interrupt, event_lock, parker_lock, parker_unlock, Goto, Unparked, signal_event, signal_parker
  <2>4. ParkStatus' = ParkStatus
    BY <2>2, <2>3
  <2> QED
    BY <2>1, <2>4, Stutters
<1> QED
  BY <1>1, <1>2 DEF OtherStep

\* PlatformEvent implements the binary semaphore: an untimed park returns only with a permit,
\* OS_OK means that one was taken, and no permit is lost but to a timed park that gives up,
\* however the xchg, the CAS, the mutex and the signal of any number of threads interleave.
THEOREM ParkEventIsSemaphore == Spec => Semaphore!Spec
<1>1. Init => Semaphore!Init
  <2> SUFFICES ASSUME Init PROVE Semaphore!Init
    OBVIOUS
  <2>1. ~permit /\ ParkStatus = "running"
    BY DEF Init, permit, ParkStatus, Events
  <2> QED
    BY <2>1 DEF permit, Semaphore!Init
<1>2. IInv /\ [Next]_vars => [Semaphore!Next]_Semaphore!sem
  <2> SUFFICES ASSUME IInv, [Next]_vars PROVE Semaphore!Next \/ UNCHANGED Semaphore!sem
    OBVIOUS
  <2>1. CASE SelfStep \/ SelfBegins \/ Wakes
    BY <2>1, EventStepRefines, SleepStepRefines DEF SelfStep, SelfBegins, Wakes
  <2>2. ASSUME NEW u \in Others, unpark(u) \/ interrupt(u) \/ OtherStep(u)
        PROVE  Semaphore!Next \/ UNCHANGED Semaphore!sem
    BY <2>2, OtherStepRefines
  <2>3. CASE UNCHANGED vars
    <3>1. (permit' <=> permit) /\ ParkStatus' = ParkStatus
      BY <2>3 DEF vars, event, own, permit, ParkStatus
    <3> QED
      BY <3>1, Stutters
  <2> QED
    BY <2>1, <2>2, <2>3 DEF Next
<1> QED
  BY <1>1, <1>2, InvariantHolds, PTL DEF Spec, Semaphore!Spec
=============================================================================
