----------------------------- MODULE NativeMonitor -----------------------------
(***************************************************************************)
(* The blocking core of HotSpot's native Monitor/Mutex                     *)
(* (share/vm/runtime/mutex.cpp): ILock, IUnlock, IWait, notify, notify_all *)
(* and jvm_raw_lock, the functions that "do not access _owner".  Every     *)
(* access to a word that another thread may touch is a step of its own;    *)
(* a CAS loop is one step on the value the successful CAS sees.            *)
(*                                                                         *)
(* A thread and its ParkEvent (Self->_MutexEvent) are one identity, and    *)
(* a list linked by ParkEvent::ListNext is a sequence, head first.         *)
(***************************************************************************)
EXTENDS Naturals, Sequences, FiniteSets, Functions

CONSTANTS
  Threads,    \* the threads that use this monitor
  Calls,      \* Calls[t]: the entry points that thread t uses
  NULL,       \* the null pointer
  LBIT        \* _LBIT stored in _OnDeck: the inner lock is held by an exiting thread

EntryPoints == {"lock", "jvm_raw_lock", "unlock", "notify", "notify_all", "wait", "timed_wait"}

ASSUME ConstantsAssumption ==
  /\ NULL \notin Threads
  /\ LBIT \notin Threads
  /\ LBIT # NULL
  /\ Calls \in [Threads -> SUBSET EntryPoints]

VARIABLES
  LockByte,   \* low byte of _LockWord: the outer lock
  cxq,        \* the rest of _LockWord: recently arrived threads (RATs)
  EntryList,  \* threads detached from cxq, waiting for succession
  OnDeck,     \* the heir presumptive, LBIT, or NULL: the inner lock
  WaitSet,    \* threads in wait() that nobody notified
  WaitLock,   \* holder of the muxAcquire spin lock that guards WaitSet
  Notified,   \* ParkEvent::Notified
  Event,      \* the permit of the thread's ParkEvent
  pc,         \* where the thread is
  call,       \* the entry point it is executing
  w,          \* the local "w" of IUnlock, "nfy" of notify
  List        \* the local "List" of IUnlock after the drain of cxq

vars == <<LockByte, cxq, EntryList, OnDeck, WaitSet, WaitLock, Notified, Event, pc, call, w, List>>

queueVars == <<cxq, EntryList, OnDeck>>
waitVars == <<WaitSet, WaitLock, Notified>>
localVars == <<w, List>>

ILockLabels == {"ILock", "reset", "AcquireOrPush", "await_OnDeck", "await_park", "OnDeck_LOOP", "OnDeck_park", "clear_OnDeck"}
IUnlockLabels == {"IUnlock", "read_OnDeck", "unpark", "read_LockWord", "read_EntryList", "Succession",
                  "select", "pass_OnDeck", "recheck", "drain", "set_EntryList", "Punt", "resample"}
notifyLabels == {"notify", "push_cxq", "set_Notified", "notify_all"}
IWaitLabels == {"IWait", "add_WaitSet", "wait_loop", "wait_park", "wait_done", "remove_WaitSet", "reentry", "reentry_park"}
Labels == {"idle", "cs"} \cup ILockLabels \cup IUnlockLabels \cup notifyLabels \cup IWaitLabels

-----------------------------------------------------------------------------
Init ==
  /\ LockByte = FALSE
  /\ cxq = <<>>
  /\ EntryList = <<>>
  /\ OnDeck = NULL
  /\ WaitSet = <<>>
  /\ WaitLock = NULL
  /\ Notified = [t \in Threads |-> FALSE]
  /\ Event = [t \in Threads |-> 0]
  /\ pc = [t \in Threads |-> "idle"]
  /\ call = [t \in Threads |-> "none"]
  /\ w = [t \in Threads |-> NULL]
  /\ List = [t \in Threads |-> <<>>]

At(t, label) == pc[t] = label

\* A list without its i-th element.
Unlink(s, i) == SubSeq(s, 1, i - 1) \o SubSeq(s, i + 1, Len(s))

\* Control moves to a label; back in the client's code the call is over.
Goto(t, label) ==
  /\ pc' = [pc EXCEPT ![t] = label]
  /\ call' = IF label \in {"idle", "cs"} THEN [call EXCEPT ![t] = "none"] ELSE call

\* The CAS that sets the lock byte, common to TryLock, TryFast and TrySpin.
TryLock(t, label) ==
  /\ ~LockByte
  /\ LockByte' = TRUE
  /\ Goto(t, label)

\* ParkEvent::park: wait for the permit and consume it.
park(t, label) ==
  /\ Event[t] = 1
  /\ Event' = [Event EXCEPT ![t] = 0]
  /\ Goto(t, label)

\* A client calls an entry point.
Call(t, from, name, label) ==
  /\ name \in Calls[t]
  /\ At(t, from)
  /\ call' = [call EXCEPT ![t] = name]
  /\ pc' = [pc EXCEPT ![t] = label]
  /\ UNCHANGED <<LockByte, queueVars, waitVars, Event, localVars>>

CallLock(t) == Call(t, "idle", "lock", "ILock") \/ Call(t, "idle", "jvm_raw_lock", "ILock")

CallUnlock(t) == Call(t, "cs", "unlock", "IUnlock")

\* notify() and the loop test of notify_all() return at once on an empty WaitSet.
CallNotify(t) ==
  /\ WaitSet # <<>>
  /\ Call(t, "cs", "notify", "notify") \/ Call(t, "cs", "notify_all", "notify")

CallWait(t) == Call(t, "cs", "wait", "IWait") \/ Call(t, "cs", "timed_wait", "IWait")

-----------------------------------------------------------------------------
(* ILock, and the slow path of jvm_raw_lock. *)

\* TryFast and TrySpin: take a free lock, or give up having seen it held.
ILock(t) ==
  /\ At(t, "ILock")
  /\ \/ TryLock(t, "cs")
     \/ LockByte /\ Goto(t, "reset") /\ UNCHANGED LockByte
  /\ UNCHANGED <<queueVars, waitVars, Event, localVars>>

reset(t) ==
  /\ At(t, "reset")
  /\ Event' = [Event EXCEPT ![t] = 0]
  /\ Goto(t, "AcquireOrPush")
  /\ UNCHANGED <<LockByte, queueVars, waitVars, localVars>>

\* A raw lock re-tests OnDeck on each turn, as the end of IWait does.
AcquireOrPush(t) ==
  /\ At(t, "AcquireOrPush")
  /\ \/ TryLock(t, "cs") /\ UNCHANGED cxq
     \/ /\ LockByte
        /\ cxq' = <<t>> \o cxq
        /\ Goto(t, IF call[t] = "jvm_raw_lock" THEN "reentry" ELSE "await_OnDeck")
        /\ UNCHANGED LockByte
  /\ UNCHANGED <<EntryList, OnDeck, waitVars, Event, localVars>>

await_OnDeck(t) ==
  /\ At(t, "await_OnDeck")
  /\ Goto(t, IF OnDeck = t THEN "OnDeck_LOOP" ELSE "await_park")
  /\ UNCHANGED <<LockByte, queueVars, waitVars, Event, localVars>>

OnDeck_LOOP(t) ==
  /\ At(t, "OnDeck_LOOP")
  /\ \/ TryLock(t, "clear_OnDeck")
     \/ LockByte /\ Goto(t, "OnDeck_park") /\ UNCHANGED LockByte
  /\ UNCHANGED <<queueVars, waitVars, Event, localVars>>

ParkCommon(t) ==
  /\ \/ At(t, "await_park") /\ park(t, "await_OnDeck")
     \/ At(t, "OnDeck_park") /\ park(t, "OnDeck_LOOP")
     \/ At(t, "reentry_park") /\ park(t, "reentry")
     \/ At(t, "wait_park") /\ park(t, "wait_loop")
  /\ UNCHANGED <<LockByte, queueVars, waitVars, localVars>>

clear_OnDeck(t) ==
  /\ At(t, "clear_OnDeck")
  /\ OnDeck' = NULL
  /\ Goto(t, "cs")
  /\ UNCHANGED <<LockByte, cxq, EntryList, waitVars, Event, localVars>>

-----------------------------------------------------------------------------
(* IUnlock: release the outer lock, then see to succession. *)

\* IUnlock returns to its caller: unlock() is over, IWait goes on to wait.
ReturnIUnlock(t) == Goto(t, IF call[t] = "unlock" THEN "idle" ELSE "wait_loop")

\* release_store of the lock byte.
IUnlock(t) ==
  /\ At(t, "IUnlock")
  /\ LockByte' = FALSE
  /\ Goto(t, "read_OnDeck")
  /\ UNCHANGED <<queueVars, waitVars, Event, localVars>>

\* Mutant of read_OnDeck: the LBIT mask is forgotten.
read_OnDeck_unmasked(t) ==
  /\ At(t, "read_OnDeck")
  /\ \/ OnDeck = NULL /\ Goto(t, "read_LockWord") /\ UNCHANGED w
     \/ OnDeck # NULL /\ w' = [w EXCEPT ![t] = OnDeck] /\ Goto(t, "unpark")
  /\ UNCHANGED <<LockByte, queueVars, waitVars, Event, List>>

\* Whoever is OnDeck is the successor; LBIT leaves the succession to another thread.
read_OnDeck(t) ==
  /\ At(t, "read_OnDeck")
  /\ \/ OnDeck = NULL /\ Goto(t, "read_LockWord") /\ UNCHANGED w
     \/ OnDeck = LBIT /\ ReturnIUnlock(t) /\ UNCHANGED w
     \/ OnDeck \in Threads /\ w' = [w EXCEPT ![t] = OnDeck] /\ Goto(t, "unpark")
  /\ UNCHANGED <<LockByte, queueVars, waitVars, Event, List>>

\* w may be stale by now: the permit is then left for a later park of w.
unpark(t) ==
  /\ At(t, "unpark")
  /\ Event' = [Event EXCEPT ![w[t]] = 1]
  /\ w' = [w EXCEPT ![t] = NULL]
  /\ ReturnIUnlock(t)
  /\ UNCHANGED <<LockByte, queueVars, waitVars, List>>

\* A locked word ends the exit whatever EntryList is: the new owner succeeds to the duty.
read_LockWord(t) ==
  /\ At(t, "read_LockWord")
  /\ IF LockByte THEN ReturnIUnlock(t)
     ELSE Goto(t, IF cxq = <<>> THEN "read_EntryList" ELSE "Succession")
  /\ UNCHANGED <<LockByte, queueVars, waitVars, Event, localVars>>

read_EntryList(t) ==
  /\ At(t, "read_EntryList")
  /\ IF EntryList = <<>> THEN ReturnIUnlock(t) ELSE Goto(t, "Succession")
  /\ UNCHANGED <<LockByte, queueVars, waitVars, Event, localVars>>

\* Mutant of Succession: a store where the code has a CAS.
Succession_store(t) ==
  /\ At(t, "Succession")
  /\ OnDeck' = LBIT
  /\ Goto(t, "select")
  /\ UNCHANGED <<LockByte, cxq, EntryList, waitVars, Event, localVars>>

\* CAS of OnDeck from NULL to LBIT: take the inner lock or leave.
Succession(t) ==
  /\ At(t, "Succession")
  /\ \/ OnDeck = NULL /\ OnDeck' = LBIT /\ Goto(t, "select")
     \/ OnDeck # NULL /\ ReturnIUnlock(t) /\ UNCHANGED OnDeck
  /\ UNCHANGED <<LockByte, cxq, EntryList, waitVars, Event, localVars>>

\* WakeOne: unlink the head of EntryList, which only the inner lock's holder changes.
select(t) ==
  /\ At(t, "select")
  /\ \/ EntryList = <<>> /\ Goto(t, "drain") /\ UNCHANGED <<EntryList, w>>
     \/ /\ EntryList # <<>>
        /\ w' = [w EXCEPT ![t] = Head(EntryList)]
        /\ EntryList' = Tail(EntryList)
        /\ Goto(t, "pass_OnDeck")
  /\ UNCHANGED <<LockByte, cxq, OnDeck, waitVars, Event, List>>

pass_OnDeck(t) ==
  /\ At(t, "pass_OnDeck")
  /\ OnDeck' = w[t]
  /\ Goto(t, "recheck")
  /\ UNCHANGED <<LockByte, cxq, EntryList, waitVars, Event, localVars>>

\* Mutant of recheck: the successor is never unparked.
recheck_nounpark(t) ==
  /\ At(t, "recheck")
  /\ ReturnIUnlock(t)
  /\ w' = [w EXCEPT ![t] = NULL]
  /\ UNCHANGED <<LockByte, queueVars, waitVars, Event, List>>

\* If the lock is held again its owner will unpark the OnDeck thread.
recheck(t) ==
  /\ At(t, "recheck")
  /\ \/ LockByte /\ ReturnIUnlock(t) /\ w' = [w EXCEPT ![t] = NULL]
     \/ ~LockByte /\ Goto(t, "unpark") /\ UNCHANGED w
  /\ UNCHANGED <<LockByte, queueVars, waitVars, Event, List>>

\* Detach all of cxq, unless it is empty or the lock is held again.
drain(t) ==
  /\ At(t, "drain")
  /\ \/ /\ cxq = <<>> \/ LockByte
        /\ Goto(t, "Punt")
        /\ UNCHANGED <<cxq, List>>
     \/ /\ cxq # <<>> /\ ~LockByte
        /\ List' = [List EXCEPT ![t] = cxq]
        /\ cxq' = <<>>
        /\ Goto(t, "set_EntryList")
  /\ UNCHANGED <<LockByte, EntryList, OnDeck, waitVars, Event, w>>

set_EntryList(t) ==
  /\ At(t, "set_EntryList")
  /\ EntryList' = List[t]
  /\ List' = [List EXCEPT ![t] = <<>>]
  /\ Goto(t, "select")
  /\ UNCHANGED <<LockByte, cxq, OnDeck, waitVars, Event, w>>

Punt(t) ==
  /\ At(t, "Punt")
  /\ OnDeck' = NULL
  /\ Goto(t, "resample")
  /\ UNCHANGED <<LockByte, cxq, EntryList, waitVars, Event, localVars>>

\* A thread may have been pushed while this one held the inner lock.
resample(t) ==
  /\ At(t, "resample")
  /\ IF cxq # <<>> /\ ~LockByte THEN Goto(t, "Succession") ELSE ReturnIUnlock(t)
  /\ UNCHANGED <<LockByte, queueVars, waitVars, Event, localVars>>

-----------------------------------------------------------------------------
(* notify and notify_all, called by the owner. *)

\* notify() returns to its client, or to the loop of notify_all().
ReturnNotify(t) == Goto(t, IF call[t] = "notify_all" THEN "notify_all" ELSE "cs")

\* Mutant of notify: the waiter is queued on cxq and stays on WaitSet.
notify_linked(t) ==
  /\ At(t, "notify")
  /\ WaitLock = NULL
  /\ WaitSet # <<>>
  /\ WaitLock' = t
  /\ w' = [w EXCEPT ![t] = Head(WaitSet)]
  /\ Goto(t, "push_cxq")
  /\ UNCHANGED <<LockByte, queueVars, WaitSet, Notified, Event, List>>

\* Under WaitLock: unlink the head of WaitSet, which a timeout may have emptied.
notify(t) ==
  /\ At(t, "notify")
  /\ WaitLock = NULL
  /\ \/ WaitSet = <<>> /\ ReturnNotify(t) /\ UNCHANGED <<WaitSet, WaitLock, w>>
     \/ /\ WaitSet # <<>>
        /\ WaitLock' = t
        /\ w' = [w EXCEPT ![t] = Head(WaitSet)]
        /\ WaitSet' = Tail(WaitSet)
        /\ Goto(t, "push_cxq")
  /\ UNCHANGED <<LockByte, queueVars, Notified, Event, List>>

\* The CAS writes the lock bit along with the new head.
push_cxq(t) ==
  /\ At(t, "push_cxq")
  /\ cxq' = <<w[t]>> \o cxq
  /\ LockByte' = TRUE
  /\ Goto(t, "set_Notified")
  /\ UNCHANGED <<EntryList, OnDeck, waitVars, Event, localVars>>

\* Mutant of set_Notified: the waiter is moved but not told.
set_Notified_lost(t) ==
  /\ At(t, "set_Notified")
  /\ WaitLock' = NULL
  /\ w' = [w EXCEPT ![t] = NULL]
  /\ ReturnNotify(t)
  /\ UNCHANGED <<LockByte, queueVars, WaitSet, Notified, Event, List>>

\* Notified is set after the push; then WaitLock is released.
set_Notified(t) ==
  /\ At(t, "set_Notified")
  /\ Notified' = [Notified EXCEPT ![w[t]] = TRUE]
  /\ WaitLock' = NULL
  /\ w' = [w EXCEPT ![t] = NULL]
  /\ ReturnNotify(t)
  /\ UNCHANGED <<LockByte, queueVars, WaitSet, Event, List>>

\* The loop test of notify_all.
notify_all(t) ==
  /\ At(t, "notify_all")
  /\ Goto(t, IF WaitSet # <<>> THEN "notify" ELSE "cs")
  /\ UNCHANGED <<LockByte, queueVars, waitVars, Event, localVars>>

-----------------------------------------------------------------------------
(* IWait. *)

\* Mutant of IWait: the Notified of an earlier wait is left standing.
IWait_noreset(t) ==
  /\ At(t, "IWait")
  /\ Event' = [Event EXCEPT ![t] = 0]
  /\ Goto(t, "add_WaitSet")
  /\ UNCHANGED <<LockByte, queueVars, waitVars, localVars>>

IWait(t) ==
  /\ At(t, "IWait")
  /\ Notified' = [Notified EXCEPT ![t] = FALSE]
  /\ Event' = [Event EXCEPT ![t] = 0]
  /\ Goto(t, "add_WaitSet")
  /\ UNCHANGED <<LockByte, queueVars, WaitSet, WaitLock, localVars>>

\* One muxAcquire/muxRelease section; then IUnlock(true).
add_WaitSet(t) ==
  /\ At(t, "add_WaitSet")
  /\ WaitLock = NULL
  /\ WaitSet' = <<t>> \o WaitSet
  /\ Goto(t, "IUnlock")
  /\ UNCHANGED <<LockByte, queueVars, WaitLock, Notified, Event, localVars>>

wait_loop(t) ==
  /\ At(t, "wait_loop")
  /\ Goto(t, IF Notified[t] THEN "reentry" ELSE "wait_park")
  /\ UNCHANGED <<LockByte, queueVars, waitVars, Event, localVars>>

\* A timed park returns OS_TIMEOUT, clearing the event on its way out.
Timeout(t) ==
  /\ At(t, "wait_park")
  /\ call[t] = "timed_wait"
  /\ Event' = [Event EXCEPT ![t] = 0]
  /\ Goto(t, "wait_done")
  /\ UNCHANGED <<LockByte, queueVars, waitVars, localVars>>

wait_done(t) ==
  /\ At(t, "wait_done")
  /\ Goto(t, IF Notified[t] THEN "reentry" ELSE "remove_WaitSet")
  /\ UNCHANGED <<LockByte, queueVars, waitVars, Event, localVars>>

\* Mutants of remove_WaitSet: no re-test under WaitLock; no re-acquisition of the lock.
remove_WaitSet_nodcl(t) ==
  /\ At(t, "remove_WaitSet")
  /\ WaitLock = NULL
  /\ WaitSet' = SelectSeq(WaitSet, LAMBDA u : u # t)
  /\ Goto(t, "ILock")
  /\ UNCHANGED <<LockByte, queueVars, WaitLock, Notified, Event, localVars>>

remove_WaitSet_nolock(t) ==
  /\ At(t, "remove_WaitSet")
  /\ WaitLock = NULL
  /\ WaitSet' = SelectSeq(WaitSet, LAMBDA u : u # t)
  /\ Goto(t, IF Notified[t] THEN "reentry" ELSE "cs")
  /\ UNCHANGED <<LockByte, queueVars, WaitLock, Notified, Event, localVars>>

\* The DCL re-test under WaitLock: unlink, unless a notify got there first.
remove_WaitSet(t) ==
  /\ At(t, "remove_WaitSet")
  /\ WaitLock = NULL
  /\ \/ Notified[t] /\ Goto(t, "reentry") /\ UNCHANGED WaitSet
     \/ /\ ~Notified[t]
        /\ \E i \in DOMAIN WaitSet : WaitSet[i] = t /\ WaitSet' = Unlink(WaitSet, i)
        /\ Goto(t, "ILock")
  /\ UNCHANGED <<LockByte, queueVars, WaitLock, Notified, Event, localVars>>

\* A notified thread is already queued; it only has to become OnDeck.
reentry(t) ==
  /\ At(t, "reentry")
  /\ \/ OnDeck = t /\ TryLock(t, "clear_OnDeck")
     \/ /\ OnDeck # t \/ LockByte
        /\ Goto(t, "reentry_park")
        /\ UNCHANGED LockByte
  /\ UNCHANGED <<queueVars, waitVars, Event, localVars>>

-----------------------------------------------------------------------------
Client(t) == CallLock(t) \/ CallUnlock(t) \/ CallNotify(t) \/ CallWait(t)

LockStep(t) ==
  ILock(t) \/ reset(t) \/ AcquireOrPush(t) \/ await_OnDeck(t) \/ OnDeck_LOOP(t) \/ ParkCommon(t) \/ clear_OnDeck(t)

UnlockStep(t) ==
  \/ IUnlock(t) \/ read_OnDeck(t) \/ unpark(t) \/ read_LockWord(t) \/ read_EntryList(t) \/ Succession(t) \/ select(t)
  \/ pass_OnDeck(t) \/ recheck(t) \/ drain(t) \/ set_EntryList(t) \/ Punt(t) \/ resample(t)

NotifyStep(t) == notify(t) \/ push_cxq(t) \/ set_Notified(t) \/ notify_all(t)

WaitStep(t) ==
  IWait(t) \/ add_WaitSet(t) \/ wait_loop(t) \/ Timeout(t) \/ wait_done(t) \/ remove_WaitSet(t) \/ reentry(t)

Step(t) == LockStep(t) \/ UnlockStep(t) \/ NotifyStep(t) \/ WaitStep(t)

Next == \E t \in Threads : Client(t) \/ Step(t)

\* Threads keep running inside the monitor's code, and critical sections are finite.
Fairness == \A t \in Threads : WF_vars(Step(t)) /\ SF_vars(CallUnlock(t))

Spec == Init /\ [][Next]_vars

FairSpec == Spec /\ Fairness
-----------------------------------------------------------------------------
(* Properties. *)

TypeOK ==
  /\ LockByte \in BOOLEAN
  /\ cxq \in Seq(Threads)
  /\ EntryList \in Seq(Threads)
  /\ OnDeck \in Threads \cup {NULL, LBIT}
  /\ WaitSet \in Seq(Threads)
  /\ WaitLock \in Threads \cup {NULL}
  /\ Notified \in [Threads -> BOOLEAN]
  /\ Event \in [Threads -> {0, 1}]
  /\ pc \in [Threads -> Labels]
  /\ call \in [Threads -> EntryPoints \cup {"none"}]
  /\ w \in [Threads -> Threads \cup {NULL}]
  /\ List \in [Threads -> Seq(Threads)]
  /\ \A t \in Threads : pc[t] \in {"unpark", "pass_OnDeck", "recheck", "push_cxq", "set_Notified"} => w[t] \in Threads

\* Between the CAS that set the lock byte and the store that clears it.
Holds(t) == pc[t] \in {"cs", "clear_OnDeck", "IUnlock", "IWait", "add_WaitSet"} \cup notifyLabels

\* Between the CAS of _OnDeck to _LBIT and the store that passes or drops the inner lock.
HoldsInner(t) == pc[t] \in {"select", "pass_OnDeck", "drain", "set_EntryList", "Punt"}

\* The outer lock: the lock byte is set exactly while one thread is between its
\* acquisition (TryLock, TryFast, TrySpin, AcquireOrPush) and its release in IUnlock.
MutualExclusion ==
  /\ LockByte <=> \E t \in Threads : Holds(t)
  /\ \A t, u \in Threads : Holds(t) /\ Holds(u) => t = u

\* The inner lock (comments at Succession): _OnDeck is _LBIT exactly while one exiting
\* thread manipulates EntryList and detaches cxq.
InnerLock ==
  /\ OnDeck = LBIT <=> \E t \in Threads : HoldsInner(t)
  /\ \A t, u \in Threads : HoldsInner(t) /\ HoldsInner(u) => t = u

\* Once OnDeck, a thread stays OnDeck until it acquires the lock: the assertions of the
\* OnDeck_LOOP of ILock and at the stores that clear _OnDeck.
OnDeckStays == \A t \in Threads : pc[t] \in {"OnDeck_LOOP", "OnDeck_park", "clear_OnDeck"} => OnDeck = t

\* The places where a thread's ParkEvent is: a list and a position, OnDeck, or a thread's hands.
Positions(list, s, t) == {<<list, i>> : i \in {j \in DOMAIN s : s[j] = t}}

Places(t) ==
  UNION {Positions("cxq", cxq, t), Positions("EntryList", EntryList, t), Positions("WaitSet", WaitSet, t),
         UNION {Positions(u, List[u], t) : u \in Threads},
         {<<"OnDeck", u>> : u \in {t} \cap {OnDeck}},
         {<<"w", u>> : u \in {v \in Threads : pc[v] \in {"pass_OnDeck", "push_cxq"} /\ w[v] = t}}}

\* The thread has put itself on a list and has not been taken off for good.
Waiting(t) ==
  \/ pc[t] \in {"await_OnDeck", "await_park", "OnDeck_LOOP", "OnDeck_park", "clear_OnDeck", "wait_loop", "wait_park",
               "wait_done", "remove_WaitSet", "reentry", "reentry_park"}
  \/ pc[t] \in IUnlockLabels /\ call[t] # "unlock"

\* A waiting thread's ParkEvent is on exactly one of cxq, EntryList, WaitSet, a detached
\* segment, the hands of a notifier or waker, or OnDeck; any other thread's is nowhere.
\* (ParkEvent::ListNext serves all lists; "it can't be on two lists at once".)
Residency == \A t \in Threads : Cardinality(Places(t)) = IF Waiting(t) THEN 1 ELSE 0

\* The assertions of mutex.cpp about OnDeck, EntryList and Notified, at the lines they stand.
Assertions ==
  \A t \in Threads :
    /\ pc[t] = "ILock" => OnDeck # t
    /\ pc[t] = "read_OnDeck" /\ call[t] = "unlock" => OnDeck # t
    /\ pc[t] = "select" /\ call[t] = "unlock" /\ EntryList # <<>> => Head(EntryList) # t
    /\ pc[t] = "set_EntryList" => EntryList = <<>> /\ List[t] # <<>>
    /\ pc[t] = "push_cxq" => ~Notified[w[t]] /\ LockByte
    /\ pc[t] = "remove_WaitSet" /\ WaitLock = NULL /\ ~Notified[t] => OnDeck # t /\ t \in Range(WaitSet)
    /\ pc[t] \in {"reentry", "reentry_park"} /\ OnDeck = t => t \notin Range(cxq \o EntryList)

\* Threads that wait for the outer lock (not for a notification).
Contenders == {t \in Threads : OnDeck = t \/ t \in Range(cxq \o EntryList) \/ \E u \in Threads : t \in Range(List[u])}

Parked(t) == pc[t] \in {"await_park", "OnDeck_park", "reentry_park", "wait_park"} /\ Event[t] = 0

\* Succession: a free lock with contenders is never left to nobody.  Some exiting thread is
\* still inside IUnlock with the duty, or the OnDeck thread is awake or about to be unparked.
NoStranding ==
  ~LockByte /\ Contenders # {} =>
    \/ \E t \in Threads : pc[t] \in IUnlockLabels \ {"unpark"}
    \/ OnDeck \in Threads /\ (~Parked(OnDeck) \/ \E t \in Threads : pc[t] = "unpark" /\ w[t] = OnDeck)

\* The abstract state of a thread.  wait() takes effect when it clears the lock byte, a
\* notification when it unlinks the waiter, a timeout when it removes itself.
InWait(t) == call[t] \in {"wait", "timed_wait"}

abstractState(t) ==
  CASE pc[t] = "idle" -> "out"
    [] pc[t] = "clear_OnDeck" -> "in"
    [] pc[t] \in IUnlockLabels \ {"IUnlock"} /\ ~InWait(t) -> "out"
    [] pc[t] \in {"cs", "IUnlock", "IWait", "add_WaitSet"} -> "in"
    [] pc[t] = "notify" /\ call[t] = "notify" -> "notifying"
    [] pc[t] \in notifyLabels /\ call[t] = "notify" -> "in"
    [] pc[t] \in notifyLabels -> "notifying_all"
    [] t \in Range(WaitSet) -> "waiting"
    [] pc[t] \in ILockLabels /\ InWait(t) -> "timed_out"
    [] InWait(t) -> "notified"
    [] OTHER -> "contending"
=============================================================================
