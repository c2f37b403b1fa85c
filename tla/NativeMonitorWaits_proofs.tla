--------------------- MODULE NativeMonitorWaits_proofs ---------------------
(***************************************************************************)
(* Proofs about NativeMonitor, continued: the ParkEvents through notify()  *)
(* and wait(), the succession, and what follows from both.                 *)
(***************************************************************************)
EXTENDS NativeMonitor_proofs

\* notify() takes the head of WaitSet in its hands,
LEMMA NotifyPlaced ==
  ASSUME Typing, Locks, Locks', Placed, NEW t \in Threads, notify(t)
  PROVE  Placed'
<1>1. CASE WaitSet = <<>>
  <2>1. QuietStep(t)
    BY <1>1
       DEF Typing, QuietStep, HandLabels, Sleeping, Queueing, IUnlockLabels, At, Goto, ReturnNotify,
           queueVars,
                waitVars, localVars, notify
  <2> QED
    BY <2>1, QuietKeeps
<1>2. CASE WaitSet # <<>>
  <2> DEFINE m == Head(WaitSet)
  <2>1. /\ pc[t] = "notify" /\ pc'[t] = "push_cxq" /\ w'[t] = m /\ WaitSet' = Tail(WaitSet)
        /\ WaitLock = NULL /\ WaitLock' = t
        /\ UNCHANGED <<cxq, EntryList, OnDeck, Notified, List>> /\ StillStep(t)
    BY <1>2 DEF notify, At, Goto, Typing, StillStep, Sleeping, Queueing, IUnlockLabels, queueVars
  <2>2. m \in Threads /\ m \in Range(WaitSet) /\ Range(WaitSet)' = Range(WaitSet) \ {m} /\ Once(WaitSet)'
    BY <1>2, <2>1, TailOnce, HeadTail DEF Typing, Placed
  <2> HIDE DEF m
  <2>3. \A u \in Threads : pc[u] \notin {"push_cxq", "set_Notified"}
    BY <2>1 DEF Placed, Guarded, Typing
  <2>4. InHands("push_cxq") = {} /\ InHands("push_cxq")' = {m}
    <3>1. InHands("push_cxq") = {}
      BY <2>3 DEF InHands, HandsOf
    <3>2. w'[t] \in Threads /\ pc'[t] = "push_cxq" /\ \A u \in Threads : pc'[u] = "push_cxq" => u = t
      BY <2>1, <2>2, <2>3 DEF StillStep
    <3>3. InHands("push_cxq")' = {w'[t]}
      BY <3>2 DEF InHands, HandsOf
    <3> QED
      BY <2>1, <3>1, <3>3
  <2>5. InHands("pass_OnDeck")' = InHands("pass_OnDeck") /\ InHands("set_Notified")' = InHands("set_Notified")
    BY <2>1 DEF InHands, HandsOf, StillStep
  <2>6. Detached' = Detached
    BY <2>1 DEF Detached
  <2>7. ASSUME NEW x \in Threads PROVE OnePlace(x)' /\ Flow(x)'
    <3> OnePlace(x) /\ Flow(x)
      BY DEF Placed
    <3>1. (Queued(x)' <=> Queued(x)) /\ (Unnotified(x)' <=> Unnotified(x))
      BY <2>1, <2>2, <2>4, <2>5, <2>6 DEF Queued, Unnotified
    <3>2. OnePlace(x)'
      BY Zenon, <2>1, <2>2, <2>4, <2>5, <2>6, <3>1 DEF OnePlace
    <3>3. Flow(x)'
      BY <2>1, <2>5, <3>1, StillFlow
    <3> QED
      BY <3>2, <3>3
  <2>8. \A x \in Threads : Guarded(x)'
    BY <2>1, <2>3 DEF Guarded, Placed, StillStep, Typing
  <2>9. Once(cxq)' /\ Once(EntryList)'
    BY <2>1 DEF Placed
  <2> QED
    BY <2>2, <2>7, <2>8, <2>9 DEF Placed
<1> QED
  BY <1>1, <1>2

\* pushes it on cxq,
LEMMA PushPlaced ==
  ASSUME Typing, Locks, Locks', Placed, NEW t \in Threads, push_cxq(t)
  PROVE  Placed'
<1> DEFINE m == w[t]
<1>1. /\ pc[t] = "push_cxq" /\ pc'[t] = "set_Notified" /\ cxq' = <<m>> \o cxq /\ w'[t] = m /\ m \in Threads
      /\ UNCHANGED <<EntryList, OnDeck, WaitSet, WaitLock, Notified, List>> /\ StillStep(t)
  BY Zenon
     DEF push_cxq, At, Goto, Typing, StillStep, Sleeping, Queueing, IUnlockLabels, waitVars, localVars, Locks,
         TypeOK
<1> HIDE DEF m
<1>2. \A u \in Threads \ {t} : pc[u] \notin {"push_cxq", "set_Notified"} /\ pc'[u] \notin {"push_cxq", "set_Notified"}
  BY <1>1 DEF Placed, Guarded, StillStep
<1>3. InHands("push_cxq") = {m} /\ InHands("push_cxq")' = {}
  <2>1. InHands("push_cxq") = {w[t]}
    BY <1>1, <1>2 DEF InHands, HandsOf, m
  <2>2. InHands("push_cxq")' = {}
    BY <1>1, <1>2 DEF InHands, HandsOf
  <2> QED
    BY <2>1, <2>2 DEF m
<1>4. InHands("set_Notified") = {} /\ InHands("set_Notified")' = {m}
  <2>1. InHands("set_Notified") = {}
    BY <1>1, <1>2 DEF InHands, HandsOf
  <2>2. w'[t] \in Threads /\ pc'[t] = "set_Notified" /\ \A u \in Threads : pc'[u] = "set_Notified" => u = t
    BY <1>1, <1>2
  <2>3. InHands("set_Notified")' = {w'[t]}
    BY <2>2 DEF InHands, HandsOf
  <2> QED
    BY <1>1, <2>1, <2>3
<1>5. InHands("pass_OnDeck")' = InHands("pass_OnDeck") /\ Detached' = Detached
  BY <1>1 DEF InHands, HandsOf, StillStep, Detached
<1>6. OnePlace(m) /\ Flow(m) /\ Unnotified(m) /\ ~Queued(m) /\ m \notin Range(WaitSet)
  BY <1>1, <1>3 DEF Placed, OnePlace, Unnotified
<1>7. Range(cxq)' = Range(cxq) \cup {m} /\ Once(cxq)'
  BY <1>1, <1>6, PrependOnce DEF Queued, Placed, Typing
<1>8. ASSUME NEW x \in Threads PROVE OnePlace(x)' /\ Flow(x)'
  <2> OnePlace(x) /\ Flow(x)
    BY DEF Placed
  <2>1. CASE x = m
    <3>1. Queued(x)' /\ ~Unnotified(x)'
      BY <1>1, <1>3, <1>6, <1>7, <2>1 DEF Queued, Unnotified
    <3>2. OnePlace(x)'
      BY Zenon, <1>1, <1>3, <1>5, <1>6, <1>7, <2>1, <3>1 DEF OnePlace, Queued
    <3>3. Sleeping(x)' /\ ~Notified'[x] /\ pc'[x] \notin {"add_WaitSet", "IWait"}
      BY Zenon, <1>1, <1>6, <2>1 DEF Flow, StillStep, Sleeping, IUnlockLabels
    <3>4. Flow(x)'
      BY <1>4, <2>1, <3>1, <3>3 DEF Flow
    <3> QED
      BY <3>2, <3>4
  <2>2. CASE x # m
    <3>1. (Queued(x)' <=> Queued(x)) /\ (Unnotified(x)' <=> Unnotified(x))
      BY <1>1, <1>3, <1>5, <1>7, <2>2 DEF Queued, Unnotified
    <3>2. OnePlace(x)'
      BY Zenon, <1>1, <1>3, <1>5, <1>7, <2>2, <3>1 DEF OnePlace
    <3>3. Flow(x)'
      BY SMTT(30), <1>1, <1>4, <2>2, <3>1, StillFlow
    <3> QED
      BY <3>2, <3>3
  <2> QED
    BY <2>1, <2>2
<1>9. \A x \in Threads : Guarded(x)'
  BY <1>1, <1>2 DEF Guarded, Placed, StillStep
<1>10. Once(EntryList)' /\ Once(WaitSet)'
  BY <1>1 DEF Placed
<1> QED
  BY <1>7, <1>8, <1>9, <1>10 DEF Placed

\* and tells it so.
LEMMA NotifiedPlaced ==
  ASSUME Typing, Locks, Locks', Placed, NEW t \in Threads, set_Notified(t)
  PROVE  Placed'
<1> DEFINE m == w[t]
<1>1. /\ pc[t] = "set_Notified" /\ pc'[t] \in {"notify_all", "cs"} /\ m \in Threads
      /\ Notified'[m] /\ \A x \in Threads \ {m} : Notified'[x] = Notified[x]
      /\ WaitLock' = NULL
      /\ UNCHANGED <<cxq, EntryList, OnDeck, WaitSet, List>> /\ StillStep(t)
  BY Zenon
     DEF set_Notified, At, Goto, ReturnNotify, Typing, StillStep, Sleeping, Queueing, IUnlockLabels,
         queueVars, Locks,
         TypeOK
<1> HIDE DEF m
<1>2. \A u \in Threads \ {t} : pc[u] \notin {"push_cxq", "set_Notified"} /\ pc'[u] \notin {"push_cxq", "set_Notified"}
  BY <1>1 DEF Placed, Guarded, StillStep
<1>3. InHands("set_Notified") = {m} /\ InHands("set_Notified")' = {}
  <2>1. InHands("set_Notified") = {w[t]}
    BY <1>1, <1>2 DEF InHands, HandsOf, m
  <2>2. InHands("set_Notified")' = {}
    BY <1>1, <1>2 DEF InHands, HandsOf
  <2> QED
    BY <2>1, <2>2 DEF m
<1>4. /\ InHands("pass_OnDeck")' = InHands("pass_OnDeck") /\ InHands("push_cxq")' = InHands("push_cxq")
      /\ Detached' = Detached
  BY <1>1 DEF InHands, HandsOf, StillStep, Detached
<1>5. ASSUME NEW x \in Threads PROVE OnePlace(x)' /\ Flow(x)'
  <2> OnePlace(x) /\ Flow(x)
    BY DEF Placed
  <2>1. (Queued(x)' <=> Queued(x)) /\ (Unnotified(x)' <=> Unnotified(x))
    BY <1>1, <1>4 DEF Queued, Unnotified
  <2>2. OnePlace(x)'
    BY <1>1, <1>4, <2>1 DEF OnePlace
  <2>3. CASE x = m
    <3>1. Sleeping(x)' /\ pc'[x] \notin {"add_WaitSet", "IWait"} /\ Queued(x)' /\ ~Unnotified(x)'
      BY Zenon, <1>1, <1>3, <2>1, <2>3 DEF Flow, OnePlace, StillStep, Sleeping, IUnlockLabels
    <3>2. Flow(x)'
      BY Zenon, <1>1, <1>3, <2>3, <3>1 DEF Flow
    <3> QED
      BY <2>2, <3>2
  <2>4. CASE x # m
    <3>1. Flow(x)'
      BY <1>1, <1>3, <2>1, <2>4, StillFlow
    <3> QED
      BY <2>2, <3>1
  <2> QED
    BY <2>3, <2>4
<1>6. \A x \in Threads : Guarded(x)'
  BY <1>1, <1>2 DEF Guarded, Placed, StillStep, Typing
<1>7. Once(cxq)' /\ Once(EntryList)' /\ Once(WaitSet)'
  BY <1>1 DEF Placed
<1> QED
  BY <1>5, <1>6, <1>7 DEF Placed

\* The step of a thread that puts its own ParkEvent somewhere or takes it away.
SelfStep(t) ==
  /\ \A u \in Threads \ {t} : pc'[u] = pc[u] /\ call'[u] = call[u] /\ w'[u] = w[u] /\ (Notified'[u] <=> Notified[u])
  /\ pc[t] \notin HandLabels \cup {"drain", "Punt"} /\ pc'[t] \notin HandLabels \cup {"drain", "Punt"}
  /\ UNCHANGED <<EntryList, WaitLock, List>>

\* A list or word that such a step changes, it changes for this thread only.
SelfMove(t) ==
  \A x \in Threads \ {t} :
    /\ x \in Range(cxq)' <=> x \in Range(cxq)
    /\ x \in Range(WaitSet)' <=> x \in Range(WaitSet)
    /\ OnDeck' = x <=> OnDeck = x

\* The other threads stay where they are.
LEMMA SelfKeeps ==
  ASSUME Placed, NEW t \in Threads, SelfStep(t), SelfMove(t)
  PROVE  /\ \A x \in Threads \ {t} : OnePlace(x)' /\ Flow(x)'
         /\ \A x \in Threads : Guarded(x)'
         /\ \A label \in {"pass_OnDeck", "push_cxq", "set_Notified"} : InHands(label)' = InHands(label)
         /\ Detached' = Detached /\ Range(EntryList)' = Range(EntryList) /\ Once(EntryList)'
<1>1. \A label \in {"pass_OnDeck", "push_cxq", "set_Notified"} : InHands(label)' = InHands(label)
  BY DEF SelfStep, HandLabels, InHands, HandsOf
<1>2. Detached' = Detached /\ Range(EntryList)' = Range(EntryList) /\ Once(EntryList)'
  BY DEF SelfStep, Detached, Placed
<1>3. \A x \in Threads \ {t} : SamePlace(x)
  BY <1>1, <1>2 DEF SelfStep, SelfMove, SamePlace
<1>4. \A x \in Threads \ {t} : OnePlace(x)' /\ Flow(x)'
  BY <1>3, StandsStill DEF SelfStep, Placed, Kept
<1>5. \A x \in Threads : Guarded(x)'
  BY DEF Guarded, SelfStep, Placed, HandLabels
<1> QED
  BY <1>1, <1>2, <1>4, <1>5

\* A thread that queues or waits nowhere is in no place.
LEMMA Nowhere ==
  ASSUME Placed, NEW t \in Threads, ~Sleeping(t), ~Queueing(t)
  PROVE  /\ ~Queued(t) /\ ~Unnotified(t) /\ t \notin InHands("set_Notified")
         /\ t \notin Range(cxq) /\ t \notin Range(WaitSet)
<1> OnePlace(t) /\ Flow(t)
  BY DEF Placed
<1> QED
  BY DEF Flow, Queued, Unnotified

\* A thread that finds the lock held pushes itself on cxq.
LEMMA AcquireOrPushPlaced ==
  ASSUME Typing, Placed, NEW t \in Threads, AcquireOrPush(t)
  PROVE  Placed'
<1>1. CASE UNCHANGED cxq
  <2>1. QuietStep(t)
    BY <1>1
       DEF Typing, QuietStep, HandLabels, Sleeping, Queueing, IUnlockLabels, At, Goto, TryLock, queueVars,
                waitVars, localVars, AcquireOrPush
  <2> QED
    BY <2>1, QuietKeeps
<1>2. CASE cxq' = <<t>> \o cxq /\ LockByte
  <2>1. /\ pc[t] = "AcquireOrPush" /\ pc'[t] \in {"await_OnDeck", "reentry"}
        /\ UNCHANGED <<OnDeck, WaitSet>> /\ SelfStep(t)
    BY <1>2 DEF AcquireOrPush, TryLock, At, Goto, Typing, SelfStep, HandLabels, waitVars, localVars
  <2>2. ~Sleeping(t) /\ ~Queueing(t) /\ ~Sleeping(t)' /\ Queueing(t)'
    BY <2>1 DEF Sleeping, Queueing, IUnlockLabels
  <2>3. Range(cxq)' = Range(cxq) \cup {t} /\ Once(cxq)'
    BY <1>2, <2>2, Nowhere, PrependOnce DEF Typing, Placed
  <2>4. SelfMove(t)
    BY <2>1, <2>3 DEF SelfMove
  <2>5. Queued(t)' /\ ~Unnotified(t)' /\ OnePlace(t)'
    BY Zenon, <2>1, <2>2, <2>3, <2>4, Nowhere, SelfKeeps DEF Queued, Unnotified, OnePlace
  <2>6. Flow(t)'
    BY Zenon, <2>1, <2>2, <2>4, <2>5, Nowhere, SelfKeeps DEF Flow
  <2>7. Once(WaitSet)'
    BY <2>1 DEF Placed
  <2> QED
    BY Zenon, <2>1, <2>3, <2>4, <2>5, <2>6, <2>7, SelfKeeps DEF Placed
<1> QED
  BY <1>1, <1>2 DEF AcquireOrPush

\* The heir that has the lock is no longer OnDeck, and nowhere else.
LEMMA ClearPlaced ==
  ASSUME Typing, Locks, Placed, NEW t \in Threads, clear_OnDeck(t)
  PROVE  Placed'
<1> OnePlace(t) /\ Flow(t)
  BY DEF Placed
<1>1. /\ pc[t] = "clear_OnDeck" /\ pc'[t] = "cs" /\ OnDeck = t /\ OnDeck' = NULL /\ NULL \notin Threads
      /\ UNCHANGED <<cxq, WaitSet>> /\ SelfStep(t)
  BY DEF clear_OnDeck, At, Goto, Typing, SelfStep, HandLabels, waitVars, localVars, Locks, OnDeckStays
<1>2. SelfMove(t)
  BY <1>1 DEF SelfMove
<1>3. t \notin Range(cxq) /\ t \notin Range(EntryList) /\ ~Unnotified(t)
  BY <1>1 DEF OnePlace, Queued
<1>4. Detached = {} /\ InHands("pass_OnDeck") = {}
  BY <1>1, OutsideInner DEF Typing
<1>5. ~Queued(t)' /\ ~Unnotified(t)'
  BY <1>1, <1>2, <1>3, <1>4, SelfKeeps DEF Queued, Unnotified
<1>6. t \notin InHands("set_Notified")'
  BY Zenon, <1>1, <1>2, SelfKeeps DEF Flow, Sleeping, IUnlockLabels
<1>7. OnePlace(t)' /\ Flow(t)'
  BY Zenon, <1>1, <1>5, <1>6 DEF OnePlace, Flow, Queued, Unnotified, Sleeping, Queueing, IUnlockLabels
<1>8. Once(cxq)' /\ Once(WaitSet)'
  BY <1>1 DEF Placed
<1> QED
  BY Zenon, <1>1, <1>2, <1>7, <1>8, SelfKeeps DEF Placed

\* IWait forgets an earlier notification before the thread is on WaitSet,
LEMMA IWaitPlaced ==
  ASSUME Typing, Placed, NEW t \in Threads, IWait(t)
  PROVE  Placed'
<1> OnePlace(t) /\ Flow(t)
  BY DEF Placed
<1>1. /\ pc[t] = "IWait" /\ pc'[t] = "add_WaitSet" /\ ~Notified'[t] /\ call'[t] = call[t]
      /\ UNCHANGED <<cxq, WaitSet, OnDeck>> /\ SelfStep(t)
  BY DEF IWait, At, Goto, Typing, SelfStep, HandLabels, queueVars, localVars
<1>2. SelfMove(t)
  BY <1>1 DEF SelfMove
<1>3. ~Sleeping(t) /\ ~Queueing(t) /\ ~Sleeping(t)' /\ ~Queueing(t)'
  BY <1>1 DEF Sleeping, Queueing, IUnlockLabels
<1>4. ~Queued(t)' /\ ~Unnotified(t)'
  BY Zenon, <1>1, <1>2, <1>3, Nowhere, SelfKeeps DEF Queued, Unnotified
<1>5. OnePlace(t)'
  BY <1>4 DEF OnePlace, Queued, Unnotified
<1>6. Flow(t)'
  BY Zenon, <1>1, <1>2, <1>3, <1>4, Nowhere, SelfKeeps DEF Flow
<1>7. Once(cxq)' /\ Once(WaitSet)'
  BY <1>1 DEF Placed
<1> QED
  BY Zenon, <1>1, <1>2, <1>5, <1>6, <1>7, SelfKeeps DEF Placed

\* on which it then is,
LEMMA AddPlaced ==
  ASSUME Typing, Placed, NEW t \in Threads, add_WaitSet(t)
  PROVE  Placed'
<1> OnePlace(t) /\ Flow(t)
  BY DEF Placed
<1>1. /\ pc[t] = "add_WaitSet" /\ pc'[t] = "IUnlock" /\ call'[t] # "unlock" /\ ~Notified'[t]
      /\ WaitSet' = <<t>> \o WaitSet
      /\ UNCHANGED <<cxq, OnDeck>> /\ SelfStep(t)
  BY DEF add_WaitSet, At, Goto, Typing, SelfStep, HandLabels, queueVars, localVars, Flow
<1>2. ~Sleeping(t) /\ ~Queueing(t) /\ Sleeping(t)' /\ ~Queueing(t)'
  BY <1>1 DEF Sleeping, Queueing, IUnlockLabels
<1>3. Range(WaitSet)' = Range(WaitSet) \cup {t} /\ Once(WaitSet)'
  BY Zenon, <1>1, <1>2, Nowhere, PrependOnce DEF Typing, Placed
<1>4. SelfMove(t)
  BY <1>1, <1>3 DEF SelfMove
<1>5. ~Queued(t)' /\ Unnotified(t)' /\ t \notin InHands("push_cxq")'
  BY Zenon, <1>1, <1>2, <1>3, <1>4, Nowhere, SelfKeeps DEF Queued, Unnotified
<1>6. OnePlace(t)'
  BY <1>5 DEF OnePlace, Queued
<1>7. Flow(t)'
  BY Zenon, <1>1, <1>2, <1>4, <1>5, Nowhere, SelfKeeps DEF Flow
<1>8. Once(cxq)'
  BY <1>1 DEF Placed
<1> QED
  BY Zenon, <1>1, <1>3, <1>4, <1>6, <1>7, <1>8, SelfKeeps DEF Placed

\* until it is notified, or times out and takes itself off under WaitLock.
LEMMA RemovePlaced ==
  ASSUME Typing, Placed, NEW t \in Threads, remove_WaitSet(t)
  PROVE  Placed'
<1> OnePlace(t) /\ Flow(t)
  BY DEF Placed
<1>1. CASE Notified[t]
  <2>1. QuietStep(t)
    BY <1>1
       DEF Typing, QuietStep, HandLabels, Sleeping, Queueing, IUnlockLabels, At, Goto, queueVars, waitVars,
                localVars, remove_WaitSet
  <2> QED
    BY <2>1, QuietKeeps
<1>2. CASE ~Notified[t]
  <2>1. PICK k \in DOMAIN WaitSet : WaitSet[k] = t /\ WaitSet' = Unlink(WaitSet, k)
    BY <1>2 DEF remove_WaitSet
  <2>2. /\ pc[t] = "remove_WaitSet" /\ pc'[t] = "ILock" /\ ~Notified'[t] /\ WaitLock = NULL
        /\ UNCHANGED <<cxq, OnDeck>> /\ SelfStep(t)
    BY <1>2 DEF remove_WaitSet, At, Goto, Typing, SelfStep, HandLabels, queueVars, localVars
  <2>3. Range(WaitSet)' = Range(WaitSet) \ {t} /\ Once(WaitSet)' /\ t \in Range(WaitSet)
    <3>1. t \in Range(WaitSet)
      BY <2>1 DEF Range
    <3>2. Range(Unlink(WaitSet, k)) = Range(WaitSet) \ {t} /\ Once(Unlink(WaitSet, k))
      BY <2>1, UnlinkOnce DEF Typing, Placed
    <3> QED
      BY <2>1, <3>1, <3>2
  <2>4. SelfMove(t)
    BY <2>2, <2>3 DEF SelfMove
  <2>5. ~Queued(t) /\ t \notin InHands("push_cxq") /\ t \notin InHands("set_Notified")
    BY <2>3 DEF OnePlace, Flow, Unnotified
  <2>6. ~Queued(t)' /\ ~Unnotified(t)'
    BY <2>2, <2>3, <2>4, <2>5, SelfKeeps DEF Queued, Unnotified
  <2>7. OnePlace(t)'
    BY <2>6 DEF OnePlace, Queued, Unnotified
  <2>8. Flow(t)'
    <3>1. t \notin InHands("set_Notified")'
      BY SMTT(30), <2>2, <2>4, <2>5, SelfKeeps
    <3> QED
      BY ZenonT(30), <2>2, <2>6, <3>1 DEF Flow, Sleeping, Queueing, IUnlockLabels
  <2>9. Once(cxq)'
    BY <2>2 DEF Placed
  <2> QED
    BY Zenon, <2>2, <2>3, <2>4, <2>7, <2>8, <2>9, SelfKeeps DEF Placed
<1> QED
  BY <1>1, <1>2

\* Every step keeps every ParkEvent in one place.
LEMMA StepPlaced ==
  ASSUME Locks, Locks', Placed, NEW t \in Threads, Client(t) \/ Step(t)
  PROVE  Placed'
<1>0. Typing
  BY LocksTyping
<1>1. CASE Client(t)
  BY <1>0, <1>1, WaitQuiet, QuietKeeps
<1>2. CASE LockStep(t)
  BY <1>0, <1>2, LockQuiet, QuietKeeps, AcquireOrPushPlaced, ClearPlaced DEF LockStep
<1>3. CASE UnlockStep(t)
  BY Zenon, <1>0, <1>3, UnlockQuiet, QuietKeeps, SelectPlaced, PassPlaced, DrainPlaced, EntryListPlaced
     DEF UnlockStep
<1>4. CASE NotifyStep(t)
  BY Zenon, <1>0, <1>4, WaitQuiet, QuietKeeps, NotifyPlaced, PushPlaced, NotifiedPlaced DEF NotifyStep
<1>5. CASE WaitStep(t)
  BY Zenon, <1>0, <1>5, WaitQuiet, QuietKeeps, IWaitPlaced, AddPlaced, RemovePlaced DEF WaitStep
<1> QED
  BY <1>1, <1>2, <1>3, <1>4, <1>5 DEF Step

-----------------------------------------------------------------------------
(* Succession: a free lock is not left to nobody. *)

\* What a step of t does to the succession: it keeps the lock's state and the queues, or it
\* leaves the lock held, or the inner lock taken, or it is about to look OnDeck, or it adds
\* to nobody's wait.  DutyStep and HeirStep say which.
DutyStep(t) ==
  /\ \A u \in Threads \ {t} : pc'[u] = pc[u]
  /\ \/ LockByte' \/ OnDeck' # NULL
     \/ HasDuty(t)'
     \/ /\ UNCHANGED <<OnDeck, cxq, EntryList>> /\ ~LockByte
        /\ ~HasDuty(t)
     \/ OnDeck' = NULL /\ cxq' = <<>> /\ EntryList' = <<>>

\* After such a step some thread has the duty.
LEMMA DutyKept ==
  ASSUME DutyTaken, NEW t \in Threads, DutyStep(t)
  PROVE  DutyTaken'
<1> SUFFICES ASSUME ~LockByte', OnDeck' = NULL, cxq' # <<>> \/ EntryList' # <<>>
             PROVE  \E u \in Threads : HasDuty(u)'
  BY DEF DutyTaken
<1>1. CASE HasDuty(t)'
  BY <1>1
<1>2. CASE UNCHANGED <<OnDeck, cxq, EntryList>> /\ ~LockByte /\ ~HasDuty(t)
  <2>1. PICK u \in Threads : HasDuty(u)
    BY <1>2 DEF DutyTaken
  <2>2. u # t /\ HasDuty(u)'
    BY <1>2, <2>1 DEF HasDuty, DutyStep
  <2> QED
    BY <2>2
<1> QED
  BY <1>1, <1>2 DEF DutyStep

HeirStep(t) ==
  /\ \A u \in Threads \ {t} : pc'[u] = pc[u] /\ w'[u] = w[u]
  /\ \A u \in Threads \ {t} : Event'[u] = 0 => Event[u] = 0
  /\ \/ LockByte' \/ OnDeck' \notin Threads
     \/ pc'[t] = "read_OnDeck"
     \/ pc'[t] \in {"recheck", "unpark"} /\ w'[t] = OnDeck'
     \/ /\ UNCHANGED OnDeck /\ ~LockByte
        /\ \/ Event'[OnDeck] = 1
           \/ ~(pc[t] = "read_OnDeck" \/ (pc[t] \in {"recheck", "unpark"} /\ w[t] = OnDeck))
        /\ OnDeck = t => ~Parked(t)' \/ Parked(t)

\* After such a step the heir of a free lock is awake or about to be woken up.
LEMMA HeirKept ==
  ASSUME HeirAwake, Event' \in [Threads -> {0, 1}], NEW t \in Threads, HeirStep(t)
  PROVE  HeirAwake'
<1> SUFFICES ASSUME ~LockByte', OnDeck' \in Threads, Parked(OnDeck)'
             PROVE  \E u \in Threads : pc'[u] = "read_OnDeck" \/ (pc'[u] \in {"recheck", "unpark"} /\ w'[u] = OnDeck')
  BY DEF HeirAwake
<1>1. CASE pc'[t] = "read_OnDeck" \/ (pc'[t] \in {"recheck", "unpark"} /\ w'[t] = OnDeck')
  BY <1>1
<1>2. CASE /\ UNCHANGED OnDeck /\ ~LockByte
           /\ ~(pc[t] = "read_OnDeck" \/ (pc[t] \in {"recheck", "unpark"} /\ w[t] = OnDeck))
           /\ OnDeck = t => ~Parked(t)' \/ Parked(t)
  <2>1. Parked(OnDeck)
    BY <1>2 DEF HeirStep, Parked
  <2>2. PICK u \in Threads : pc[u] = "read_OnDeck" \/ (pc[u] \in {"recheck", "unpark"} /\ w[u] = OnDeck)
    BY <1>2, <2>1 DEF HeirAwake
  <2>3. u # t
    BY <1>2, <2>2
  <2> QED
    BY <1>2, <2>2, <2>3 DEF HeirStep
<1>3. CASE UNCHANGED OnDeck /\ Event'[OnDeck] = 1
  BY <1>3 DEF Parked
<1> QED
  BY <1>1, <1>2, <1>3 DEF HeirStep

\* A thread asleep in IWait that is OnDeck and not notified: its notifier holds the lock.
LEMMA HeirNotified ==
  ASSUME Locks, Placed, NEW t \in Threads, OnDeck = t, Sleeping(t), ~Notified[t]
  PROVE  LockByte
<1>1. t \in InHands("set_Notified")
  BY DEF Placed, Flow, Queued
<1>2. PICK u \in Threads : pc[u] = "set_Notified"
  BY <1>1 DEF InHands, HandsOf
<1>3. Holds(u)
  BY <1>2 DEF Holds, notifyLabels
<1> QED
  BY SMTT(30), <1>3 DEF Locks, MutualExclusion

\* The steps of ILock and jvm_raw_lock take no duty away.
LEMMA LockSucceeds ==
  ASSUME Locks, Placed, NEW t \in Threads, LockStep(t)
  PROVE  DutyStep(t) /\ HeirStep(t)
<1> Typing /\ Event = [u \in Threads |-> Event[u]] /\ (Holds(t) => LockByte)
  BY LocksTyping DEF Locks, TypeOK, MutualExclusion
<1> USE DEF Typing, DutyStep, HeirStep, HasDuty, Parked, At, Goto, queueVars, localVars
<1>1. CASE ILock(t)
  BY <1>1 DEF ILock, TryLock
<1>2. CASE reset(t)
  BY <1>2 DEF reset
<1>3. CASE AcquireOrPush(t)
  BY <1>3 DEF AcquireOrPush, TryLock
<1>4. CASE await_OnDeck(t)
  BY <1>4 DEF await_OnDeck
<1>5. CASE OnDeck_LOOP(t)
  BY <1>5 DEF OnDeck_LOOP, TryLock
<1>6. CASE ParkCommon(t)
  BY Zenon, <1>6 DEF ParkCommon, park
<1>7. CASE clear_OnDeck(t)
  BY <1>7 DEF clear_OnDeck, Holds
<1> QED
  BY Zenon, <1>1, <1>2, <1>3, <1>4, <1>5, <1>6, <1>7 DEF LockStep

\* The steps of IUnlock fulfil it or leave it to another thread.
LEMMA UnlockSucceeds ==
  ASSUME Locks, Placed, NEW t \in Threads, UnlockStep(t)
  PROVE  DutyStep(t) /\ HeirStep(t)
<1> /\ Typing /\ Event = [u \in Threads |-> Event[u]] /\ (HoldsInner(t) => OnDeck = LBIT)
    /\ OnDeck \in Threads \cup {NULL, LBIT}
    /\ pc[t] \in {"unpark", "pass_OnDeck", "recheck", "push_cxq", "set_Notified"} => w[t] \in Threads
    /\ pc[t] = "Punt" => EntryList = <<>>
  BY Zenon, LocksTyping DEF Locks, TypeOK, InnerLock, Placed, Guarded
<1> USE DEF Typing, DutyStep, HeirStep, HasDuty, Parked, At, Goto, ReturnIUnlock, queueVars, localVars, HoldsInner
<1>1. CASE IUnlock(t)
  BY <1>1 DEF IUnlock
<1>2. CASE read_OnDeck(t)
  BY Zenon, <1>2 DEF read_OnDeck
<1>3. CASE unpark(t)
  BY <1>3 DEF unpark
<1>4. CASE read_LockWord(t)
  BY <1>4 DEF read_LockWord
<1>5. CASE read_EntryList(t)
  BY SMTT(30), <1>5 DEF read_EntryList
<1>6. CASE Succession(t)
  BY <1>6 DEF Succession
<1>7. CASE select(t)
  BY Zenon, <1>7 DEF select
<1>8. CASE pass_OnDeck(t)
  BY <1>8 DEF pass_OnDeck
<1>9. CASE recheck(t)
  BY Zenon, <1>9 DEF recheck
<1>10. CASE drain(t)
  BY <1>10 DEF drain
<1>11. CASE set_EntryList(t)
  BY <1>11 DEF set_EntryList
<1>12. CASE Punt(t)
  BY SMTT(30), <1>12 DEF Punt
<1>13. CASE resample(t)
  BY <1>13 DEF resample
<1> QED
  BY ZenonT(30), <1>1, <1>2, <1>3, <1>4, <1>5, <1>6, <1>7, <1>8, <1>9, <1>10, <1>11, <1>12, <1>13 DEF UnlockStep

\* Neither do those of notify, notify_all and IWait, and the calls, take a duty away.
LEMMA WaitSucceeds ==
  ASSUME Locks, Placed, NEW t \in Threads, Client(t) \/ NotifyStep(t) \/ WaitStep(t)
  PROVE  DutyStep(t) /\ HeirStep(t)
<1>0. /\ Typing /\ Event = [u \in Threads |-> Event[u]]
      /\ OnDeck = t /\ pc[t] = "wait_loop" /\ ~Notified[t] => LockByte
  BY Zenon, LocksTyping, HeirNotified DEF Locks, TypeOK, Sleeping
<1> USE DEF Typing, DutyStep, HeirStep, HasDuty, Parked, At, Goto, queueVars, localVars
<1>1. CASE Client(t)
  <2>1. PICK from \in {"idle", "cs"}, name \in EntryPoints, label \in {"ILock", "IUnlock", "notify", "IWait"} :
           Call(t, from, name, label)
    BY <1>1 DEF Client, CallLock, CallUnlock, CallNotify, CallWait, EntryPoints
  <2> QED
    BY <1>0, <2>1 DEF Call
<1>2. CASE notify(t)
  BY Zenon, <1>0, <1>2 DEF notify, ReturnNotify
<1>3. CASE push_cxq(t)
  BY <1>0, <1>3 DEF push_cxq
<1>4. CASE set_Notified(t)
  BY Zenon, <1>0, <1>4 DEF set_Notified, ReturnNotify
<1>5. CASE notify_all(t)
  BY SMTT(30), <1>0, <1>5 DEF notify_all
<1>6. CASE IWait(t)
  BY <1>0, <1>6 DEF IWait
<1>7. CASE add_WaitSet(t)
  BY Zenon, <1>0, <1>7 DEF add_WaitSet
<1>8. CASE wait_loop(t)
  BY <1>0, <1>8 DEF wait_loop
<1>9. CASE Timeout(t)
  BY SMTT(30), <1>0, <1>9 DEF Timeout
<1>10. CASE wait_done(t)
  BY <1>0, <1>10 DEF wait_done
<1>11. CASE remove_WaitSet(t)
  BY Zenon, <1>0, <1>11 DEF remove_WaitSet
<1>12. CASE reentry(t)
  BY Zenon, <1>0, <1>12 DEF reentry, TryLock
<1> QED
  BY ZenonT(30), <1>1, <1>2, <1>3, <1>4, <1>5, <1>6, <1>7, <1>8, <1>9, <1>10, <1>11, <1>12 DEF NotifyStep, WaitStep

-----------------------------------------------------------------------------
\* Nobody is queued at a new monitor.
LEMMA InitMInv == Init => MInv
<1> SUFFICES ASSUME Init PROVE MInv
  OBVIOUS
<1>1. /\ LockByte = FALSE /\ cxq = <<>> /\ EntryList = <<>> /\ WaitSet = <<>> /\ OnDeck = NULL /\ WaitLock = NULL
      /\ \A t \in Threads : pc[t] = "idle" /\ List[t] = <<>>
  BY DEF Init
<1>2. Once(<<>>) /\ Range(<<>>) = {}
  BY EmptyOnce
<1>3. \A x \in {"pass_OnDeck", "push_cxq", "set_Notified"} : InHands(x) = {}
  BY <1>1 DEF InHands, HandsOf
<1>4. Detached = {}
  BY <1>1, <1>2 DEF Detached, SegmentsOf
<1>5. ASSUME NEW t \in Threads PROVE ~Queued(t) /\ ~Unnotified(t) /\ ~Queueing(t) /\ ~Sleeping(t)
  <2>1. ~Queued(t) /\ ~Unnotified(t)
    BY <1>1, <1>2, <1>3, <1>4, ConstantsAssumption DEF Queued, Unnotified
  <2> QED
    BY <1>1, <2>1 DEF Queueing, Sleeping, IUnlockLabels
<1>6. ASSUME NEW t \in Threads PROVE OnePlace(t) /\ Flow(t) /\ Guarded(t)
  <2>1. OnePlace(t)
    BY SMTT(30), <1>1, <1>2, <1>5 DEF OnePlace
  <2>2. Flow(t)
    BY <1>1, <1>3, <1>5 DEF Flow
  <2>3. Guarded(t)
    BY <1>1, <1>2, ConstantsAssumption DEF Guarded
  <2> QED
    BY <2>1, <2>2, <2>3
<1>7. Placed
  BY <1>1, <1>2, <1>6 DEF Placed
<1>8. HeirAwake /\ DutyTaken
  BY <1>1, ConstantsAssumption DEF HeirAwake, DutyTaken
<1> QED
  BY <1>7, <1>8, InitLocks DEF MInv

\* Every step of the monitor keeps the ParkEvents in their places and sees to succession.
LEMMA NextMInv == MInv /\ [Next]_vars => MInv'
<1>1. ASSUME MInv, UNCHANGED vars PROVE Placed' /\ HeirAwake' /\ DutyTaken'
  <2>1. \A x : InHands(x)' = InHands(x)
    BY <1>1 DEF InHands, HandsOf, vars
  <2>2. Detached' = Detached
    BY <1>1 DEF Detached, SegmentsOf, vars
  <2>3. ASSUME NEW t \in Threads PROVE OnePlace(t)' /\ Flow(t)' /\ Guarded(t)'
    <3>1. OnePlace(t) /\ Flow(t) /\ Guarded(t)
      BY <1>1 DEF MInv, Placed
    <3>2. (Queued(t)' <=> Queued(t)) /\ (Unnotified(t)' <=> Unnotified(t))
      BY <1>1, <2>1, <2>2 DEF Queued, Unnotified, vars
    <3>3. (Sleeping(t)' <=> Sleeping(t)) /\ (Queueing(t)' <=> Queueing(t))
      BY <1>1 DEF Sleeping, Queueing, vars
    <3>4. OnePlace(t)'
      BY <1>1, <2>1, <2>2, <3>1, <3>2 DEF OnePlace, vars
    <3>5. Flow(t)'
      BY Zenon, <1>1, <2>1, <3>1, <3>2, <3>3 DEF Flow, vars
    <3>6. Guarded(t)'
      BY <1>1, <3>1 DEF Guarded, vars
    <3> QED
      BY <3>4, <3>5, <3>6
  <2>4. Placed'
    BY <1>1, <2>3 DEF MInv, Placed, vars
  <2>5. HeirAwake'
    BY <1>1 DEF MInv, HeirAwake, Parked, vars
  <2>6. DutyTaken'
    BY <1>1 DEF MInv, DutyTaken, HasDuty, vars
  <2> QED
    BY <2>4, <2>5, <2>6
<1>2. ASSUME MInv, Locks', NEW t \in Threads, Client(t) \/ Step(t) PROVE Placed' /\ HeirAwake' /\ DutyTaken'
  <2>1. Placed'
    BY <1>2, StepPlaced DEF MInv
  <2>2. DutyStep(t) /\ HeirStep(t)
    BY <1>2, LockSucceeds, UnlockSucceeds, WaitSucceeds DEF MInv, Step
  <2>3. Event' \in [Threads -> {0, 1}]
    BY <1>2 DEF Locks, TypeOK
  <2> QED
    BY <1>2, <2>1, <2>2, <2>3, DutyKept, HeirKept DEF MInv
<1>3. MInv /\ [Next]_vars => Locks'
  BY NextLocks DEF MInv
<1> QED
  BY <1>1, <1>2, <1>3 DEF MInv, Next

\* The places of the ParkEvents and the duty of succession, in every state a Monitor reaches.
LEMMA InvariantMInv == Spec => []MInv
  BY InitMInv, NextMInv, PTL DEF Spec

-----------------------------------------------------------------------------
(* What the invariant says about the monitor. *)

\* A thread on a list makes the list non-empty.
LEMMA OnListNonEmpty == ASSUME NEW s, NEW x \in Range(s) PROVE s # <<>>
  BY EmptyOnce

\* IUnlock never leaves a free lock with queued threads to nobody: the exiting thread still
\* has the duty of succession, or the OnDeck thread is awake or about to be unparked.
THEOREM LockNotStranded == Spec => []NoStranding
<1>1. ASSUME MInv, ~LockByte, Contenders # {} PROVE NoStranding
  <2>1. CASE OnDeck = LBIT
    <3>1. PICK u \in Threads : HoldsInner(u)
      BY <1>1, <2>1 DEF MInv, Locks, InnerLock
    <3>2. pc[u] \in IUnlockLabels \ {"unpark"}
      BY <3>1 DEF HoldsInner, IUnlockLabels
    <3> QED
      BY <3>2 DEF NoStranding
  <2>2. CASE OnDeck = NULL
    <3>1. PICK x \in Threads : OnDeck = x \/ x \in Range(cxq \o EntryList) \/ \E u \in Threads : x \in Range(List[u])
      BY <1>1 DEF Contenders
    <3>2. CASE \E u \in Threads : x \in Range(List[u])
      <4>1. PICK u \in Threads : pc[u] = "set_EntryList"
        BY <1>1, <3>2, OnListNonEmpty DEF MInv, Placed, Guarded
      <4> QED
        BY <4>1 DEF NoStranding, IUnlockLabels
    <3>3. CASE x \in Range(cxq \o EntryList)
      <4>1. cxq \in Seq(Threads) /\ EntryList \in Seq(Threads)
        BY <1>1 DEF MInv, Locks, TypeOK
      <4>2. x \in Range(cxq) \/ x \in Range(EntryList)
        BY <3>3, <4>1, RangeConcat
      <4>3. cxq # <<>> \/ EntryList # <<>>
        BY <4>2, OnListNonEmpty
      <4>4. PICK u \in Threads : HasDuty(u)
        BY <1>1, <2>2, <4>3 DEF MInv, DutyTaken
      <4>5. pc[u] \in IUnlockLabels \ {"unpark"}
        BY <4>4 DEF HasDuty, IUnlockLabels
      <4> QED
        BY <4>5 DEF NoStranding
    <3> QED
      BY <2>2, <3>1, <3>2, <3>3, ConstantsAssumption
  <2>3. CASE OnDeck \in Threads
    BY <1>1, <2>3 DEF MInv, HeirAwake, NoStranding, IUnlockLabels
  <2> QED
    BY Zenon, <1>1, <2>1, <2>2, <2>3 DEF MInv, Locks, TypeOK
<1>2. MInv => NoStranding
  BY <1>1 DEF NoStranding
<1> QED
  BY <1>2, InvariantMInv, PTL

\* The assertions of mutex.cpp about OnDeck, EntryList and Notified hold where they stand.
THEOREM AssertionsHold == Spec => []Assertions
<1>1. ASSUME MInv, NEW t \in Threads
      PROVE  /\ pc[t] = "ILock" => OnDeck # t
             /\ pc[t] = "read_OnDeck" /\ call[t] = "unlock" => OnDeck # t
             /\ pc[t] = "select" /\ call[t] = "unlock" => t \notin Range(EntryList)
    BY Zenon, <1>1 DEF MInv, Placed, Flow, Queued, Queueing, Sleeping, IUnlockLabels
<1>2. ASSUME MInv, NEW t \in Threads
      PROVE  /\ pc[t] = "select" /\ call[t] = "unlock" /\ EntryList # <<>> => Head(EntryList) # t
             /\ pc[t] \in {"reentry", "reentry_park"} /\ OnDeck = t => t \notin Range(cxq \o EntryList)
  <2>1. cxq \in Seq(Threads) /\ EntryList \in Seq(Threads)
    BY <1>2 DEF MInv, Locks, TypeOK
  <2>2. EntryList # <<>> => Head(EntryList) \in Range(EntryList)
    <3>1. EntryList # <<>> => 1 \in DOMAIN EntryList /\ Head(EntryList) = EntryList[1]
      BY <2>1
    <3> QED
      BY <3>1 DEF Range
  <2>3. OnDeck = t => t \notin Range(cxq \o EntryList)
    <3>1. Range(cxq \o EntryList) = Range(cxq) \cup Range(EntryList)
      BY <2>1, RangeConcat
    <3> QED
      BY <1>2, <3>1 DEF MInv, Placed, OnePlace
  <2> QED
    BY <1>1, <1>2, <2>2, <2>3
<1>3. ASSUME MInv, NEW t \in Threads
      PROVE  /\ pc[t] = "set_EntryList" => EntryList = <<>> /\ List[t] # <<>>
             /\ pc[t] = "push_cxq" => ~Notified[w[t]] /\ LockByte
  <2>1. pc[t] = "set_EntryList" => EntryList = <<>> /\ List[t] # <<>>
    BY <1>3 DEF MInv, Placed, Guarded
  <2>2. ASSUME pc[t] = "push_cxq" PROVE ~Notified[w[t]] /\ LockByte
    <3>1. w[t] \in Threads
      BY <1>3, <2>2 DEF MInv, Locks, TypeOK
    <3>2. w[t] \in InHands("push_cxq")
      BY SMTT(30), <2>2, <3>1 DEF InHands, HandsOf
    <3>3. ~Notified[w[t]]
      BY <1>3, <3>1, <3>2 DEF MInv, Placed, Flow, Unnotified
    <3>4. Holds(t)
      BY <2>2 DEF Holds, notifyLabels
    <3> QED
      BY <1>3, <3>3, <3>4 DEF MInv, Locks, MutualExclusion
  <2> QED
    BY <2>1, <2>2
<1>4. ASSUME MInv, NEW t \in Threads, pc[t] = "remove_WaitSet", WaitLock = NULL, ~Notified[t]
      PROVE  OnDeck # t /\ t \in Range(WaitSet)
  <2>1. Sleeping(t)
    BY <1>4 DEF Sleeping
  <2>2. InHands("push_cxq") = {} /\ InHands("set_Notified") = {}
    BY SMTT(30), <1>4, ConstantsAssumption DEF MInv, Placed, Guarded, InHands, HandsOf
  <2>3. ~Queued(t) /\ (Queued(t) \/ Unnotified(t))
    BY SMTT(30), <1>4, <2>1, <2>2 DEF MInv, Placed, Flow
  <2> QED
    BY <2>2, <2>3 DEF Queued, Unnotified
<1>5. MInv => Assertions
  BY <1>1, <1>2, <1>3, <1>4 DEF Assertions
<1> QED
  BY <1>5, InvariantMInv, PTL

Lone(S) == \E p : S = {p}

\* On a list without repetitions a thread has one position, and none if it is not on it.
LEMMA PositionsOne ==
  ASSUME NEW list, NEW s, NEW t, Once(s)
  PROVE  /\ t \in Range(s) => Lone(Positions(list, s, t))
         /\ t \notin Range(s) => Positions(list, s, t) = {}
<1>1. ASSUME t \in Range(s) PROVE Lone(Positions(list, s, t))
  <2>1. PICK i \in DOMAIN s : s[i] = t
    BY <1>1 DEF Range
  <2>2. {j \in DOMAIN s : s[j] = t} = {i}
    BY <2>1 DEF Once
  <2>3. Positions(list, s, t) = {<<list, i>>}
    BY <2>2 DEF Positions
  <2> QED
    BY Zenon, <2>3 DEF Lone
<1>2. ASSUME t \notin Range(s) PROVE Positions(list, s, t) = {}
  BY <1>2 DEF Range, Positions
<1> QED
  BY <1>1, <1>2

Segments(t) == UNION {Positions(u, List[u], t) : u \in Threads}
Hands(t) == {<<"w", u>> : u \in {v \in Threads : pc[v] \in {"pass_OnDeck", "push_cxq"} /\ w[v] = t}}

\* In the detached segment, which only the inner lock's holder has, a thread is once.
LEMMA SegmentsPlace ==
  ASSUME MInv, NEW t \in Threads
  PROVE  /\ t \in Detached => Lone(Segments(t))
         /\ t \notin Detached => Segments(t) = {}
<1>0. \A u \in Threads : Once(List[u]) /\ (List[u] # <<>> <=> pc[u] = "set_EntryList")
  BY DEF MInv, Placed, Guarded
<1>1. ASSUME t \in Detached PROVE Lone(Segments(t))
  <2>1. PICK u \in Threads : t \in Range(List[u])
    BY <1>1 DEF Detached, SegmentsOf
  <2>2. pc[u] = "set_EntryList"
    BY <1>0, <2>1, OnListNonEmpty
  <2>3. \A v \in Threads : v # u => t \notin Range(List[v])
    <3>1. \A v \in Threads : v # u => pc[v] # "set_EntryList"
      BY <2>2 DEF MInv, Locks, InnerLock, HoldsInner
    <3> QED
      BY <1>0, <3>1, OnListNonEmpty
  <2>4. \A v \in Threads : v # u => Positions(v, List[v], t) = {}
    BY SMTT(30), <1>0, <2>3, PositionsOne
  <2>5. Lone(Positions(u, List[u], t))
    BY <1>0, <2>1, PositionsOne
  <2>6. Segments(t) = Positions(u, List[u], t)
    BY <2>4 DEF Segments
  <2> QED
    BY <2>5, <2>6
<1>2. ASSUME t \notin Detached PROVE Segments(t) = {}
  <2>1. \A v \in Threads : Positions(v, List[v], t) = {}
    BY <1>0, <1>2, PositionsOne DEF Detached, SegmentsOf
  <2> QED
    BY <2>1 DEF Segments
<1> QED
  BY <1>1, <1>2

\* A thread is in the hands of one thread, the inner lock's holder or WaitLock's, if any.
LEMMA HandsPlace ==
  ASSUME MInv, NEW t \in Threads
  PROVE  /\ t \in InHands("pass_OnDeck") \/ t \in InHands("push_cxq") => Lone(Hands(t))
         /\ t \notin InHands("pass_OnDeck") /\ t \notin InHands("push_cxq") => Hands(t) = {}
<1>a. \A u, v \in Threads : pc[u] = "pass_OnDeck" /\ pc[v] = "pass_OnDeck" => u = v
  BY DEF MInv, Locks, InnerLock, HoldsInner
<1>b. \A u, v \in Threads : pc[u] = "push_cxq" /\ pc[v] = "push_cxq" => u = v
  BY DEF MInv, Placed, Guarded
<1> DEFINE H == {v \in Threads : pc[v] \in {"pass_OnDeck", "push_cxq"} /\ w[v] = t}
<1>1. \A u, v \in H : u = v
  <2> SUFFICES ASSUME NEW u \in H, NEW v \in H PROVE u = v
    OBVIOUS
  <2>0. u \in Threads /\ v \in Threads /\ pc[u] \in {"pass_OnDeck", "push_cxq"}
    OBVIOUS
  <2>1. ~(t \in InHands("pass_OnDeck") /\ t \in InHands("push_cxq"))
    BY DEF MInv, Placed, OnePlace, Queued, Unnotified
  <2>2. pc[u] = pc[v]
    BY <2>1 DEF InHands, HandsOf
  <2>3. CASE pc[u] = "pass_OnDeck"
    BY Zenon, <1>a, <2>0, <2>2, <2>3
  <2>4. CASE pc[u] = "push_cxq"
    BY Zenon, <1>b, <2>0, <2>2, <2>4
  <2> QED
    BY <2>0, <2>3, <2>4
<1>2. H # {} <=> t \in InHands("pass_OnDeck") \/ t \in InHands("push_cxq")
  BY DEF InHands, HandsOf
<1>3. Hands(t) = {<<"w", u>> : u \in H}
  BY DEF Hands
<1> HIDE DEF H
<1>4. ASSUME H # {} PROVE Lone(Hands(t))
  <2>1. PICK u \in H : TRUE
    BY <1>4
  <2>2. H = {u}
    BY <1>1, <2>1
  <2>3. Hands(t) = {<<"w", u>>}
    BY <1>3, <2>2
  <2> QED
    BY Zenon, <2>3 DEF Lone
<1>5. ASSUME H = {} PROVE Hands(t) = {}
  BY SMTT(30), <1>3, <1>5
<1> QED
  BY <1>2, <1>4, <1>5

\* A thread waits exactly while it is queued for the lock or not yet notified.
LEMMA WaitingPlace == ASSUME MInv, NEW t \in Threads PROVE Waiting(t) <=> Queued(t) \/ Unnotified(t)
<1>1. Waiting(t) <=> Queueing(t) \/ Sleeping(t)
  BY DEF Waiting, Queueing, Sleeping
<1> QED
  BY <1>1 DEF MInv, Placed, Flow

\* A waiting thread is in one place, and any other thread is nowhere.
LEMMA LonePlaces ==
  ASSUME MInv, NEW t \in Threads
  PROVE  /\ Waiting(t) => Lone(Places(t))
         /\ ~Waiting(t) => Places(t) = {}
<1> DEFINE C == Positions("cxq", cxq, t)
           E == Positions("EntryList", EntryList, t)
           W == Positions("WaitSet", WaitSet, t)
           D == {<<"OnDeck", u>> : u \in {t} \cap {OnDeck}}
<1> /\ t \in Range(cxq) => Lone(C)
    /\ t \notin Range(cxq) => C = {}
  BY PositionsOne DEF MInv, Placed
<1> /\ t \in Range(EntryList) => Lone(E)
    /\ t \notin Range(EntryList) => E = {}
  BY PositionsOne DEF MInv, Placed
<1> /\ t \in Range(WaitSet) => Lone(W)
    /\ t \notin Range(WaitSet) => W = {}
  BY PositionsOne DEF MInv, Placed
<1> /\ OnDeck = t => Lone(D)
    /\ OnDeck # t => D = {}
  <2>1. OnDeck = t => D = {<<"OnDeck", t>>}
    OBVIOUS
  <2>2. OnDeck # t => D = {}
    OBVIOUS
  <2> QED
    BY Zenon, <2>1, <2>2 DEF Lone
<1> Places(t) = UNION {C, E, W, Segments(t), D, Hands(t)}
  BY Zenon DEF Places, Segments, Hands
<1> /\ t \in Detached => Lone(Segments(t))
    /\ t \notin Detached => Segments(t) = {}
  BY SMTT(30), SegmentsPlace
<1> /\ t \in InHands("pass_OnDeck") \/ t \in InHands("push_cxq") => Lone(Hands(t))
    /\ t \notin InHands("pass_OnDeck") /\ t \notin InHands("push_cxq") => Hands(t) = {}
  BY HandsPlace
<1> Waiting(t) <=> Queued(t) \/ Unnotified(t)
  BY Zenon, WaitingPlace
<1> /\ OnDeck = t \/ t \in InHands("pass_OnDeck") => t \notin Detached
    /\ OnDeck = t => t \notin InHands("pass_OnDeck")
  <2>1. t \in Detached => \E u \in Threads : pc[u] = "set_EntryList"
    BY Zenon, OnListNonEmpty DEF Detached, SegmentsOf, MInv, Placed, Guarded
  <2>2. t \in InHands("pass_OnDeck") => \E u \in Threads : pc[u] = "pass_OnDeck"
    BY Zenon DEF InHands, HandsOf
  <2> QED
    BY Zenon, <2>1, <2>2, ConstantsAssumption DEF MInv, Locks, InnerLock, HoldsInner
<1> OnePlace(t)
  BY Zenon DEF MInv, Placed
<1> HIDE DEF C, E, W, D
<1>8. CASE t \in Range(cxq)
  BY <1>8 DEF OnePlace, Queued, Unnotified
<1>9. CASE t \in Range(EntryList)
  BY SMTT(30), <1>9 DEF OnePlace, Queued, Unnotified
<1>10. CASE t \in Range(WaitSet)
  BY SMTT(30), <1>10 DEF OnePlace, Queued, Unnotified
<1>11. CASE t \in Detached
  BY SMTT(30), <1>11 DEF OnePlace, Queued, Unnotified
<1>12. CASE OnDeck = t
  BY SMTT(30), <1>12 DEF OnePlace, Queued, Unnotified
<1>13. CASE t \in InHands("pass_OnDeck") \/ t \in InHands("push_cxq")
  BY SMTT(30), <1>13 DEF OnePlace, Queued, Unnotified
<1>14. CASE ~Queued(t) /\ ~Unnotified(t)
  BY SMTT(30), <1>14 DEF Queued, Unnotified
<1> QED
  BY Zenon, <1>8, <1>9, <1>10, <1>11, <1>12, <1>13, <1>14 DEF Queued, Unnotified

INSTANCE FiniteSetTheorems

\* A waiting thread's ParkEvent is in exactly one place, and any other thread's is nowhere:
\* ILock, IUnlock, notify and IWait may all use its one link, ListNext.
THEOREM OneResidency == Spec => []Residency
<1>1. ASSUME NEW S, Lone(S) PROVE Cardinality(S) = 1
  <2>1. PICK p : S = {p}
    BY Zenon, <1>1 DEF Lone
  <2>2. Cardinality({p}) = 1
    BY Zenon, FS_Singleton
  <2> QED
    BY <2>1, <2>2
<1>2. Cardinality({}) = 0
  BY FS_EmptySet
<1>3. MInv => Residency
  BY <1>1, <1>2, LonePlaces DEF Residency
<1> QED
  BY <1>3, InvariantMInv, PTL

=============================================================================
