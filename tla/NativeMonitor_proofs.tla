------------------------ MODULE NativeMonitor_proofs ------------------------
(***************************************************************************)
(* Proofs about NativeMonitor, for any set of threads and any calls.       *)
(***************************************************************************)
EXTENDS NativeMonitor, TLAPS

\* Unlinking an element leaves a sequence over the same set (IWait's removal from WaitSet).
LEMMA UnlinkType ==
  ASSUME NEW S, NEW s \in Seq(S), NEW i \in DOMAIN s
  PROVE  Unlink(s, i) \in Seq(S)
<1>1. i \in 1 .. Len(s) /\ Len(s) \in Nat
  OBVIOUS
<1>2. SubSeq(s, 1, i - 1) \in Seq(S)
  BY <1>1
<1>3. SubSeq(s, i + 1, Len(s)) \in Seq(S)
  BY <1>1
<1> QED
  BY <1>2, <1>3 DEF Unlink

\* Pushing an element on a list (AcquireOrPush, notify, IWait) leaves a list.
LEMMA PrependType ==
  ASSUME NEW S, NEW x \in S, NEW s \in Seq(S)
  PROVE  <<x>> \o s \in Seq(S)
<1>1. <<x>> \in Seq(S)
  OBVIOUS
<1> QED
  BY <1>1

\* The first and the rest of a list (EntryList, WaitSet) are over the set the list is over.
LEMMA HeadTail ==
  ASSUME NEW S, NEW s \in Seq(S), s # <<>>
  PROVE  Head(s) \in S /\ Tail(s) \in Seq(S)
  OBVIOUS

\* A list behind another one is numbered on from its end.
LEMMA ConcatIndex ==
  ASSUME NEW S, NEW s \in Seq(S), NEW r \in Seq(S)
  PROVE  /\ s \o r \in Seq(S) /\ Len(s \o r) = Len(s) + Len(r)
         /\ \A i \in 1..Len(s) + Len(r) : (s \o r)[i] = IF i <= Len(s) THEN s[i] ELSE r[i - Len(s)]
  OBVIOUS

\* Two lists one behind the other hold the elements of both.
LEMMA RangeConcat ==
  ASSUME NEW S, NEW s \in Seq(S), NEW r \in Seq(S)
  PROVE  Range(s \o r) = Range(s) \cup Range(r)
<1> DEFINE c == s \o r
<1>1. /\ DOMAIN c = 1..Len(s) + Len(r) /\ DOMAIN s = 1..Len(s) /\ DOMAIN r = 1..Len(r)
      /\ Len(s) \in Nat /\ Len(r) \in Nat
      /\ \A i \in 1..Len(s) : c[i] = s[i]
      /\ \A i \in 1..Len(r) : c[i + Len(s)] = r[i]
  OBVIOUS
<1> HIDE DEF c
<1>2. \A i \in 1..Len(s) + Len(r) : i \in 1..Len(s) \/ (i - Len(s) \in 1..Len(r) /\ c[i] = r[i - Len(s)])
  BY <1>1
<1>3. \A i \in 1..Len(r) : i + Len(s) \in 1..Len(s) + Len(r)
  BY <1>1
<1>4. Range(c) \subseteq Range(s) \cup Range(r)
  BY ZenonT(30), <1>1, <1>2 DEF Range
<1>5. Range(s) \cup Range(r) \subseteq Range(c)
  BY SMTT(30), <1>1, <1>3 DEF Range
<1> QED
  BY <1>4, <1>5 DEF c

-----------------------------------------------------------------------------
(* The type invariant in three parts, so that each obligation is about one. *)

PcType == pc \in [Threads -> Labels] /\ call \in [Threads -> EntryPoints \cup {"none"}]

DataType ==
  /\ LockByte \in BOOLEAN
  /\ cxq \in Seq(Threads)
  /\ EntryList \in Seq(Threads)
  /\ OnDeck \in Threads \cup {NULL, LBIT}
  /\ WaitSet \in Seq(Threads)
  /\ WaitLock \in Threads \cup {NULL}
  /\ Notified \in [Threads -> BOOLEAN]
  /\ Event \in [Threads -> {0, 1}]
  /\ w \in [Threads -> Threads \cup {NULL}]
  /\ List \in [Threads -> Seq(Threads)]

HandType ==
  \A t \in Threads : pc[t] \in {"unpark", "pass_OnDeck", "recheck", "push_cxq", "set_Notified"} => w[t] \in Threads

TypeParts == PcType /\ DataType /\ HandType

\* The three parts are the type invariant of the monitor's variables, before and after a step.
LEMMA TypeSplit == (TypeOK <=> TypeParts) /\ (TypeOK' <=> TypeParts')
  BY DEF TypeOK, TypeParts, PcType, DataType, HandType

\* The steps of ILock and jvm_raw_lock keep every variable in its type.
LEMMA LockStepType == ASSUME TypeOK, NEW t \in Threads, LockStep(t) PROVE TypeOK'
<1> PcType /\ DataType /\ HandType
  BY TypeSplit DEF TypeParts
<1> USE ConstantsAssumption DEF LockStep, At, Goto, ILock, reset, AcquireOrPush, await_OnDeck, OnDeck_LOOP,
                                ParkCommon, clear_OnDeck, TryLock, park
<1>1. <<t>> \o cxq \in Seq(Threads)
  BY Zenon, PrependType DEF DataType
<1>2. PcType'
  BY DEF PcType, Labels, ILockLabels, IUnlockLabels, notifyLabels, IWaitLabels
<1>3. DataType'
  <2>1. LockByte' \in BOOLEAN /\ OnDeck' \in Threads \cup {NULL, LBIT} /\ WaitLock' \in Threads \cup {NULL}
    BY Zenon DEF DataType, queueVars, waitVars
  <2>2. cxq' \in Seq(Threads)
    BY Zenon, <1>1 DEF DataType, queueVars
  <2>3. EntryList' \in Seq(Threads)
    BY Zenon DEF DataType, queueVars
  <2>4. WaitSet' \in Seq(Threads)
    BY Zenon DEF DataType, waitVars
  <2>5. Notified' \in [Threads -> BOOLEAN]
    BY Zenon DEF DataType, waitVars
  <2>6. Event' \in [Threads -> {0, 1}]
    BY Zenon DEF DataType
  <2>7. w' \in [Threads -> Threads \cup {NULL}]
    BY Zenon DEF DataType, localVars
  <2>8. List' \in [Threads -> Seq(Threads)]
    BY Zenon DEF DataType, localVars
  <2> QED
    BY Zenon, <2>1, <2>2, <2>3, <2>4, <2>5, <2>6, <2>7, <2>8 DEF DataType
<1>4. HandType'
  <2> SUFFICES ASSUME NEW u \in Threads, pc'[u] \in {"unpark", "pass_OnDeck", "recheck", "push_cxq", "set_Notified"}
               PROVE  w'[u] \in Threads
    BY Zenon DEF HandType
  <2> QED
    BY SMTT(30) DEF PcType, DataType, HandType, localVars
<1> QED
  BY Zenon, <1>2, <1>3, <1>4, TypeSplit DEF TypeParts

\* The steps of IUnlock keep every variable in its type.
LEMMA UnlockStepType == ASSUME TypeOK, NEW t \in Threads, UnlockStep(t) PROVE TypeOK'
<1> PcType /\ DataType /\ HandType
  BY TypeSplit DEF TypeParts
<1> USE ConstantsAssumption DEF UnlockStep, At, Goto, IUnlock, read_OnDeck, unpark, read_LockWord,
                                read_EntryList, Succession, select, pass_OnDeck, recheck, drain, set_EntryList,
                                Punt, resample, ReturnIUnlock
<1>1. EntryList # <<>> => Head(EntryList) \in Threads /\ Tail(EntryList) \in Seq(Threads)
  BY Zenon, HeadTail DEF DataType
<1>2. <<>> \in Seq(Threads)
  OBVIOUS
<1>3. PcType'
  BY DEF PcType, Labels, ILockLabels, IUnlockLabels, notifyLabels, IWaitLabels
<1>4. DataType'
  <2>1. LockByte' \in BOOLEAN /\ OnDeck' \in Threads \cup {NULL, LBIT} /\ WaitLock' \in Threads \cup {NULL}
    BY Zenon DEF DataType, queueVars, waitVars, HandType
  <2>2. cxq' \in Seq(Threads)
    BY Zenon, <1>2 DEF DataType, queueVars
  <2>3. EntryList' \in Seq(Threads)
    <3>1. \/ EntryList' = EntryList
          \/ EntryList # <<>> /\ EntryList' = Tail(EntryList)
          \/ EntryList' = List[t]
      BY Zenon DEF queueVars
    <3>2. EntryList \in Seq(Threads) /\ List[t] \in Seq(Threads)
      BY Zenon DEF DataType
    <3> QED
      BY Zenon, <1>1, <3>1, <3>2
  <2>4. WaitSet' \in Seq(Threads)
    BY Zenon DEF DataType, waitVars
  <2>5. Notified' \in [Threads -> BOOLEAN]
    BY Zenon DEF DataType, waitVars
  <2>6. Event' \in [Threads -> {0, 1}]
    BY Zenon DEF DataType, HandType
  <2>7. w' \in [Threads -> Threads \cup {NULL}]
    BY ZenonT(30), <1>1 DEF DataType, localVars, HandType
  <2>8. List' \in [Threads -> Seq(Threads)]
    BY Zenon, <1>2 DEF DataType, localVars
  <2> QED
    BY Zenon, <2>1, <2>2, <2>3, <2>4, <2>5, <2>6, <2>7, <2>8 DEF DataType
<1>5. HandType'
  <2> SUFFICES ASSUME NEW u \in Threads, pc'[u] \in {"unpark", "pass_OnDeck", "recheck", "push_cxq", "set_Notified"}
               PROVE  w'[u] \in Threads
    BY Zenon DEF HandType
  <2>1. CASE u = t
    <3>1. read_OnDeck(t) \/ select(t) \/ pass_OnDeck(t) \/ recheck(t)
      BY SMTT(30), <2>1 DEF PcType
    <3>2. CASE read_OnDeck(t)
      BY <2>1, <3>2 DEF PcType, DataType
    <3>3. CASE select(t)
      BY Zenon, <1>1, <2>1, <3>3 DEF PcType, DataType
    <3>4. CASE pass_OnDeck(t)
      BY Zenon, <2>1, <3>4 DEF HandType, localVars
    <3>5. CASE recheck(t)
      BY Zenon, <2>1, <3>5 DEF PcType, HandType
    <3> QED
      BY Zenon, <3>1, <3>2, <3>3, <3>4, <3>5
  <2>2. CASE u # t
    <3>1. pc'[u] = pc[u] /\ w'[u] = w[u]
      BY <2>2 DEF PcType, DataType, localVars
    <3> QED
      BY Zenon, <3>1 DEF HandType
  <2> QED
    BY Zenon, <2>1, <2>2
<1> QED
  BY Zenon, <1>3, <1>4, <1>5, TypeSplit DEF TypeParts

\* The steps of notify and notify_all keep every variable in its type.
LEMMA NotifyStepType == ASSUME TypeOK, NEW t \in Threads, NotifyStep(t) PROVE TypeOK'
<1> PcType /\ DataType /\ HandType
  BY TypeSplit DEF TypeParts
<1> USE ConstantsAssumption DEF NotifyStep, At, Goto, notify, push_cxq, set_Notified, notify_all, ReturnNotify
<1>1. WaitSet # <<>> => Head(WaitSet) \in Threads /\ Tail(WaitSet) \in Seq(Threads)
  BY HeadTail DEF DataType
<1>2. push_cxq(t) => <<w[t]>> \o cxq \in Seq(Threads)
  BY PrependType DEF DataType, HandType
<1>3. PcType'
  BY DEF PcType, Labels, ILockLabels, IUnlockLabels, notifyLabels, IWaitLabels
<1>4. DataType'
  <2>1. LockByte' \in BOOLEAN /\ OnDeck' \in Threads \cup {NULL, LBIT} /\ WaitLock' \in Threads \cup {NULL}
    BY Zenon DEF DataType, queueVars, waitVars
  <2>2. cxq' \in Seq(Threads)
    BY Zenon, <1>2 DEF DataType, queueVars
  <2>3. EntryList' \in Seq(Threads)
    BY Zenon DEF DataType, queueVars
  <2>4. WaitSet' \in Seq(Threads)
    BY Zenon, <1>1 DEF DataType, waitVars
  <2>5. Notified' \in [Threads -> BOOLEAN]
    BY Zenon DEF DataType, waitVars, HandType
  <2>6. Event' \in [Threads -> {0, 1}]
    BY Zenon DEF DataType
  <2>7. w' \in [Threads -> Threads \cup {NULL}]
    BY Zenon, <1>1 DEF DataType, localVars
  <2>8. List' \in [Threads -> Seq(Threads)]
    BY Zenon DEF DataType, localVars
  <2> QED
    BY Zenon, <2>1, <2>2, <2>3, <2>4, <2>5, <2>6, <2>7, <2>8 DEF DataType
<1>5. HandType'
  <2> SUFFICES ASSUME NEW u \in Threads, pc'[u] \in {"unpark", "pass_OnDeck", "recheck", "push_cxq", "set_Notified"}
               PROVE  w'[u] \in Threads
    BY DEF HandType
  <2> QED
    BY <1>1 DEF PcType, DataType, HandType, localVars
<1> QED
  BY Zenon, <1>3, <1>4, <1>5, TypeSplit DEF TypeParts

\* The steps of IWait keep every variable in its type.
LEMMA WaitStepType == ASSUME TypeOK, NEW t \in Threads, WaitStep(t) PROVE TypeOK'
<1> PcType /\ DataType /\ HandType
  BY TypeSplit DEF TypeParts
<1> USE ConstantsAssumption DEF WaitStep, At, Goto, IWait, add_WaitSet, wait_loop, Timeout, wait_done,
                                remove_WaitSet, reentry, TryLock
<1>1. <<t>> \o WaitSet \in Seq(Threads)
  BY Zenon, PrependType DEF DataType
<1>2. \A i \in DOMAIN WaitSet : Unlink(WaitSet, i) \in Seq(Threads)
  BY Zenon, UnlinkType DEF DataType
<1>3. PcType'
  BY DEF PcType, Labels, ILockLabels, IUnlockLabels, notifyLabels, IWaitLabels
<1>4. DataType'
  <2>1. LockByte' \in BOOLEAN /\ OnDeck' \in Threads \cup {NULL, LBIT} /\ WaitLock' \in Threads \cup {NULL}
    BY Zenon DEF DataType, queueVars, waitVars
  <2>2. cxq' \in Seq(Threads)
    BY Zenon DEF DataType, queueVars
  <2>3. EntryList' \in Seq(Threads)
    BY Zenon DEF DataType, queueVars
  <2>4. WaitSet' \in Seq(Threads)
    BY Zenon, <1>1, <1>2 DEF DataType, waitVars
  <2>5. Notified' \in [Threads -> BOOLEAN]
    BY Zenon DEF DataType, waitVars
  <2>6. Event' \in [Threads -> {0, 1}]
    BY Zenon DEF DataType
  <2>7. w' \in [Threads -> Threads \cup {NULL}]
    BY Zenon DEF DataType, localVars
  <2>8. List' \in [Threads -> Seq(Threads)]
    BY Zenon DEF DataType, localVars
  <2> QED
    BY Zenon, <2>1, <2>2, <2>3, <2>4, <2>5, <2>6, <2>7, <2>8 DEF DataType
<1>5. HandType'
  <2> SUFFICES ASSUME NEW u \in Threads, pc'[u] \in {"unpark", "pass_OnDeck", "recheck", "push_cxq", "set_Notified"}
               PROVE  w'[u] \in Threads
    BY Zenon DEF HandType
  <2> QED
    BY DEF PcType, DataType, HandType, localVars
<1> QED
  BY Zenon, <1>3, <1>4, <1>5, TypeSplit DEF TypeParts

\* A client's call of an entry point keeps every variable in its type.
LEMMA ClientType == ASSUME TypeOK, NEW t \in Threads, Client(t) PROVE TypeOK'
<1>0. PcType /\ DataType /\ HandType
  BY TypeSplit DEF TypeParts
<1>1. PICK from \in Labels, name \in EntryPoints, label \in {"ILock", "IUnlock", "notify", "IWait"} :
         Call(t, from, name, label)
  BY DEF Client, CallLock, CallUnlock, CallNotify, CallWait, EntryPoints, Labels
<1>2. PcType'
  BY <1>0, <1>1 DEF PcType, Call, Labels, ILockLabels, IUnlockLabels, notifyLabels, IWaitLabels
<1>3. DataType'
  BY <1>0, <1>1 DEF DataType, Call, queueVars, waitVars, localVars
<1>4. HandType'
  BY <1>0, <1>1 DEF PcType, HandType, Call, localVars
<1> QED
  BY <1>2, <1>3, <1>4, TypeSplit DEF TypeParts

\* A new monitor's words and the threads' locals have their types.
LEMMA InitType == Init => TypeOK
<1> SUFFICES ASSUME Init PROVE PcType /\ DataType /\ HandType
  BY TypeSplit DEF TypeParts
<1>1. PcType
  BY DEF Init, PcType, Labels
<1>2. DataType
  <2>1. <<>> \in Seq(Threads)
    OBVIOUS
  <2>2. List \in [Threads -> Seq(Threads)]
    BY <2>1 DEF Init
  <2> QED
    BY Zenon, <2>1, <2>2 DEF Init, DataType
<1>3. HandType
  BY DEF Init, HandType
<1> QED
  BY <1>1, <1>2, <1>3

\* Every step of the monitor keeps every variable in its type.
LEMMA NextType == TypeOK /\ [Next]_vars => TypeOK'
<1>1. ASSUME TypeOK, UNCHANGED vars PROVE TypeOK'
  BY <1>1 DEF TypeOK, vars
<1>2. ASSUME TypeOK, Next PROVE TypeOK'
  BY <1>2, ClientType, LockStepType, UnlockStepType, NotifyStepType, WaitStepType DEF Next, Step
<1> QED
  BY <1>1, <1>2

\* The words of a Monitor and the locals of the threads in its code keep their types; a
\* thread about to unpark, pass the baton or finish a notification holds a ParkEvent.
THEOREM TypeCorrect == Spec => []TypeOK
  BY InitType, NextType, PTL DEF Spec

-----------------------------------------------------------------------------
(* What one step does to the outer and to the inner lock. *)

Others(t) == \A u \in Threads \ {t} : pc'[u] = pc[u]

\* A step leaves the outer lock alone, takes it when it is free, or gives up its own hold;
\* the CAS of notify() writes the lock bit again while the notifier holds the lock.
OuterStep(t) ==
  \/ UNCHANGED LockByte /\ (Holds(t)' <=> Holds(t))
  \/ ~LockByte /\ LockByte' /\ Holds(t)'
  \/ Holds(t) /\ ~LockByte' /\ ~Holds(t)'
  \/ Holds(t) /\ LockByte' /\ Holds(t)'

Heir(t) == pc[t] \in {"OnDeck_LOOP", "OnDeck_park", "clear_OnDeck"}

\* A step leaves OnDeck alone, takes the inner lock when OnDeck is NULL, gives up its own
\* hold of it, or, as the heir that acquired the outer lock, clears OnDeck.
InnerStep(t) ==
  \/ UNCHANGED OnDeck /\ (HoldsInner(t)' <=> HoldsInner(t)) /\ (Heir(t)' => Heir(t) \/ OnDeck = t)
  \/ OnDeck = NULL /\ OnDeck' = LBIT /\ HoldsInner(t)' /\ ~Heir(t)'
  \/ HoldsInner(t) /\ OnDeck' \in Threads \cup {NULL} /\ ~HoldsInner(t)' /\ ~Heir(t)'
  \/ Heir(t) /\ OnDeck' = NULL /\ ~HoldsInner(t)' /\ ~Heir(t)'

Effect(t) == Others(t) /\ OuterStep(t) /\ InnerStep(t)

\* The effect of ILock and jvm_raw_lock on the two locks.
LEMMA LockEffect == ASSUME TypeOK, NEW t \in Threads, LockStep(t) PROVE Effect(t)
<1> USE DEF Effect, Others, OuterStep, InnerStep, Holds, HoldsInner, Heir, notifyLabels, At, Goto, queueVars
<1>0. PcType /\ HandType
  BY TypeSplit DEF TypeParts
<1> USE DEF PcType
<1>1. CASE ILock(t)
  BY <1>0, <1>1 DEF ILock, TryLock
<1>2. CASE reset(t)
  BY <1>0, <1>2 DEF reset
<1>3. CASE AcquireOrPush(t)
  BY <1>0, <1>3 DEF AcquireOrPush, TryLock
<1>4. CASE await_OnDeck(t)
  BY <1>0, <1>4 DEF await_OnDeck
<1>5. CASE OnDeck_LOOP(t)
  BY <1>0, <1>5 DEF OnDeck_LOOP, TryLock
<1>6. CASE ParkCommon(t)
  BY <1>0, <1>6 DEF ParkCommon, park
<1>7. CASE clear_OnDeck(t)
  BY <1>0, <1>7 DEF clear_OnDeck
<1> QED
  BY Zenon, <1>1, <1>2, <1>3, <1>4, <1>5, <1>6, <1>7 DEF LockStep

\* The effect of IUnlock on the two locks.
LEMMA UnlockEffect == ASSUME TypeOK, NEW t \in Threads, UnlockStep(t) PROVE Effect(t)
<1> USE DEF Effect, Others, OuterStep, InnerStep, Holds, HoldsInner, Heir, notifyLabels, At, Goto, queueVars
<1>0. PcType /\ HandType
  BY TypeSplit DEF TypeParts
<1> USE DEF PcType
<1>1. CASE IUnlock(t)
  BY <1>0, <1>1 DEF IUnlock
<1>2. CASE read_OnDeck(t)
  BY <1>0, <1>2 DEF read_OnDeck, ReturnIUnlock
<1>3. CASE unpark(t)
  BY <1>0, <1>3 DEF unpark, ReturnIUnlock
<1>4. CASE read_LockWord(t)
  BY <1>0, <1>4 DEF read_LockWord, ReturnIUnlock
<1>5. CASE read_EntryList(t)
  BY <1>0, <1>5 DEF read_EntryList, ReturnIUnlock
<1>6. CASE Succession(t)
  BY <1>0, <1>6 DEF Succession, ReturnIUnlock
<1>7. CASE select(t)
  BY <1>0, <1>7 DEF select
<1>8. CASE pass_OnDeck(t)
  BY <1>0, <1>8 DEF pass_OnDeck, HandType
<1>9. CASE recheck(t)
  BY <1>0, <1>9 DEF recheck, ReturnIUnlock
<1>10. CASE drain(t)
  BY <1>0, <1>10 DEF drain
<1>11. CASE set_EntryList(t)
  BY <1>0, <1>11 DEF set_EntryList
<1>12. CASE Punt(t)
  BY <1>0, <1>12 DEF Punt
<1>13. CASE resample(t)
  BY <1>0, <1>13 DEF resample, ReturnIUnlock
<1> QED
  BY Zenon, <1>1, <1>2, <1>3, <1>4, <1>5, <1>6, <1>7, <1>8, <1>9, <1>10, <1>11, <1>12, <1>13 DEF UnlockStep

\* The effect of notify and notify_all on the two locks.
LEMMA NotifyEffect == ASSUME TypeOK, NEW t \in Threads, NotifyStep(t) PROVE Effect(t)
<1> USE DEF Effect, Others, OuterStep, InnerStep, Holds, HoldsInner, Heir, notifyLabels, At, Goto, queueVars
<1>0. PcType /\ HandType
  BY TypeSplit DEF TypeParts
<1> USE DEF PcType
<1>1. CASE notify(t)
  BY <1>0, <1>1 DEF notify, ReturnNotify
<1>2. CASE push_cxq(t)
  BY <1>0, <1>2 DEF push_cxq
<1>3. CASE set_Notified(t)
  BY <1>0, <1>3 DEF set_Notified, ReturnNotify
<1>4. CASE notify_all(t)
  BY <1>0, <1>4 DEF notify_all
<1> QED
  BY Zenon, <1>1, <1>2, <1>3, <1>4 DEF NotifyStep

\* The effect of IWait on the two locks.
LEMMA WaitEffect == ASSUME TypeOK, NEW t \in Threads, WaitStep(t) PROVE Effect(t)
<1> USE DEF Effect, Others, OuterStep, InnerStep, Holds, HoldsInner, Heir, notifyLabels, At, Goto, queueVars
<1>0. PcType /\ HandType
  BY TypeSplit DEF TypeParts
<1> USE DEF PcType
<1>1. CASE IWait(t)
  BY <1>0, <1>1 DEF IWait
<1>2. CASE add_WaitSet(t)
  BY <1>0, <1>2 DEF add_WaitSet
<1>3. CASE wait_loop(t)
  BY <1>0, <1>3 DEF wait_loop
<1>4. CASE Timeout(t)
  BY <1>0, <1>4 DEF Timeout
<1>5. CASE wait_done(t)
  BY <1>0, <1>5 DEF wait_done
<1>6. CASE remove_WaitSet(t)
  BY <1>0, <1>6 DEF remove_WaitSet
<1>7. CASE reentry(t)
  BY <1>0, <1>7 DEF reentry, TryLock
<1> QED
  BY Zenon, <1>1, <1>2, <1>3, <1>4, <1>5, <1>6, <1>7 DEF WaitStep

\* Calling an entry point changes neither lock.
LEMMA ClientEffect == ASSUME TypeOK, NEW t \in Threads, Client(t) PROVE Effect(t)
<1>0. PcType
  BY TypeSplit DEF TypeParts
<1>1. PICK from \in {"idle", "cs"}, name \in EntryPoints, label \in {"ILock", "IUnlock", "notify", "IWait"} :
         Call(t, from, name, label) /\ (from = "idle" <=> label = "ILock")
  BY DEF Client, CallLock, CallUnlock, CallNotify, CallWait, EntryPoints
<1>2. Others(t)
  BY <1>0, <1>1 DEF Others, Call, PcType
<1>3. OuterStep(t)
  BY <1>0, <1>1 DEF OuterStep, Holds, notifyLabels, Call, At, PcType
<1>4. InnerStep(t)
  BY <1>0, <1>1 DEF InnerStep, HoldsInner, Heir, Call, At, PcType, queueVars
<1> QED
  BY <1>2, <1>3, <1>4 DEF Effect

-----------------------------------------------------------------------------
Locks == TypeOK /\ MutualExclusion /\ InnerLock /\ OnDeckStays

\* A new monitor is free and nobody is OnDeck.
LEMMA InitLocks == Init => Locks
<1> SUFFICES ASSUME Init PROVE MutualExclusion /\ InnerLock /\ OnDeckStays
  BY InitType DEF Locks
<1>1. LockByte = FALSE /\ OnDeck = NULL /\ \A t \in Threads : pc[t] = "idle"
  BY DEF Init
<1>2. \A t \in Threads : ~Holds(t) /\ ~HoldsInner(t)
  BY <1>1 DEF Holds, HoldsInner, notifyLabels
<1> QED
  BY <1>1, <1>2, ConstantsAssumption DEF MutualExclusion, InnerLock, OnDeckStays

\* A step with these effects keeps both locks exclusive and an heir OnDeck.
LEMMA EffectLocks == ASSUME Locks, NEW t \in Threads, Effect(t) PROVE MutualExclusion' /\ InnerLock' /\ OnDeckStays'
<1> USE DEF Effect
<1>1. \A u \in Threads \ {t} : (Holds(u)' <=> Holds(u)) /\ (HoldsInner(u)' <=> HoldsInner(u)) /\ (Heir(u)' <=> Heir(u))
  BY DEF Others, Holds, HoldsInner, Heir
<1>2. OnDeckStays <=> \A u \in Threads : Heir(u) => OnDeck = u
  BY DEF OnDeckStays, Heir
<1>3. OnDeckStays' <=> \A u \in Threads : Heir(u)' => OnDeck' = u
  BY DEF OnDeckStays, Heir
<1>4. MutualExclusion'
  <2> USE DEF Locks, MutualExclusion, TypeOK
  <2>1. \A u, v \in Threads : Holds(u)' /\ Holds(v)' => u = v
    BY <1>1 DEF OuterStep
  <2>2. LockByte' => \E u \in Threads : Holds(u)'
    BY Zenon, <1>1 DEF OuterStep
  <2>3. ASSUME NEW u \in Threads, Holds(u)' PROVE LockByte'
    <3>1. CASE u = t
      BY <2>3, <3>1 DEF OuterStep
    <3>2. CASE u # t
      BY <1>1, <2>3, <3>2 DEF OuterStep
    <3> QED
      BY <3>1, <3>2
  <2> QED
    BY <2>1, <2>2, <2>3
<1>5. Heir(t) => ~HoldsInner(t)
  BY DEF Heir, HoldsInner
<1>6. InnerLock'
  <2> USE ConstantsAssumption, <1>1, <1>2, <1>5 DEF Locks, InnerLock, InnerStep
  <2>1. \A u, v \in Threads : HoldsInner(u)' /\ HoldsInner(v)' => u = v
    OBVIOUS
  <2>2. OnDeck' = LBIT => \E u \in Threads : HoldsInner(u)'
    OBVIOUS
  <2>3. ASSUME NEW u \in Threads, HoldsInner(u)' PROVE OnDeck' = LBIT
    BY <2>3
  <2> QED
    BY <2>1, <2>2, <2>3
<1>7. OnDeckStays'
  <2> SUFFICES ASSUME NEW u \in Threads, Heir(u)' PROVE OnDeck' = u
    BY <1>3
  <2>1. CASE u = t
    BY <2>1, <1>2 DEF Locks, InnerStep
  <2>2. CASE u # t
    BY <2>2, <1>1, <1>2, ConstantsAssumption DEF Locks, InnerLock, InnerStep
  <2> QED
    BY <2>1, <2>2
<1> QED
  BY <1>4, <1>6, <1>7

\* The strengthened invariant is kept by every step.
LEMMA NextLocks == Locks /\ [Next]_vars => Locks'
<1>1. ASSUME Locks, UNCHANGED vars PROVE MutualExclusion' /\ InnerLock' /\ OnDeckStays'
  BY <1>1 DEF Locks, MutualExclusion, InnerLock, OnDeckStays, Holds, HoldsInner, vars
<1>2. ASSUME Locks, NEW t \in Threads, Client(t) \/ Step(t) PROVE Effect(t)
  BY <1>2, ClientEffect, LockEffect, UnlockEffect, NotifyEffect, WaitEffect DEF Step, Locks
<1>3. ASSUME Locks, Next PROVE MutualExclusion' /\ InnerLock' /\ OnDeckStays'
  BY <1>2, <1>3, EffectLocks DEF Next
<1> QED
  BY <1>1, <1>3, NextType DEF Locks

\* The strengthened invariant holds in every state a Monitor reaches.
LEMMA InvariantLocks == Spec => []Locks
  BY InitLocks, NextLocks, PTL DEF Spec

\* Between the CAS that acquires a Monitor (TryLock, TryFast, TrySpin, AcquireOrPush, the
\* loops of ILock and IWait) and the store of IUnlock, no other thread is there.
THEOREM MonitorExcludes == Spec => []MutualExclusion
<1>1. Locks => MutualExclusion
  BY DEF Locks
<1> QED
  BY <1>1, InvariantLocks, PTL

\* One exiting thread at a time manipulates EntryList and drains cxq in IUnlock.
THEOREM SuccessionExcludes == Spec => []InnerLock
<1>1. Locks => InnerLock
  BY DEF Locks
<1> QED
  BY <1>1, InvariantLocks, PTL

\* The thread in ILock's OnDeck_LOOP stays OnDeck until it clears the word itself.
THEOREM HeirStays == Spec => []OnDeckStays
<1>1. Locks => OnDeckStays
  BY DEF Locks
<1> QED
  BY <1>1, InvariantLocks, PTL

-----------------------------------------------------------------------------
(* Where the ParkEvents of the waiting threads are. *)

\* No thread is on the list twice.
Once(s) == \A i, j \in DOMAIN s : s[i] = s[j] => i = j

\* The threads in the hands of those at a label, and those in a detached segment of cxq.
HandsOf(at, hand, label) == {x \in Threads : \E u \in Threads : at[u] = label /\ hand[u] = x}
SegmentsOf(segment) == {x \in Threads : \E u \in Threads : x \in Range(segment[u])}

InHands(label) == HandsOf(pc, w, label)
Detached == SegmentsOf(List)

\* Queued for the outer lock, on the way from cxq over EntryList to OnDeck.
Queued(t) ==
  t \in Range(cxq) \/ t \in Range(EntryList) \/ t \in Detached \/ t \in InHands("pass_OnDeck") \/ OnDeck = t

\* Waiting for a notification: on WaitSet, or taken off it and not yet pushed on cxq.
Unnotified(t) == t \in Range(WaitSet) \/ t \in InHands("push_cxq")

\* In IWait, after the thread has put itself on WaitSet and before it knows why it woke up.
Sleeping(t) ==
  \/ pc[t] \in {"wait_loop", "wait_park", "wait_done", "remove_WaitSet"}
  \/ pc[t] \in IUnlockLabels /\ call[t] # "unlock"

\* Queueing in ILock, jvm_raw_lock or at the end of IWait.
Queueing(t) ==
  pc[t] \in {"await_OnDeck", "await_park", "OnDeck_LOOP", "OnDeck_park", "clear_OnDeck", "reentry", "reentry_park"}

\* No thread is in two places.
OnePlace(t) ==
  /\ t \in Range(cxq) => t \notin Range(EntryList) /\ t \notin Detached /\ t \notin InHands("pass_OnDeck") /\ OnDeck # t
  /\ t \in Range(EntryList) => t \notin Detached /\ t \notin InHands("pass_OnDeck") /\ OnDeck # t
  /\ Queued(t) => ~Unnotified(t)
  /\ t \in Range(WaitSet) => t \notin InHands("push_cxq")

\* What a thread's program counter says about its place, and a notifier about its waiter.
Flow(t) ==
  /\ Queueing(t) => Queued(t)
  /\ Sleeping(t) => Queued(t) \/ Unnotified(t)
  /\ Queued(t) => Queueing(t) \/ Sleeping(t)
  /\ Unnotified(t) => Sleeping(t) /\ ~Notified[t]
  /\ Sleeping(t) /\ Queued(t) /\ ~Notified[t] => t \in InHands("set_Notified")
  /\ t \in InHands("set_Notified") => Sleeping(t) /\ Queued(t) /\ ~Notified[t]
  /\ pc[t] = "add_WaitSet" => ~Notified[t]
  /\ pc[t] \in {"IWait", "add_WaitSet"} => call[t] # "unlock"

\* The words that the inner lock and WaitLock guard.
Guarded(t) ==
  /\ List[t] # <<>> <=> pc[t] = "set_EntryList"
  /\ pc[t] \in {"drain", "set_EntryList", "Punt"} => EntryList = <<>>
  /\ WaitLock = t <=> pc[t] \in {"push_cxq", "set_Notified"}
  /\ Once(List[t])

Placed ==
  /\ Once(cxq) /\ Once(EntryList) /\ Once(WaitSet)
  /\ \A t \in Threads : OnePlace(t) /\ Flow(t) /\ Guarded(t)

\* The lock is free and a thread is OnDeck: it is awake or someone is about to wake it up.
HeirAwake ==
  ~LockByte /\ OnDeck \in Threads =>
    \/ ~Parked(OnDeck)
    \/ \E u \in Threads : pc[u] = "read_OnDeck" \/ (pc[u] \in {"recheck", "unpark"} /\ w[u] = OnDeck)

\* A thread on its way out that will see to the succession.
HasDuty(u) ==
  \/ pc[u] \in {"read_OnDeck", "read_LockWord", "Succession"}
  \/ pc[u] = "read_EntryList" /\ EntryList # <<>>
  \/ pc[u] = "resample" /\ cxq # <<>>

\* The lock is free, nobody is OnDeck and threads are queued: some thread has the duty.
DutyTaken ==
  ~LockByte /\ OnDeck = NULL /\ (cxq # <<>> \/ EntryList # <<>>) => \E u \in Threads : HasDuty(u)

MInv == Locks /\ Placed /\ HeirAwake /\ DutyTaken

\* A push at the head of a list adds the thread, which was not on it.
LEMMA PrependOnce ==
  ASSUME NEW S, NEW x \in S, NEW s \in Seq(S)
  PROVE  /\ Range(<<x>> \o s) = Range(s) \cup {x}
         /\ Once(s) /\ x \notin Range(s) => Once(<<x>> \o s)
<1> DEFINE r == <<x>> \o s
<1>1. /\ DOMAIN r = 1..Len(s) + 1 /\ DOMAIN s = 1..Len(s) /\ Len(s) \in Nat
      /\ r[1] = x /\ \A i \in 1..Len(s) : r[i + 1] = s[i]
  OBVIOUS
<1> HIDE DEF r
<1>2. \A i \in 1..Len(s) + 1 : i = 1 \/ (i - 1 \in 1..Len(s) /\ r[i] = s[i - 1])
  BY <1>1
<1>3. Range(r) = Range(s) \cup {x}
  <2> DEFINE o == <<x>>
  <2>1. o \in Seq(S) /\ Range(o) = {x} /\ r = o \o s
    BY DEF Range, r
  <2> HIDE DEF o
  <2>2. Range(o \o s) = Range(o) \cup Range(s)
    BY <2>1, RangeConcat
  <2> QED
    BY Zenon, <2>1, <2>2
<1>4. ASSUME Once(s), x \notin Range(s), NEW i \in 1..Len(s) + 1, NEW j \in 1..Len(s) + 1, r[i] = r[j]
      PROVE  i = j
  <2>1. \A k \in 1..Len(s) : s[k] # x
    BY <1>1, <1>4 DEF Range
  <2>2. CASE i = 1 \/ j = 1
    BY <1>1, <1>2, <1>4, <2>1, <2>2
  <2>3. CASE i # 1 /\ j # 1
    <3>1. i - 1 = j - 1
      BY <1>1, <1>2, <1>4, <2>3 DEF Once
    <3> QED
      BY <3>1
  <2> QED
    BY <2>2, <2>3
<1> QED
  BY Zenon, <1>1, <1>3, <1>4 DEF Once, r

\* Taking the head of a list takes that thread off it.
LEMMA TailOnce ==
  ASSUME NEW S, NEW s \in Seq(S), s # <<>>, Once(s)
  PROVE  Head(s) \in Range(s) /\ Range(Tail(s)) = Range(s) \ {Head(s)} /\ Once(Tail(s))
<1> DEFINE r == Tail(s)
<1>1. /\ DOMAIN s = 1..Len(s) /\ DOMAIN r = 1..Len(s) - 1 /\ Len(s) \in Nat /\ Len(s) > 0
      /\ Head(s) = s[1] /\ \A i \in 1..Len(s) - 1 : r[i] = s[i + 1]
  OBVIOUS
<1> HIDE DEF r
<1>2. \A i \in DOMAIN s : i = 1 \/ (i - 1 \in DOMAIN r /\ r[i - 1] = s[i])
  BY <1>1
<1>3. 1 \in DOMAIN s /\ \A i \in DOMAIN r : i + 1 \in DOMAIN s /\ i + 1 # 1 /\ r[i] = s[i + 1]
  BY <1>1
<1>4. ASSUME NEW i \in DOMAIN r, NEW j \in DOMAIN r, r[i] = r[j]
      PROVE  i = j
  <2>1. i + 1 = j + 1
    BY Zenon, <1>3, <1>4 DEF Once
  <2> QED
    BY <1>1, <2>1
<1>5. Head(s) \in Range(s) /\ Range(r) = Range(s) \ {Head(s)}
  <2>0. Head(s) = s[1]
    BY <1>1
  <2>1. Head(s) \in Range(s) /\ Range(r) \subseteq Range(s)
    <3>1. \A i \in DOMAIN r : r[i] \in Range(s)
      BY Zenon, <1>3 DEF Range
    <3> QED
      BY Zenon, <2>0, <1>3, <3>1 DEF Range
  <2>2. Head(s) \notin Range(r)
    <3>1. ASSUME NEW i \in DOMAIN r, r[i] = s[1] PROVE FALSE
      BY Zenon, <1>3, <3>1 DEF Once
    <3> QED
      BY Zenon, <2>0, <3>1 DEF Range
  <2>3. Range(s) \subseteq Range(r) \cup {Head(s)}
    BY Zenon, <2>0, <1>2 DEF Range
  <2> QED
    BY Zenon, <2>1, <2>2, <2>3
<1> QED
  BY Zenon, <1>4, <1>5 DEF Once, r

\* Unlinking takes one thread off a list.
LEMMA UnlinkOnce ==
  ASSUME NEW S, NEW s \in Seq(S), NEW k \in DOMAIN s, Once(s)
  PROVE  Range(Unlink(s, k)) = Range(s) \ {s[k]} /\ Once(Unlink(s, k))
<1> DEFINE a == SubSeq(s, 1, k - 1)
           b == SubSeq(s, k + 1, Len(s))
           r == a \o b
<1>1. DOMAIN s = 1..Len(s) /\ Len(s) \in Nat /\ k \in 1..Len(s)
  OBVIOUS
<1>2. a \in Seq(S) /\ Len(a) = k - 1 /\ \A i \in 1..k - 1 : a[i] = s[i]
  BY <1>1
<1>3. b \in Seq(S) /\ Len(b) = Len(s) - k /\ \A i \in 1..Len(s) - k : b[i] = s[k + i]
  BY SMTT(30), <1>1
<1> HIDE DEF a, b
<1>4. /\ r \in Seq(S) /\ Len(r) = Len(a) + Len(b)
      /\ \A i \in 1..Len(a) + Len(b) : r[i] = IF i <= Len(a) THEN a[i] ELSE b[i - Len(a)]
  BY Zenon, <1>2, <1>3, ConcatIndex
<1> HIDE DEF r
<1>5. \A i \in 1..Len(s) - 1 : r[i] = IF i < k THEN s[i] ELSE s[i + 1]
  <2> SUFFICES ASSUME NEW i \in 1..Len(s) - 1
               PROVE  r[i] = IF i < k THEN s[i] ELSE s[i + 1]
    OBVIOUS
  <2>0. Len(a) = k - 1 /\ i \in 1..Len(a) + Len(b)
    BY <1>1, <1>2, <1>3
  <2>1. r[i] = IF i <= k - 1 THEN a[i] ELSE b[i - (k - 1)]
    BY Zenon, <1>4, <2>0
  <2>2. CASE i < k
    BY <1>1, <1>2, <2>1, <2>2
  <2>3. CASE i >= k
    <3>1. i - (k - 1) \in 1..Len(s) - k /\ k + (i - (k - 1)) = i + 1 /\ ~(i <= k - 1)
      BY <1>1, <2>3
    <3> QED
      BY <1>3, <2>1, <2>3, <3>1
  <2> QED
    BY <1>1, <2>2, <2>3
<1> DEFINE f(i) == IF i < k THEN i ELSE i + 1
<1>6. \A i \in 1..Len(s) - 1 : f(i) \in 1..Len(s) /\ f(i) # k /\ r[i] = s[f(i)]
  BY <1>1, <1>5
<1>7. \A i, j \in 1..Len(s) - 1 : f(i) = f(j) => i = j
  BY <1>1
<1>8. \A i \in 1..Len(s) : i # k => \E j \in 1..Len(s) - 1 : f(j) = i
  <2> SUFFICES ASSUME NEW i \in 1..Len(s), i # k
               PROVE  \E j \in 1..Len(s) - 1 : f(j) = i
    OBVIOUS
  <2>1. CASE i < k
    BY <1>1, <2>1
  <2>2. CASE i > k
    <3>1. i - 1 \in 1..Len(s) - 1 /\ f(i - 1) = i
      BY <1>1, <2>2
    <3> QED
      BY <3>1
  <2> QED
    BY <1>1, <2>1, <2>2
<1>9. DOMAIN r = 1..Len(s) - 1
  BY <1>1, <1>2, <1>3, <1>4
<1> HIDE DEF f
<1>10. Range(r) \subseteq Range(s) \ {s[k]}
  BY <1>1, <1>6, <1>9 DEF Range, Once
<1>11. Range(s) \ {s[k]} \subseteq Range(r)
  <2> SUFFICES ASSUME NEW i \in 1..Len(s), i # k
               PROVE  s[i] \in Range(r)
    BY <1>1 DEF Range
  <2>1. PICK j \in 1..Len(s) - 1 : f(j) = i
    BY <1>8
  <2>2. r[j] = s[i]
    BY <1>6, <2>1
  <2> QED
    BY <1>9, <2>2 DEF Range
<1>12. Once(r)
  BY <1>1, <1>6, <1>7, <1>9 DEF Once
<1>13. r = Unlink(s, k)
  BY DEF Unlink, r, a, b
<1> QED
  BY Zenon, <1>10, <1>11, <1>12, <1>13

\* An empty list holds nobody, and only an empty one does.
LEMMA EmptyOnce ==
  /\ Range(<<>>) = {} /\ Once(<<>>)
  /\ \A S : \A s \in Seq(S) : s # <<>> => \E x \in S : x \in Range(s)
<1>1. Range(<<>>) = {} /\ Once(<<>>)
  BY DEF Range, Once
<1>2. ASSUME NEW S, NEW s \in Seq(S), s # <<>> PROVE \E x \in S : x \in Range(s)
  <2>1. 1 \in DOMAIN s /\ s[1] \in S
    BY <1>2
  <2> QED
    BY <2>1 DEF Range
<1> QED
  BY <1>1, <1>2

-----------------------------------------------------------------------------
\* With one detached segment, the threads on it are those in any.
LEMMA SegmentsOne ==
  ASSUME NEW segment, NEW t \in Threads, \A u \in Threads \ {t} : Range(segment[u]) = {}
  PROVE  \A x \in Threads : x \in SegmentsOf(segment) <=> x \in Range(segment[t])
  BY DEF SegmentsOf

SamePlace(x) ==
  /\ x \in Range(cxq)' <=> x \in Range(cxq)
  /\ x \in Range(EntryList)' <=> x \in Range(EntryList)
  /\ x \in Range(WaitSet)' <=> x \in Range(WaitSet)
  /\ x \in Detached' <=> x \in Detached
  /\ x \in InHands("pass_OnDeck")' <=> x \in InHands("pass_OnDeck")
  /\ x \in InHands("push_cxq")' <=> x \in InHands("push_cxq")
  /\ x \in InHands("set_Notified")' <=> x \in InHands("set_Notified")
  /\ OnDeck' = x <=> OnDeck = x

Kept(x) == pc'[x] = pc[x] /\ call'[x] = call[x] /\ (Notified'[x] <=> Notified[x])

\* A thread that neither moves nor is moved stays as it is.
LEMMA StandsStill ==
  ASSUME NEW x \in Threads, OnePlace(x), Flow(x), SamePlace(x), Kept(x)
  PROVE  OnePlace(x)' /\ Flow(x)'
<1>1. /\ Queued(x)' <=> Queued(x)
      /\ Unnotified(x)' <=> Unnotified(x)
  BY DEF SamePlace, Queued, Unnotified
<1>2. /\ Sleeping(x)' <=> Sleeping(x)
      /\ Queueing(x)' <=> Queueing(x)
  BY DEF Kept, Sleeping, Queueing
<1>3. OnePlace(x)'
  BY <1>1 DEF OnePlace, SamePlace
<1>4. Flow(x)'
  BY Zenon, <1>1, <1>2 DEF Flow, SamePlace, Kept
<1> QED
  BY <1>3, <1>4

\* Outside the inner lock no thread is between EntryList and OnDeck.
LEMMA OutsideInner ==
  ASSUME Locks, Placed
  PROVE  /\ \A u \in Threads : pc[u] # "set_EntryList" => Range(List[u]) = {}
         /\ (\A u \in Threads : pc[u] # "set_EntryList") => Detached = {}
         /\ OnDeck # LBIT => Detached = {} /\ InHands("pass_OnDeck") = {}
<1>1. \A u \in Threads : pc[u] # "set_EntryList" => Range(List[u]) = {}
  BY EmptyOnce DEF Placed, Guarded
<1>2. (\A u \in Threads : pc[u] # "set_EntryList") => Detached = {}
  BY <1>1 DEF Detached, SegmentsOf
<1>3. ASSUME OnDeck # LBIT PROVE \A u \in Threads : pc[u] \notin {"set_EntryList", "pass_OnDeck"}
  BY <1>3 DEF Locks, InnerLock, HoldsInner
<1>4. ASSUME OnDeck # LBIT PROVE InHands("pass_OnDeck") = {}
  BY <1>3, <1>4 DEF InHands, HandsOf
<1> QED
  BY <1>1, <1>2, <1>3, <1>4

HandLabels == {"pass_OnDeck", "push_cxq", "set_Notified", "set_EntryList"}

\* The step of a thread that moves no ParkEvent: at most the thread itself goes on from
\* sleeping to queueing, having been notified.
QuietStep(t) ==
  /\ UNCHANGED <<cxq, EntryList, WaitSet, WaitLock, Notified, List>>
  /\ \A x \in Threads : OnDeck' = x <=> OnDeck = x
  /\ \A u \in Threads \ {t} : pc'[u] = pc[u] /\ call'[u] = call[u] /\ w'[u] = w[u]
  /\ pc[t] \notin HandLabels /\ pc'[t] \notin HandLabels
  /\ pc'[t] \in {"drain", "Punt"} => EntryList = <<>>
  /\ \/ (Sleeping(t)' <=> Sleeping(t)) /\ (Queueing(t)' <=> Queueing(t))
     \/ Sleeping(t) /\ Notified[t] /\ ~Sleeping(t)' /\ Queueing(t)'
  /\ pc'[t] # "add_WaitSet"
  /\ pc'[t] = "IWait" => call'[t] # "unlock"

\* Such a step leaves every ParkEvent in its place.
LEMMA QuietKeeps ==
  ASSUME Placed, NEW t \in Threads, QuietStep(t)
  PROVE  Placed'
<1> OnePlace(t) /\ Flow(t) /\ Guarded(t)
  BY DEF Placed
<1>1. \A label \in {"pass_OnDeck", "push_cxq", "set_Notified"} : InHands(label)' = InHands(label)
  <2> SUFFICES ASSUME NEW label \in {"pass_OnDeck", "push_cxq", "set_Notified"}
               PROVE  InHands(label)' = InHands(label)
    BY Zenon
  <2>1. pc[t] # label /\ pc'[t] # label /\ \A u \in Threads \ {t} : pc'[u] = pc[u] /\ w'[u] = w[u]
    BY Zenon DEF QuietStep, HandLabels
  <2> QED
    BY <2>1 DEF InHands, HandsOf
<1>2. \A x \in Threads : SamePlace(x)
  BY Zenon, <1>1 DEF QuietStep, SamePlace, Detached
<1>3. \A x \in Threads \ {t} : OnePlace(x)' /\ Flow(x)'
  BY Zenon, <1>2, StandsStill DEF QuietStep, Placed, Kept
<1>4. /\ Queued(t)' <=> Queued(t)
      /\ Unnotified(t)' <=> Unnotified(t)
  BY <1>2 DEF SamePlace, Queued, Unnotified
<1>5. OnePlace(t)'
  BY <1>2, <1>4 DEF OnePlace, SamePlace
<1>6. Flow(t)'
  BY Zenon, <1>2, <1>4 DEF Flow, SamePlace, QuietStep
<1>7. \A x \in Threads : Guarded(x)'
  <2>1. UNCHANGED <<EntryList, WaitLock, List>> /\ \A u \in Threads \ {t} : pc'[u] = pc[u]
    BY DEF QuietStep
  <2>2. pc[t] \notin HandLabels /\ pc'[t] \notin HandLabels /\ (pc'[t] \in {"drain", "Punt"} => EntryList = <<>>)
    BY DEF QuietStep
  <2>3. Guarded(t)'
    BY <2>1, <2>2 DEF Guarded, HandLabels
  <2>4. \A x \in Threads : Guarded(x)
    BY DEF Placed
  <2>5. ASSUME NEW x \in Threads \ {t} PROVE Guarded(x)'
    BY SMTT(30), <2>1, <2>4 DEF Guarded
  <2> QED
    BY SMTT(30), <2>3, <2>5
<1>8. Once(cxq)' /\ Once(EntryList)' /\ Once(WaitSet)'
  BY DEF QuietStep, Placed
<1> QED
  BY <1>3, <1>5, <1>6, <1>7, <1>8 DEF Placed

Typing ==
  /\ pc = [u \in Threads |-> pc[u]] /\ call = [u \in Threads |-> call[u]] /\ w = [u \in Threads |-> w[u]]
  /\ Notified = [u \in Threads |-> Notified[u]] /\ List = [u \in Threads |-> List[u]]
  /\ cxq \in Seq(Threads) /\ EntryList \in Seq(Threads) /\ WaitSet \in Seq(Threads)
  /\ LBIT \notin Threads /\ NULL \notin Threads /\ LBIT # NULL

\* The types that the steps below need.
LEMMA LocksTyping == Locks => Typing
  BY ConstantsAssumption DEF Locks, TypeOK, Typing

\* A step of ILock or jvm_raw_lock that finds the lock free or parks moves no ParkEvent.
LEMMA LockQuiet ==
  ASSUME Typing, Locks, NEW t \in Threads,
         ILock(t) \/ reset(t) \/ await_OnDeck(t) \/ OnDeck_LOOP(t) \/ ParkCommon(t)
  PROVE  QuietStep(t)
<1> USE DEF Typing, QuietStep, HandLabels, Sleeping, Queueing, IUnlockLabels, At, Goto, queueVars, waitVars, localVars
<1>1. CASE ILock(t)
  BY <1>1 DEF ILock, TryLock
<1>2. CASE reset(t)
  BY <1>2 DEF reset
<1>3. CASE await_OnDeck(t)
  BY <1>3 DEF await_OnDeck
<1>4. CASE OnDeck_LOOP(t)
  BY Zenon, <1>4 DEF OnDeck_LOOP, TryLock
<1>5. CASE ParkCommon(t)
  BY <1>5 DEF ParkCommon, park
<1> QED
  BY Zenon, <1>1, <1>2, <1>3, <1>4, <1>5

\* A step of IUnlock that does not touch EntryList, cxq or OnDeck's thread moves no ParkEvent.
LEMMA UnlockQuiet ==
  ASSUME Typing, Locks, Placed, NEW t \in Threads,
         \/ IUnlock(t) \/ read_OnDeck(t) \/ unpark(t) \/ read_LockWord(t) \/ read_EntryList(t) \/ Succession(t)
         \/ recheck(t) \/ Punt(t) \/ resample(t)
  PROVE  QuietStep(t)
<1> USE DEF Typing, QuietStep, HandLabels, Sleeping, Queueing, IUnlockLabels, At, Goto, ReturnIUnlock, queueVars,
            waitVars, localVars
<1>1. CASE IUnlock(t)
  BY SMTT(30), <1>1 DEF IUnlock
<1>2. CASE read_OnDeck(t)
  BY <1>2 DEF read_OnDeck
<1>3. CASE unpark(t)
  BY Zenon, <1>3 DEF unpark
<1>4. CASE read_LockWord(t)
  BY SMTT(30), <1>4 DEF read_LockWord
<1>5. CASE read_EntryList(t)
  BY SMTT(30), <1>5 DEF read_EntryList
<1>6. CASE Succession(t)
  BY SMTT(30), <1>6 DEF Succession
<1>7. CASE recheck(t)
  BY SMTT(30), <1>7 DEF recheck
<1>8. CASE Punt(t)
  <2>1. OnDeck = LBIT
    BY SMTT(30), <1>8 DEF Punt, Locks, InnerLock, HoldsInner
  <2> QED
    BY <1>8, <2>1 DEF Punt
<1>9. CASE resample(t)
  BY <1>9 DEF resample
<1> QED
  BY ZenonT(30), <1>1, <1>2, <1>3, <1>4, <1>5, <1>6, <1>7, <1>8, <1>9

\* Calls, the loops of notify_all and IWait, and a park that times out move no ParkEvent.
LEMMA WaitQuiet ==
  ASSUME Typing, NEW t \in Threads,
         Client(t) \/ notify_all(t) \/ wait_loop(t) \/ Timeout(t) \/ wait_done(t) \/ reentry(t)
  PROVE  QuietStep(t)
<1> USE DEF Typing, QuietStep, HandLabels, Sleeping, Queueing, IUnlockLabels, At, Goto, queueVars, waitVars, localVars
<1>1. CASE Client(t)
  <2>1. PICK from \in {"idle", "cs"}, name \in EntryPoints, label \in {"ILock", "IUnlock", "notify", "IWait"} :
           /\ Call(t, from, name, label)
           /\ label = "IUnlock" <=> name = "unlock"
    BY <1>1 DEF Client, CallLock, CallUnlock, CallNotify, CallWait, EntryPoints
  <2> QED
    BY Zenon, <2>1 DEF Call
<1>2. CASE notify_all(t)
  BY SMTT(30), <1>2 DEF notify_all
<1>3. CASE wait_loop(t)
  BY SMTT(30), <1>3 DEF wait_loop
<1>4. CASE Timeout(t)
  BY SMTT(30), <1>4 DEF Timeout
<1>5. CASE wait_done(t)
  BY <1>5 DEF wait_done
<1>6. CASE reentry(t)
  BY Zenon, <1>6 DEF reentry, TryLock
<1> QED
  BY Zenon, <1>1, <1>2, <1>3, <1>4, <1>5, <1>6

\* A step of t in IUnlock or notify leaves every thread as asleep or queueing as it is.
StillStep(t) ==
  /\ \A u \in Threads \ {t} : pc'[u] = pc[u] /\ call'[u] = call[u] /\ w'[u] = w[u]
  /\ (Sleeping(t)' <=> Sleeping(t)) /\ (Queueing(t)' <=> Queueing(t))
  /\ pc'[t] \notin {"add_WaitSet", "IWait"}

\* If such a step also leaves every thread queued or unnotified as it is, and its notification
\* as it stands, its program counter still says where its ParkEvent is.
LEMMA StillFlow ==
  ASSUME NEW t \in Threads, NEW x \in Threads, Flow(x), StillStep(t),
         Queued(x)' <=> Queued(x), Unnotified(x)' <=> Unnotified(x),
         Notified'[x] <=> Notified[x],
         x \in InHands("set_Notified")' <=> x \in InHands("set_Notified")
  PROVE  Flow(x)'
<1>1. /\ Sleeping(x)' <=> Sleeping(x)
      /\ Queueing(x)' <=> Queueing(x)
      /\ pc'[x] \in {"add_WaitSet", "IWait"} => pc'[x] = pc[x] /\ call'[x] = call[x]
  BY DEF StillStep, Sleeping, Queueing
<1> QED
  BY Zenon, <1>1 DEF Flow

\* The head of EntryList goes to the hands of the thread that holds the inner lock.
LEMMA SelectPlaced ==
  ASSUME Typing, Locks, Locks', Placed, NEW t \in Threads, select(t)
  PROVE  Placed'
<1>1. CASE EntryList = <<>>
  <2>1. QuietStep(t)
    BY <1>1
       DEF Typing, QuietStep, HandLabels, Sleeping, Queueing, IUnlockLabels, At, Goto, queueVars, waitVars,
                localVars, select
  <2> QED
    BY SMTT(30), <2>1, QuietKeeps
<1>2. CASE EntryList # <<>>
  <2> DEFINE m == Head(EntryList)
  <2>1. /\ pc[t] = "select" /\ pc'[t] = "pass_OnDeck" /\ w'[t] = m /\ EntryList' = Tail(EntryList)
        /\ UNCHANGED <<cxq, OnDeck, WaitSet, WaitLock, Notified, List>> /\ StillStep(t)
    BY <1>2 DEF select, At, Goto, Typing, StillStep, Sleeping, Queueing, IUnlockLabels, waitVars
  <2>2. m \in Threads /\ m \in Range(EntryList) /\ Range(EntryList)' = Range(EntryList) \ {m} /\ Once(EntryList)'
    BY SMTT(30), <1>2, <2>1, TailOnce, HeadTail DEF Typing, Placed
  <2> HIDE DEF m
  <2>3. /\ \A u \in Threads \ {t} : pc[u] \notin {"select", "pass_OnDeck", "drain", "set_EntryList", "Punt"}
        /\ \A u \in Threads \ {t} : pc'[u] \notin {"select", "pass_OnDeck", "drain", "set_EntryList", "Punt"}
    BY <2>1 DEF Locks, InnerLock, HoldsInner, StillStep
  <2>4. InHands("pass_OnDeck") = {} /\ InHands("pass_OnDeck")' = {m}
    <3>1. \A u \in Threads : pc[u] # "pass_OnDeck"
      BY <2>1, <2>3
    <3>2. w'[t] \in Threads /\ pc'[t] = "pass_OnDeck" /\ \A u \in Threads : pc'[u] = "pass_OnDeck" => u = t
      BY <2>1, <2>2, <2>3
    <3>3. InHands("pass_OnDeck") = {}
      BY <3>1 DEF InHands, HandsOf
    <3>4. InHands("pass_OnDeck")' = {w'[t]}
      BY <3>2 DEF InHands, HandsOf
    <3> QED
      BY <2>1, <3>3, <3>4
  <2>5. InHands("push_cxq")' = InHands("push_cxq") /\ InHands("set_Notified")' = InHands("set_Notified")
    BY Zenon, <2>1 DEF InHands, HandsOf, StillStep
  <2>6. Detached' = Detached /\ Detached = {}
    BY Zenon, <2>1, <2>3, OutsideInner DEF Detached
  <2>7. ASSUME NEW x \in Threads PROVE OnePlace(x)' /\ Flow(x)'
    <3> OnePlace(x) /\ Flow(x)
      BY SMTT(30) DEF Placed
    <3>1. (Queued(x)' <=> Queued(x)) /\ (Unnotified(x)' <=> Unnotified(x))
      BY <2>1, <2>2, <2>4, <2>5, <2>6 DEF Queued, Unnotified
    <3>2. OnePlace(x)'
      BY Zenon, <2>1, <2>2, <2>4, <2>5, <2>6, <3>1 DEF OnePlace
    <3>3. Flow(x)'
      BY Zenon, <2>1, <2>5, <3>1, StillFlow
    <3> QED
      BY <3>2, <3>3
  <2>8. \A x \in Threads : Guarded(x)'
    BY Zenon, <2>1, <2>3 DEF Guarded, Placed, StillStep
  <2>9. Once(cxq)' /\ Once(WaitSet)'
    BY Zenon, <2>1 DEF Placed
  <2> QED
    BY SMTT(30), <2>2, <2>7, <2>8, <2>9 DEF Placed
<1> QED
  BY <1>1, <1>2

\* It becomes OnDeck.
LEMMA PassPlaced ==
  ASSUME Typing, Locks, Locks', Placed, NEW t \in Threads, pass_OnDeck(t)
  PROVE  Placed'
<1> DEFINE m == w[t]
<1>1. /\ pc[t] = "pass_OnDeck" /\ pc'[t] = "recheck" /\ OnDeck' = m /\ m \in Threads
      /\ UNCHANGED <<cxq, EntryList, WaitSet, WaitLock, Notified, List>> /\ StillStep(t)
  BY Zenon
     DEF pass_OnDeck, At, Goto, Typing, StillStep, Sleeping, Queueing, IUnlockLabels, waitVars, localVars,
         Locks, TypeOK
<1>2. /\ \A u \in Threads \ {t} : pc[u] \notin {"select", "pass_OnDeck", "drain", "set_EntryList", "Punt"}
      /\ \A u \in Threads \ {t} : pc'[u] \notin {"select", "pass_OnDeck", "drain", "set_EntryList", "Punt"}
      /\ OnDeck = LBIT /\ LBIT \notin Threads
  BY <1>1 DEF Locks, InnerLock, HoldsInner, StillStep, Typing
<1>3. InHands("pass_OnDeck")' = {} /\ InHands("pass_OnDeck") = {m}
  BY SMTT(30), <1>1, <1>2 DEF InHands, HandsOf
<1>4. InHands("push_cxq")' = InHands("push_cxq") /\ InHands("set_Notified")' = InHands("set_Notified")
  BY SMTT(30), <1>1 DEF InHands, HandsOf, StillStep
<1>5. Detached' = Detached /\ Detached = {}
  BY SMTT(30), <1>1, <1>2, OutsideInner DEF Detached
<1> HIDE DEF m
<1>6. ASSUME NEW x \in Threads PROVE OnePlace(x)' /\ Flow(x)'
  <2> OnePlace(x) /\ Flow(x)
    BY DEF Placed
  <2>1. (Queued(x)' <=> Queued(x)) /\ (Unnotified(x)' <=> Unnotified(x))
    BY <1>1, <1>2, <1>3, <1>4, <1>5 DEF Queued, Unnotified
  <2>2. OnePlace(x)'
    BY Zenon, <1>1, <1>2, <1>3, <1>4, <1>5, <2>1 DEF OnePlace
  <2>3. Flow(x)'
    BY Zenon, <1>1, <1>4, <2>1, StillFlow
  <2> QED
    BY <2>2, <2>3
<1>7. \A x \in Threads : Guarded(x)'
  BY Zenon, <1>1, <1>2 DEF Guarded, Placed, StillStep
<1>8. Once(cxq)' /\ Once(EntryList)' /\ Once(WaitSet)'
  BY Zenon, <1>1 DEF Placed
<1> QED
  BY <1>6, <1>7, <1>8 DEF Placed

\* All of cxq becomes the segment that the holder of the inner lock detached,
LEMMA DrainPlaced ==
  ASSUME Typing, Locks, Locks', Placed, NEW t \in Threads, drain(t)
  PROVE  Placed'
<1>0. /\ \A u \in Threads \ {t} : pc[u] \notin {"select", "pass_OnDeck", "drain", "set_EntryList", "Punt"}
      /\ pc[t] = "drain" /\ EntryList = <<>> /\ List[t] = <<>>
  BY Zenon DEF drain, At, Locks, InnerLock, HoldsInner, Placed, Guarded
<1>1. CASE cxq = <<>> \/ LockByte
  <2>1. QuietStep(t)
    BY Zenon, <1>0, <1>1
       DEF Typing, QuietStep, HandLabels, Sleeping, Queueing, IUnlockLabels, At, Goto, queueVars, waitVars,
                localVars, drain
  <2> QED
    BY <2>1, QuietKeeps
<1>2. CASE cxq # <<>> /\ ~LockByte
  <2>1. /\ pc'[t] = "set_EntryList" /\ List'[t] = cxq /\ cxq' = <<>>
        /\ \A u \in Threads \ {t} : List'[u] = List[u]
        /\ UNCHANGED <<EntryList, OnDeck, WaitSet, WaitLock, Notified>> /\ StillStep(t)
    BY <1>2 DEF drain, At, Goto, Typing, StillStep, Sleeping, Queueing, IUnlockLabels, waitVars
  <2>2. /\ InHands("push_cxq")' = InHands("push_cxq") /\ InHands("set_Notified")' = InHands("set_Notified")
        /\ InHands("pass_OnDeck")' = InHands("pass_OnDeck")
    BY ZenonT(30), <1>0, <2>1 DEF InHands, HandsOf, StillStep
  <2>3. Detached = {}
    BY <1>0, OutsideInner
  <2>4. \A x \in Threads : x \in Detached' <=> x \in Range(cxq)
    <3>1. \A u \in Threads \ {t} : Range(List'[u]) = {}
      BY Zenon, <1>0, <2>1, OutsideInner
    <3>2. \A x \in Threads : x \in Detached' <=> x \in Range(List'[t])
      BY <3>1, SegmentsOne DEF Detached
    <3> QED
      BY Zenon, <2>1, <3>2
  <2>5. Range(cxq)' = {} /\ Once(cxq)' /\ Once(List'[t])
    BY SMTT(30), <2>1, EmptyOnce DEF Placed
  <2>6. ASSUME NEW x \in Threads PROVE OnePlace(x)' /\ Flow(x)'
    <3> OnePlace(x) /\ Flow(x)
      BY DEF Placed
    <3>1. (Queued(x)' <=> Queued(x)) /\ (Unnotified(x)' <=> Unnotified(x))
      BY <2>1, <2>2, <2>3, <2>4, <2>5 DEF Queued, Unnotified
    <3>2. OnePlace(x)'
      BY Zenon, <2>1, <2>2, <2>3, <2>4, <2>5, <3>1 DEF OnePlace
    <3>3. Flow(x)'
      BY Zenon, <2>1, <2>2, <3>1, StillFlow
    <3> QED
      BY <3>2, <3>3
  <2>7. \A x \in Threads : Guarded(x)'
    BY ZenonT(30), <1>0, <1>2, <2>1, <2>5 DEF Guarded, Placed, StillStep
  <2>8. Once(EntryList)' /\ Once(WaitSet)'
    BY <2>1 DEF Placed
  <2> QED
    BY SMTT(30), <2>5, <2>6, <2>7, <2>8 DEF Placed
<1> QED
  BY <1>1, <1>2

\* and then EntryList, which was empty.
LEMMA EntryListPlaced ==
  ASSUME Typing, Locks, Locks', Placed, NEW t \in Threads, set_EntryList(t)
  PROVE  Placed'
<1>0. /\ \A u \in Threads \ {t} : pc[u] \notin {"select", "pass_OnDeck", "drain", "set_EntryList", "Punt"}
      /\ pc[t] = "set_EntryList" /\ EntryList = <<>> /\ Once(List[t])
  BY Zenon DEF set_EntryList, At, Locks, InnerLock, HoldsInner, Placed, Guarded
<1>1. /\ pc'[t] = "select" /\ List'[t] = <<>> /\ EntryList' = List[t]
      /\ \A u \in Threads \ {t} : List'[u] = List[u]
      /\ UNCHANGED <<cxq, OnDeck, WaitSet, WaitLock, Notified>> /\ StillStep(t)
  BY SMTT(30) DEF set_EntryList, At, Goto, Typing, StillStep, Sleeping, Queueing, IUnlockLabels, waitVars
<1>2. /\ InHands("push_cxq")' = InHands("push_cxq") /\ InHands("set_Notified")' = InHands("set_Notified")
      /\ InHands("pass_OnDeck")' = InHands("pass_OnDeck")
  BY SMTT(30), <1>0, <1>1 DEF InHands, HandsOf, StillStep
<1>3. \A u \in Threads \ {t} : Range(List[u]) = {}
  BY <1>0, OutsideInner
<1>4. \A x \in Threads : (x \in Detached <=> x \in Range(List[t])) /\ x \notin Detached'
  <2>1. \A x \in Threads : x \in Detached <=> x \in Range(List[t])
    BY <1>3, SegmentsOne DEF Detached
  <2>2. \A u \in Threads \ {t} : Range(List'[u]) = {}
    BY Zenon, <1>1, <1>3
  <2>3. \A x \in Threads : x \in Detached' <=> x \in Range(List'[t])
    BY <2>2, SegmentsOne DEF Detached
  <2>4. Range(List'[t]) = {}
    BY Zenon, <1>1, EmptyOnce
  <2> QED
    BY <2>1, <2>3, <2>4
<1>5. Range(EntryList)' = Range(List[t]) /\ Range(EntryList) = {}
  BY <1>0, <1>1, EmptyOnce
<1>6. ASSUME NEW x \in Threads PROVE OnePlace(x)' /\ Flow(x)'
  <2> OnePlace(x) /\ Flow(x)
    BY DEF Placed
  <2>1. (Queued(x)' <=> Queued(x)) /\ (Unnotified(x)' <=> Unnotified(x))
    BY Zenon, <1>1, <1>2, <1>4, <1>5 DEF Queued, Unnotified
  <2>2. x \in Detached => x \notin InHands("pass_OnDeck") /\ OnDeck # x
    <3>1. InHands("pass_OnDeck") = {}
      BY Zenon, <1>0 DEF InHands, HandsOf
    <3>2. OnDeck # x
      BY <1>0 DEF Locks, InnerLock, HoldsInner, Typing
    <3> QED
      BY <3>1, <3>2
  <2>3. OnePlace(x)'
    BY Zenon, <1>1, <1>2, <1>4, <1>5, <2>1, <2>2 DEF OnePlace
  <2>4. Flow(x)'
    BY Zenon, <1>1, <1>2, <2>1, StillFlow
  <2> QED
    BY <2>3, <2>4
<1>7. \A x \in Threads : Guarded(x)'
  <2>1. Guarded(t)'
    BY Zenon, <1>0, <1>1, EmptyOnce DEF Guarded, Placed
  <2>2. ASSUME NEW x \in Threads \ {t} PROVE Guarded(x)'
    <3>1. pc'[x] = pc[x] /\ pc[x] \notin {"drain", "set_EntryList", "Punt"}
      BY Zenon, <1>0, <1>1 DEF StillStep
    <3> QED
      BY Zenon, <1>1, <3>1 DEF Guarded, Placed
  <2> QED
    BY Zenon, <2>1, <2>2
<1>8. Once(cxq)' /\ Once(EntryList)' /\ Once(WaitSet)'
  BY Zenon, <1>0, <1>1 DEF Placed
<1> QED
  BY <1>6, <1>7, <1>8 DEF Placed
=============================================================================
