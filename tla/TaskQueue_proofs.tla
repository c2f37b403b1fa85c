--------------------------- MODULE TaskQueue_proofs ---------------------------
(***************************************************************************)
(* GenericTaskQueue is a deque, for every size of the ring and every       *)
(* number of thieves.                                                      *)
(***************************************************************************)
EXTENDS TaskQueue, TLAPS

Ages == [top : Indices, tag : Nat]

\* The order in which _age takes its values.
Before(a, b) == a.tag < b.tag \/ (a.tag = b.tag /\ a.top <= b.top)

After(a, b) == a.tag > b.tag \/ (a.tag = b.tag /\ a.top > b.top)

Types ==
  /\ elems \in [Indices -> Tasks \cup {NoTask}]
  /\ bottom \in Indices
  /\ age \in Ages
  /\ pc = [p \in Workers |-> pc[p]]
  /\ localBot \in [Workers -> Indices]
  /\ oldAge \in [Workers -> Ages]
  /\ t \in [Workers -> Tasks \cup {NoTask}]
  /\ got = [p \in Workers |-> got[p]]

dirty == dirty_size(bottom, age.top)

\* The owner in push and pop_local.  While it claims its last task, at most one thief has
\* taken one, and then the ring looks as if it held N - 1 tasks.
OwnerState ==
  LET at == pc[Owner] IN
  /\ at \in {"idle", "store_elem", "store_bottom", "decrement_bottom",
             "read_top", "pop_local_slow", "cmpxchg", "set_age"}
  /\ at # "idle" => got[Owner] = NoTask
  /\ at \in {"idle", "store_elem", "store_bottom", "decrement_bottom"} => dirty # N - 1
  /\ at \in {"store_elem", "store_bottom"} => dirty < N - 2 /\ t[Owner] \in Tasks
  /\ at = "store_bottom" => elems[bottom] = t[Owner]
  /\ at = "decrement_bottom" => localBot[Owner] = decrement_index(bottom)
  /\ at \in {"read_top", "pop_local_slow", "cmpxchg", "set_age"} => localBot[Owner] = bottom
  /\ at \in {"pop_local_slow", "cmpxchg"} => dirty \in {0, N - 1} /\ t[Owner] = elems[bottom]
  /\ at = "cmpxchg" => oldAge[Owner].top = bottom
  /\ at = "set_age" => dirty = N - 1 /\ (age = oldAge[Owner] \/ oldAge[Owner].top = bottom)
  /\ at \in {"cmpxchg", "set_age"} => age \in {oldAge[Owner], increment(oldAge[Owner])}

Nonempty == size(bottom, age.top) > 0 \/ Contested

\* The place of the i-th task in the ring, and the number of tasks.
At(top, i) == (top + i - 1) % N

count == size(bottom, age.top) + (IF Contested THEN 1 ELSE 0)

\* contents, by place; it is empty exactly when no thief can take anything.
IsContents ==
  /\ count \in 0 .. N - 1 /\ contents \in Seq(Tasks \cup {NoTask}) /\ Len(contents) = count
  /\ \A i \in 1 .. count : contents[i] = elems[At(age.top, i)]
  /\ (size(bottom, age.top) > 0 \/ Contested) <=> count # 0

\* A thief whose _age is still the current one finds the task that it has read at the top.
ThiefState(p) ==
  /\ pc[p] \in {"idle", "load_bottom", "load_elem", "cmpxchg"}
  /\ pc[p] # "idle" => got[p] = NoTask /\ Before(oldAge[p], age)
  /\ pc[p] \in {"load_elem", "cmpxchg"} /\ oldAge[p] = age => Nonempty
  /\ pc[p] = "cmpxchg" /\ oldAge[p] = age => t[p] = elems[age.top]

QInv == Types /\ OwnerState /\ \A p \in Thieves : ThiefState(p)

\* Remainders in the first two rounds of the ring.
LEMMA Modulo ==
  ASSUME NEW n \in Nat \ {0}, NEW x \in Nat, x < n + n
  PROVE  x % n = IF x < n THEN x ELSE x - n
<1> DEFINE q == x \div n
           r == x % n
<1>1. q \in Int /\ r \in 0 .. n - 1 /\ x = n * q + r
  OBVIOUS
<1> HIDE DEF q, r
<1>2. CASE q < 0
  <2>1. n * q <= -n
    BY <1>1, <1>2
  <2> QED
    BY <1>1, <2>1
<1>3. CASE q = 0
  BY <1>1, <1>3 DEF r
<1>4. CASE q = 1
  BY <1>1, <1>4 DEF r
<1>5. CASE q > 1
  <2>1. n * q >= n + n
    BY <1>1, <1>5
  <2> QED
    BY <1>1, <2>1
<1> QED
  BY <1>1, <1>2, <1>3, <1>4, <1>5

\* increment_index and decrement_index step round the ring.
LEMMA Steps ==
  ASSUME NEW x \in Indices
  PROVE  /\ increment_index(x) = IF x = N - 1 THEN 0 ELSE x + 1
         /\ decrement_index(x) = IF x = 0 THEN N - 1 ELSE x - 1
         /\ increment_index(x) \in Indices /\ decrement_index(x) \in Indices
<1>1. N \in Nat \ {0} /\ N >= 4 /\ x \in Nat /\ x < N
  BY QueueAssumption DEF Indices
<1>2. (x + 1) % N = IF x + 1 < N THEN x + 1 ELSE x + 1 - N
  <2> DEFINE y == x + 1
  <2>1. y \in Nat /\ y < N + N
    BY <1>1
  <2> HIDE DEF y
  <2>2. y % N = IF y < N THEN y ELSE y - N
    BY Zenon, <1>1, <2>1, Modulo
  <2> QED
    BY <1>1, <2>2 DEF y
<1>3. (x + N - 1) % N = IF x + N - 1 < N THEN x + N - 1 ELSE x + N - 1 - N
  <2> DEFINE y == x + N - 1
  <2>1. y \in Nat /\ y < N + N
    BY <1>1
  <2> HIDE DEF y
  <2>2. y % N = IF y < N THEN y ELSE y - N
    BY Zenon, <1>1, <2>1, Modulo
  <2> QED
    BY <1>1, <2>2 DEF y
<1> QED
  BY <1>1, <1>2, <1>3 DEF increment_index, decrement_index, Indices

\* dirty_size is the way round the ring from top to _bottom.
LEMMA DirtySize ==
  ASSUME NEW b \in Indices, NEW top \in Indices
  PROVE  dirty_size(b, top) = IF b >= top THEN b - top ELSE b + N - top
<1>1. N \in Nat \ {0} /\ b \in Nat /\ b < N /\ top \in Nat /\ top < N
  BY QueueAssumption DEF Indices
<1> DEFINE y == b + N - top
<1>2. y \in Nat /\ y < N + N
  BY <1>1
<1> HIDE DEF y
<1>3. y % N = IF y < N THEN y ELSE y - N
  BY Zenon, <1>1, <1>2, Modulo
<1> QED
  BY <1>1, <1>3 DEF dirty_size, y

\* How the dirty size follows the two ends of the queue.
LEMMA DirtySteps ==
  ASSUME NEW b \in Indices, NEW top \in Indices
  PROVE  LET d == dirty_size(b, top) IN
         /\ d \in Indices /\ (d = 0 <=> b = top)
         /\ dirty_size(increment_index(b), top) = IF d = N - 1 THEN 0 ELSE d + 1
         /\ dirty_size(decrement_index(b), top) = IF d = 0 THEN N - 1 ELSE d - 1
         /\ dirty_size(b, increment_index(top)) = IF d = 0 THEN N - 1 ELSE d - 1
<1>1. N \in Nat /\ N >= 4 /\ b \in 0 .. N - 1 /\ top \in 0 .. N - 1
  BY QueueAssumption DEF Indices
<1> DEFINE d == dirty_size(b, top)
<1>2. d = IF b >= top THEN b - top ELSE b + N - top
  BY DirtySize
<1>3. d \in Indices /\ (d = 0 <=> b = top)
  BY <1>1, <1>2 DEF Indices
<1>4. dirty_size(increment_index(b), top) = IF d = N - 1 THEN 0 ELSE d + 1
  <2> DEFINE x == increment_index(b)
  <2>1. x \in Indices /\ x = IF b = N - 1 THEN 0 ELSE b + 1
    BY Steps
  <2>2. dirty_size(x, top) = IF x >= top THEN x - top ELSE x + N - top
    BY <2>1, DirtySize
  <2> HIDE DEF x, d
  <2>3. dirty_size(x, top) = IF d = N - 1 THEN 0 ELSE d + 1
    BY <1>1, <1>2, <2>1, <2>2
  <2> QED
    BY <2>3 DEF x
<1>5. dirty_size(decrement_index(b), top) = IF d = 0 THEN N - 1 ELSE d - 1
  <2> DEFINE x == decrement_index(b)
  <2>1. x \in Indices /\ x = IF b = 0 THEN N - 1 ELSE b - 1
    BY Steps
  <2>2. dirty_size(x, top) = IF x >= top THEN x - top ELSE x + N - top
    BY <2>1, DirtySize
  <2> HIDE DEF x, d
  <2>3. dirty_size(x, top) = IF d = 0 THEN N - 1 ELSE d - 1
    BY <1>1, <1>2, <2>1, <2>2
  <2> QED
    BY <2>3 DEF x
<1>6. dirty_size(b, increment_index(top)) = IF d = 0 THEN N - 1 ELSE d - 1
  <2> DEFINE x == increment_index(top)
  <2>1. x \in Indices /\ x = IF top = N - 1 THEN 0 ELSE top + 1
    BY Steps
  <2>2. dirty_size(b, x) = IF b >= x THEN b - x ELSE b + N - x
    BY <2>1, DirtySize
  <2> HIDE DEF x, d
  <2>3. dirty_size(b, x) = IF d = 0 THEN N - 1 ELSE d - 1
    BY <1>1, <1>2, <2>1, <2>2
  <2> QED
    BY <2>3 DEF x
<1> QED
  BY <1>3, <1>4, <1>5, <1>6

\* _age never takes a value twice: a thief's CAS advances it, and so does a tag.
LEMMA AgeAdvances ==
  ASSUME NEW a \in Ages
  PROVE  /\ increment(a) \in Ages /\ increment(a).top = increment_index(a.top)
         /\ After(increment(a), a)
         /\ LET new == [top |-> a.top, tag |-> a.tag + 1] IN new \in Ages /\ After(new, increment(a))
<1>1. /\ N \in Nat /\ N >= 4 /\ a.top \in Indices /\ a.top \in 0 .. N - 1 /\ a.tag \in Nat
      /\ increment_index(a.top) = (IF a.top = N - 1 THEN 0 ELSE a.top + 1) /\ increment_index(a.top) \in Indices
  BY QueueAssumption, Steps DEF Ages, Indices
<1> QED
  BY <1>1 DEF increment, Ages, After

\* A thief that has read an earlier _age is not one that could still succeed.
LEMMA ThievesLate ==
  ASSUME NEW p \in Thieves, Types, ThiefState(p), After(age', age), age' \in Ages,
         pc'[p] = pc[p], oldAge'[p] = oldAge[p], got'[p] = got[p]
  PROVE  ThiefState(p)'
<1>1. /\ oldAge[p].tag \in Nat /\ oldAge[p].top \in Int /\ age.tag \in Nat /\ age.top \in Int /\ age'.tag \in Nat
      /\ age'.top \in Int
  BY SMTT(60), QueueAssumption DEF Types, Workers, Ages, Indices
<1>2. pc[p] # "idle" => Before(oldAge[p], age') /\ oldAge[p] # age'
  BY <1>1 DEF ThiefState, Before, After
<1> QED
  BY <1>2 DEF ThiefState

\* Without a new _age the thieves keep what they have read of a queue that stays nonempty.
LEMMA ThievesKept ==
  ASSUME NEW p \in Thieves, ThiefState(p), UNCHANGED age,
         pc'[p] = pc[p], oldAge'[p] = oldAge[p], got'[p] = got[p], t'[p] = t[p],
         Nonempty => Nonempty' /\ elems'[age.top] = elems[age.top]
  PROVE  ThiefState(p)'
  BY DEF ThiefState

\* The owner's steps keep the invariant.
LEMMA OwnerKeeps ==
  ASSUME QInv, OwnerStep
  PROVE  QInv'
<1> USE DEF QInv
<1> DEFINE Alone == \A p \in Thieves : pc'[p] = pc[p] /\ oldAge'[p] = oldAge[p] /\ got'[p] = got[p] /\ t'[p] = t[p]
           d == dirty_size(bottom, age.top)
<1>1. /\ N \in Nat /\ N >= 4 /\ Owner \in Workers /\ Owner \notin Thieves /\ Thieves \subseteq Workers
      /\ bottom \in Indices /\ age.top \in Indices /\ age \in Ages /\ localBot[Owner] \in Indices
      /\ NoTask \notin Tasks
      /\ t[Owner] \in Tasks \cup {NoTask}
      /\ age.top \in Int /\ bottom \in Int /\ 0 \in Indices /\ [top |-> 0, tag |-> 0] \in Ages
  BY SMTT(30), QueueAssumption DEF Workers, Types, Ages, Indices
<1>2. /\ d \in 0 .. N - 1 /\ (d = 0 <=> bottom = age.top)
      /\ dirty_size(increment_index(bottom), age.top) = IF d = N - 1 THEN 0 ELSE d + 1
      /\ dirty_size(decrement_index(bottom), age.top) = IF d = 0 THEN N - 1 ELSE d - 1
      /\ increment_index(bottom) \in Indices /\ decrement_index(bottom) \in Indices
      /\ dirty_size(bottom, increment_index(bottom)) = N - 1
  <2>1. d \in Indices
    BY <1>1, DirtySteps
  <2>2. dirty_size(bottom, increment_index(bottom)) = N - 1
    <3>1. dirty_size(bottom, bottom) = 0
      BY <1>1, DirtySteps
    <3> QED
      BY <1>1, <3>1, DirtySteps
  <2>3. /\ d = 0 <=> bottom = age.top
        /\ dirty_size(increment_index(bottom), age.top) = IF d = N - 1 THEN 0 ELSE d + 1
        /\ dirty_size(decrement_index(bottom), age.top) = IF d = 0 THEN N - 1 ELSE d - 1
    BY <1>1, DirtySteps
  <2>4. increment_index(bottom) \in Indices /\ decrement_index(bottom) \in Indices
    BY <1>1, Steps
  <2> HIDE DEF d
  <2> QED
    BY <2>1, <2>2, <2>3, <2>4 DEF Indices
<1> HIDE DEF d
<1>3. CASE push
  <2>1. /\ pc[Owner] = "idle" /\ pc'[Owner] = "store_elem" /\ got'[Owner] = NoTask /\ t'[Owner] \in Tasks
        /\ (d < N - 2 \/ d = N - 1) /\ UNCHANGED <<elems, bottom, age, localBot, oldAge>>
        /\ Alone
    BY <1>1, <1>2, <1>3 DEF push, shared, max_elems, push_slow, d, Goto, Set, Types
  <2>2. Types'
    BY ZenonT(60), <1>1, <1>2, <2>1, <1>3 DEF push, shared, max_elems, push_slow, d, Types, Goto, Set
  <2>3. d' = d
    BY <2>1 DEF d
  <2>4. dirty = d /\ dirty' = d'
    BY DEF d, dirty
  <2>5. OwnerState'
    BY <1>1, <1>2, <2>1, <2>3, <2>4 DEF OwnerState, increment, Types, Indices
  <2>6. Nonempty => Nonempty' /\ elems'[age.top] = elems[age.top]
    BY <1>1, <1>2, <2>1, <2>3, <2>4 DEF Nonempty, Contested, size, dirty, OwnerState, Types, d
  <2>7. \A p \in Thieves : ThiefState(p)'
    BY <2>1, <2>6, ThievesKept
  <2> QED
    BY <2>2, <2>5, <2>7
<1>4. CASE store_elem
  <2>1. /\ pc[Owner] = "store_elem" /\ pc'[Owner] = "store_bottom" /\ elems' = [elems EXCEPT ![bottom] = t[Owner]]
        /\ UNCHANGED <<bottom, age, localBot, oldAge, t, got>>
        /\ Alone
    BY <1>1, <1>2, <1>4 DEF store_elem, locals, Goto, Set, Types
  <2>2. Types'
    BY SMTT(30), <1>1, <1>2, <2>1, <1>4 DEF store_elem, locals, Types, Goto, Set
  <2>3. d' = d
    BY <2>1 DEF d
  <2>4. dirty = d /\ dirty' = d'
    BY DEF d, dirty
  <2>5. OwnerState'
    BY <1>1, <1>2, <2>1, <2>3, <2>4 DEF OwnerState, increment, Types, Indices
  <2>6. Nonempty => Nonempty' /\ elems'[age.top] = elems[age.top]
    BY <1>1, <1>2, <2>1, <2>3, <2>4 DEF Nonempty, Contested, size, dirty, OwnerState, Types, d
  <2>7. \A p \in Thieves : ThiefState(p)'
    BY <2>1, <2>6, ThievesKept
  <2> QED
    BY <2>2, <2>5, <2>7
<1>5. CASE store_bottom
  <2>1. /\ pc[Owner] = "store_bottom" /\ pc'[Owner] = "idle" /\ bottom' = increment_index(bottom)
        /\ UNCHANGED <<elems, age>>
        /\ Alone
    BY <1>1, <1>2, <1>5 DEF store_bottom, Return, Goto, Set, Types
  <2>2. Types'
    BY Zenon, <1>1, <1>2, <2>1, <1>5 DEF store_bottom, Return, Types, Goto, Set
  <2>3. d' = d + 1
    BY <1>1, <1>2, <2>1 DEF d, OwnerState, dirty
  <2>4. dirty = d /\ dirty' = d'
    BY DEF d, dirty
  <2>5. OwnerState'
    BY <1>1, <1>2, <2>1, <2>3, <2>4 DEF OwnerState, increment, Types, Indices
  <2>6. Nonempty => Nonempty' /\ elems'[age.top] = elems[age.top]
    BY <1>1, <1>2, <2>1, <2>3, <2>4 DEF Nonempty, Contested, size, dirty, OwnerState, Types, d
  <2>7. \A p \in Thieves : ThiefState(p)'
    BY <2>1, <2>6, ThievesKept
  <2> QED
    BY <2>2, <2>5, <2>7
<1>6. CASE pop_local
  <2>1. /\ pc[Owner] = "idle" /\ pc'[Owner] = "decrement_bottom" /\ got'[Owner] = NoTask /\ d # 0
        /\ localBot'[Owner] = decrement_index(bottom) /\ UNCHANGED <<elems, bottom, age, oldAge, t>>
        /\ Alone
    BY <1>1, <1>2, <1>6 DEF pop_local, shared, d, Goto, Set, Types
  <2>2. Types'
    BY Zenon, <1>1, <1>2, <2>1, <1>6 DEF pop_local, shared, d, Types, Goto, Set
  <2>3. d' = d
    BY <2>1 DEF d
  <2>4. dirty = d /\ dirty' = d'
    BY DEF d, dirty
  <2>5. OwnerState'
    BY <1>1, <1>2, <2>1, <2>3, <2>4 DEF OwnerState, increment, Types, Indices
  <2>6. Nonempty => Nonempty' /\ elems'[age.top] = elems[age.top]
    BY <1>1, <1>2, <2>1, <2>3, <2>4 DEF Nonempty, Contested, size, dirty, OwnerState, Types, d
  <2>7. \A p \in Thieves : ThiefState(p)'
    BY <2>1, <2>6, ThievesKept
  <2> QED
    BY <2>2, <2>5, <2>7
<1>7. CASE decrement_bottom
  <2>1. /\ pc[Owner] = "decrement_bottom" /\ pc'[Owner] = "read_top" /\ bottom' = localBot[Owner]
        /\ UNCHANGED <<elems, age, localBot, oldAge, t, got>>
        /\ Alone
    BY <1>1, <1>2, <1>7 DEF decrement_bottom, locals, Goto, Set, Types
  <2>2. Types'
    BY Zenon, <1>1, <1>2, <2>1, <1>7 DEF decrement_bottom, locals, Types, Goto, Set
  <2>3. d' = IF d = 0 THEN N - 1 ELSE d - 1
    BY <1>1, <1>2, <2>1 DEF d, OwnerState, dirty
  <2>4. dirty = d /\ dirty' = d'
    BY DEF d, dirty
  <2>5. OwnerState'
    BY <1>1, <1>2, <2>1, <2>3, <2>4 DEF OwnerState, increment, Types, Indices
  <2>6. Nonempty => Nonempty' /\ elems'[age.top] = elems[age.top]
    BY <1>1, <1>2, <2>1, <2>3, <2>4 DEF Nonempty, Contested, size, dirty, OwnerState, Types, d
  <2>7. \A p \in Thieves : ThiefState(p)'
    BY <2>1, <2>6, ThievesKept
  <2> QED
    BY <2>2, <2>5, <2>7
<1>8. CASE read_top
  <2>1. CASE size(localBot[Owner], age.top) > 0
    <3>1. /\ pc[Owner] = "read_top" /\ pc'[Owner] = "idle" /\ d \in 1 .. N - 2 /\ UNCHANGED <<elems, bottom, age>>
          /\ Alone
      BY <1>1, <1>2, <1>8, <2>1 DEF read_top, Return, shared, size, d, OwnerState, Goto, Set, Types
    <3>2. Types'
      BY <1>1, <1>2, <3>1, <1>8, <2>1 DEF read_top, Return, shared, size, d, OwnerState, Types, Goto, Set
    <3>3. d' = d
      BY <3>1 DEF d
    <3>4. dirty = d /\ dirty' = d'
      BY DEF d, dirty
    <3>5. OwnerState'
      BY <1>1, <1>2, <3>1, <3>3, <3>4, <2>1 DEF OwnerState, increment, Types, Indices
    <3>6. Nonempty => Nonempty' /\ elems'[age.top] = elems[age.top]
      BY <1>1, <1>2, <3>1, <3>3, <3>4, <2>1 DEF Nonempty, Contested, size, dirty, OwnerState, Types, d
    <3>7. \A p \in Thieves : ThiefState(p)'
      BY <3>1, <3>6, ThievesKept
    <3> QED
      BY <3>2, <3>5, <3>7
  <2>2. CASE size(localBot[Owner], age.top) = 0
    <3>1. /\ pc[Owner] = "read_top" /\ pc'[Owner] = "pop_local_slow" /\ d \in {0, N - 1}
          /\ t'[Owner] = elems[bottom] /\ UNCHANGED <<elems, bottom, age, localBot, oldAge, got>>
          /\ Alone
      BY <1>1, <1>2, <1>8, <2>2 DEF read_top, shared, size, d, OwnerState, Goto, Set, Types
    <3>2. Types'
      BY <1>1, <1>2, <3>1, <1>8, <2>2 DEF read_top, shared, size, d, OwnerState, Types, Goto, Set
    <3>3. d' = d
      BY <3>1 DEF d
    <3>4. dirty = d /\ dirty' = d'
      BY DEF d, dirty
    <3>5. OwnerState'
      BY <1>1, <1>2, <3>1, <3>3, <3>4, <2>2 DEF OwnerState, increment, Types, Indices
    <3>6. Nonempty => Nonempty' /\ elems'[age.top] = elems[age.top]
      BY <1>1, <1>2, <3>1, <3>3, <3>4, <2>2 DEF Nonempty, Contested, size, dirty, OwnerState, Types, d
    <3>7. \A p \in Thieves : ThiefState(p)'
      BY <3>1, <3>6, ThievesKept
    <3> QED
      BY <3>2, <3>5, <3>7
  <2> QED
    BY <1>8, <2>1, <2>2 DEF read_top
<1>9. CASE pop_local_slow
  <2>1. CASE localBot[Owner] = age.top
    <3>1. /\ pc[Owner] = "pop_local_slow" /\ pc'[Owner] = "cmpxchg" /\ oldAge'[Owner] = age
          /\ UNCHANGED <<elems, bottom, age, localBot, t, got>>
          /\ Alone
      BY <1>1, <1>2, <1>9, <2>1 DEF pop_local_slow, shared, Goto, Set, Types
    <3>2. Types'
      BY Zenon, <1>1, <1>2, <3>1, <1>9, <2>1 DEF pop_local_slow, shared, Types, Goto, Set
    <3>3. d' = d
      BY <3>1 DEF d
    <3>4. dirty = d /\ dirty' = d'
      BY DEF d, dirty
    <3>5. OwnerState'
      BY <1>1, <1>2, <3>1, <3>3, <3>4, <2>1 DEF OwnerState, increment, Types, Indices
    <3>6. Nonempty => Nonempty' /\ elems'[age.top] = elems[age.top]
      BY <1>1, <1>2, <3>1, <3>3, <3>4, <2>1 DEF Nonempty, Contested, size, dirty, OwnerState, Types, d
    <3>7. \A p \in Thieves : ThiefState(p)'
      BY <3>1, <3>6, ThievesKept
    <3> QED
      BY <3>2, <3>5, <3>7
  <2>2. CASE localBot[Owner] # age.top
    <3>1. /\ pc[Owner] = "pop_local_slow" /\ pc'[Owner] = "set_age" /\ oldAge'[Owner] = age
          /\ UNCHANGED <<elems, bottom, age, localBot, t, got>>
          /\ Alone
      BY <1>1, <1>2, <1>9, <2>2 DEF pop_local_slow, shared, Goto, Set, Types
    <3>2. Types'
      BY <1>1, <1>2, <3>1, <1>9, <2>2 DEF pop_local_slow, shared, Types, Goto, Set
    <3>3. d' = d
      BY <3>1 DEF d
    <3>4. dirty = d /\ dirty' = d'
      BY DEF d, dirty
    <3>5. OwnerState'
      BY <1>1, <1>2, <3>1, <3>3, <3>4, <2>2 DEF OwnerState, increment, Types, Indices
    <3>6. Nonempty => Nonempty' /\ elems'[age.top] = elems[age.top]
      BY <1>1, <1>2, <3>1, <3>3, <3>4, <2>2 DEF Nonempty, Contested, size, dirty, OwnerState, Types, d
    <3>7. \A p \in Thieves : ThiefState(p)'
      BY <3>1, <3>6, ThievesKept
    <3> QED
      BY <3>2, <3>5, <3>7
  <2> QED
    BY <1>9, <2>1, <2>2 DEF pop_local_slow
<1>10. CASE claim_last
  <2>1. CASE age = oldAge[Owner]
    <3>1. /\ pc[Owner] = "cmpxchg" /\ pc'[Owner] = "idle" /\ age' = [top |-> bottom, tag |-> oldAge[Owner].tag + 1]
          /\ UNCHANGED <<elems, bottom>>
          /\ Alone
      BY <1>1, <1>2, <1>10, <2>1 DEF claim_last, newAge, Return, OwnerState, Goto, Set, Types
    <3>2. age' \in Ages /\ After(age', age) /\ age'.top = bottom
      BY <1>1, <1>2, <3>1, <1>10, <2>1, AgeAdvances DEF OwnerState, Types, Ages, After, d, dirty
    <3>3. Types'
      BY <1>1, <3>1, <3>2, <1>10, <2>1 DEF claim_last, newAge, Return, OwnerState, Types, Goto, Set
    <3>4. dirty' = 0
      BY <1>1, <3>1, <3>2, DirtySteps DEF dirty
    <3>5. OwnerState'
      BY <1>1, <3>1, <3>4 DEF OwnerState
    <3>6. \A p \in Thieves : ThiefState(p)'
      BY <3>1, <3>2, ThievesLate
    <3> QED
      BY <3>3, <3>5, <3>6
  <2>2. CASE age # oldAge[Owner]
    <3>1. /\ pc[Owner] = "cmpxchg" /\ pc'[Owner] = "set_age"
          /\ UNCHANGED <<elems, bottom, age, localBot, oldAge, t, got>>
          /\ Alone
      BY <1>1, <1>2, <1>10, <2>2 DEF claim_last, locals, Goto, Set, Types
    <3>2. Types'
      BY <1>1, <1>2, <3>1, <1>10, <2>2 DEF claim_last, locals, Types, Goto, Set
    <3>3. d' = d
      BY <3>1 DEF d
    <3>4. d = N - 1
      BY <1>2, <3>1, <1>10, <2>2 DEF OwnerState, increment, d
    <3>5. dirty = d /\ dirty' = d'
      BY DEF d, dirty
    <3>6. OwnerState'
      BY <1>1, <1>2, <3>1, <3>3, <3>5, <2>2, <3>4 DEF OwnerState, increment, Types, Indices
    <3>7. Nonempty => Nonempty' /\ elems'[age.top] = elems[age.top]
      BY <1>1, <1>2, <3>1, <3>3, <3>5, <2>2, <3>4 DEF Nonempty, Contested, size, dirty, OwnerState, Types, d
    <3>8. \A p \in Thieves : ThiefState(p)'
      BY <3>1, <3>7, ThievesKept
    <3> QED
      BY <3>2, <3>6, <3>8
  <2> QED
    BY <1>10, <2>1, <2>2 DEF claim_last
<1>11. CASE set_age
  <2>1. /\ pc[Owner] = "set_age" /\ pc'[Owner] = "idle" /\ age' = [top |-> bottom, tag |-> oldAge[Owner].tag + 1]
        /\ UNCHANGED <<elems, bottom>>
        /\ Alone
    BY <1>1, <1>2, <1>11 DEF set_age, newAge, Return, OwnerState, Goto, Set, Types
  <2>2. age' \in Ages /\ After(age', age) /\ age'.top = bottom
    BY <1>1, <1>2, <2>1, <1>11, AgeAdvances DEF OwnerState, Types, Ages, After, d, dirty
  <2>3. Types'
    BY Zenon, <1>1, <2>1, <2>2, <1>11 DEF set_age, newAge, Return, OwnerState, Types, Goto, Set
  <2>4. dirty' = 0
    BY <1>1, <2>1, <2>2, DirtySteps DEF dirty
  <2>5. OwnerState'
    BY <1>1, <2>1, <2>4 DEF OwnerState
  <2>6. \A p \in Thieves : ThiefState(p)'
    BY <2>1, <2>2, ThievesLate
  <2> QED
    BY <2>3, <2>5, <2>6
<1> QED
  BY <1>3, <1>4, <1>5, <1>6, <1>7, <1>8, <1>9, <1>10, <1>11 DEF OwnerStep

\* The owner sees nothing of a thief that does not change _age.
LEMMA OwnerKept ==
  ASSUME OwnerState, UNCHANGED <<elems, bottom, age>>, pc'[Owner] = pc[Owner], oldAge'[Owner] = oldAge[Owner],
         got'[Owner] = got[Owner], t'[Owner] = t[Owner], localBot'[Owner] = localBot[Owner]
  PROVE  OwnerState' /\ Nonempty' = Nonempty
<1>1. OwnerState'
  BY SMTT(30) DEF OwnerState, dirty, increment
<1>2. Nonempty' = Nonempty
  BY DEF Nonempty, Contested
<1> QED
  BY <1>1, <1>2

\* A thief that takes a task leaves one fewer; of the owner's last task it leaves nothing.
LEMMA Stolen ==
  ASSUME QInv, Nonempty, age' = increment(age), UNCHANGED <<elems, bottom>>, pc'[Owner] = pc[Owner],
         oldAge'[Owner] = oldAge[Owner], got'[Owner] = got[Owner], t'[Owner] = t[Owner],
         localBot'[Owner] = localBot[Owner]
  PROVE  /\ OwnerState' /\ dirty \in Int /\ dirty # N - 1 /\ (dirty = 0 => Contested)
         /\ dirty' = (IF dirty = 0 THEN N - 1 ELSE dirty - 1)
<1> USE DEF QInv
<1> DEFINE d == dirty_size(bottom, age.top)
<1>1. N \in Nat /\ N >= 4 /\ bottom \in Indices /\ age.top \in Indices /\ age \in Ages
  BY QueueAssumption DEF Types, Ages
<1>2. d \in Indices /\ dirty_size(bottom, increment_index(age.top)) = IF d = 0 THEN N - 1 ELSE d - 1
  BY <1>1, DirtySteps
<1>3. dirty_size(bottom, increment_index(bottom)) = N - 1
  <2>1. dirty_size(bottom, bottom) = 0
    BY <1>1, DirtySteps
  <2> QED
    BY <1>1, <2>1, DirtySteps
<1>4. age'.top = increment_index(age.top)
  BY ZenonT(60), <1>1, AgeAdvances
<1>5. dirty = d /\ dirty' = (IF d = 0 THEN N - 1 ELSE d - 1)
  BY <1>2, <1>4 DEF dirty
<1>6. d # N - 1 /\ (d = 0 => Contested) /\ d \in 0 .. N - 1
  BY <1>1, <1>2 DEF Nonempty, Contested, size, Indices
<1>7. pc[Owner] # "set_age"
  BY <1>1, <1>5, <1>6 DEF OwnerState
<1>8. pc[Owner] = "cmpxchg" => age = oldAge[Owner]
  BY SMTT(30), <1>3, <1>6 DEF OwnerState, increment
<1> HIDE DEF d
<1>9. increment(oldAge[Owner])' = increment(oldAge[Owner])
  BY DEF increment
<1>10. pc[Owner] = "cmpxchg" => age' = increment(oldAge[Owner])
  BY <1>8
<1>11. decrement_index(bottom)' = decrement_index(bottom)
  BY SMTT(30) DEF decrement_index
<1>12. OwnerState'
  <2>1. CASE pc[Owner] \in {"idle", "store_elem", "store_bottom", "decrement_bottom"}
    BY <1>1, <1>5, <1>6, <1>11, <2>1 DEF OwnerState, Contested
  <2>2. CASE pc[Owner] \in {"read_top", "pop_local_slow"}
    BY <1>1, <1>5, <1>6, <2>2 DEF OwnerState
  <2>3. CASE pc[Owner] = "cmpxchg"
    BY <1>1, <1>5, <1>6, <1>9, <1>10, <2>3 DEF OwnerState
  <2> QED
    BY SMTT(30), <1>7, <2>1, <2>2, <2>3 DEF OwnerState
<1> QED
  BY <1>1, <1>5, <1>6, <1>12

\* A thief's steps keep the invariant.
LEMMA ThiefKeeps ==
  ASSUME QInv, NEW p \in Thieves, ThiefStep(p)
  PROVE  QInv'
<1> USE DEF QInv
<1> DEFINE Others == \A q \in Workers \ {p} : /\ pc'[q] = pc[q] /\ oldAge'[q] = oldAge[q] /\ got'[q] = got[q]
                                              /\ t'[q] = t[q] /\ localBot'[q] = localBot[q]
<1>1. /\ Owner \in Workers \ {p} /\ p \in Workers /\ Thieves \subseteq Workers /\ age \in Ages /\ bottom \in Indices
      /\ oldAge[p] \in Ages /\ age.top \in Indices /\ 0 \in Indices /\ [top |-> 0, tag |-> 0] \in Ages
      /\ oldAge[p].top \in Indices
  BY SMTT(30), QueueAssumption DEF Workers, Types, Ages, Indices
<1>2. ThiefState(p)
  OBVIOUS
<1>3. CASE pop_global(p)
  <2>1. /\ pc[p] = "idle" /\ pc'[p] = "load_bottom" /\ oldAge'[p] = age /\ got'[p] = NoTask
        /\ UNCHANGED <<elems, bottom, age>>
        /\ Others
    BY <1>1, <1>3 DEF pop_global, shared, Goto, Set, Types
  <2>2. Types'
    BY Zenon, <1>1, <2>1, <1>3 DEF pop_global, shared, Types, Goto, Set
  <2>3. OwnerState' /\ Nonempty' = Nonempty
    BY <1>1, <2>1, OwnerKept
  <2>4. ThiefState(p)'
    BY SMTT(30), <1>1, <1>2, <2>1, <2>3, <1>3 DEF ThiefState, Before, Ages, Indices
  <2>5. \A q \in Thieves \ {p} : ThiefState(q)'
    BY SMTT(30), <1>1, <2>1, <2>3, ThievesKept
  <2> QED
    BY <2>2, <2>3, <2>4, <2>5
<1>4. CASE load_bottom(p)
  <2>1. CASE size(bottom, oldAge[p].top) = 0
    <3>1. /\ pc[p] = "load_bottom" /\ pc'[p] = "idle"
          /\ UNCHANGED <<elems, bottom, age>>
          /\ Others
      BY <1>1, <1>4, <2>1 DEF load_bottom, Return, shared, Goto, Set, Types
    <3>2. Types'
      BY <1>1, <3>1, <1>4, <2>1 DEF load_bottom, Return, shared, Types, Goto, Set
    <3>3. OwnerState' /\ Nonempty' = Nonempty
      BY <1>1, <3>1, OwnerKept
    <3>4. ThiefState(p)'
      BY SMTT(30), <1>1, <1>2, <3>1, <3>3, <1>4, <2>1 DEF ThiefState
    <3>5. \A q \in Thieves \ {p} : ThiefState(q)'
      BY <1>1, <3>1, <3>3, ThievesKept
    <3> QED
      BY <3>2, <3>3, <3>4, <3>5
  <2>2. CASE size(bottom, oldAge[p].top) > 0
    <3>1. /\ pc[p] = "load_bottom" /\ pc'[p] = "load_elem" /\ oldAge'[p] = oldAge[p] /\ got'[p] = got[p]
          /\ UNCHANGED <<elems, bottom, age>>
          /\ Others
      BY <1>1, <1>4, <2>2 DEF load_bottom, shared, Goto, Set, Types
    <3>2. Types'
      BY SMTT(30), <1>1, <3>1, <1>4, <2>2 DEF load_bottom, shared, Types, Goto, Set
    <3>3. OwnerState' /\ Nonempty' = Nonempty
      BY <1>1, <3>1, OwnerKept
    <3>4. ThiefState(p)'
      BY SMTT(30), <1>1, <1>2, <3>1, <3>3, <1>4, <2>2 DEF ThiefState, Nonempty
    <3>5. \A q \in Thieves \ {p} : ThiefState(q)'
      BY <1>1, <3>1, <3>3, ThievesKept
    <3> QED
      BY <3>2, <3>3, <3>4, <3>5
  <2> QED
    BY <1>4, <2>1, <2>2 DEF load_bottom
<1>5. CASE load_elem(p)
  <2>1. /\ pc[p] = "load_elem" /\ pc'[p] = "cmpxchg" /\ oldAge'[p] = oldAge[p] /\ got'[p] = got[p]
        /\ t'[p] = elems[oldAge[p].top] /\ UNCHANGED <<elems, bottom, age>>
        /\ Others
    BY <1>1, <1>5 DEF load_elem, shared, Goto, Set, Types
  <2>2. Types'
    BY SMTT(30), <1>1, <2>1, <1>5 DEF load_elem, shared, Types, Goto, Set
  <2>3. OwnerState' /\ Nonempty' = Nonempty
    BY <1>1, <2>1, OwnerKept
  <2>4. ThiefState(p)'
    BY SMTT(30), <1>1, <1>2, <2>1, <2>3, <1>5 DEF ThiefState
  <2>5. \A q \in Thieves \ {p} : ThiefState(q)'
    BY <1>1, <2>1, <2>3, ThievesKept
  <2> QED
    BY <2>2, <2>3, <2>4, <2>5
<1>6. CASE claim_top(p)
  <2>1. CASE age # oldAge[p]
    <3>1. /\ pc[p] = "cmpxchg" /\ pc'[p] = "idle"
          /\ UNCHANGED <<elems, bottom, age>>
          /\ Others
      BY <1>1, <1>6, <2>1 DEF claim_top, Return, Goto, Set, Types
    <3>2. Types'
      BY <1>1, <3>1, <1>6, <2>1 DEF claim_top, Return, Types, Goto, Set
    <3>3. OwnerState' /\ Nonempty' = Nonempty
      BY <1>1, <3>1, OwnerKept
    <3>4. ThiefState(p)'
      BY <1>1, <1>2, <3>1, <3>3, <1>6, <2>1 DEF ThiefState
    <3>5. \A q \in Thieves \ {p} : ThiefState(q)'
      BY <1>1, <3>1, <3>3, ThievesKept
    <3> QED
      BY <3>2, <3>3, <3>4, <3>5
  <2>2. CASE age = oldAge[p]
    <3>1. /\ pc[p] = "cmpxchg" /\ pc'[p] = "idle" /\ age' = increment(age) /\ UNCHANGED <<elems, bottom>>
          /\ Others
      BY <1>1, <1>6, <2>2 DEF claim_top, Return, Goto, Set, Types
    <3>2. Nonempty
      BY <1>2, <2>2, <3>1 DEF ThiefState
    <3>3. age' \in Ages /\ After(age', age)
      BY Zenon, <1>1, <3>1, AgeAdvances
    <3>4. Types'
      BY SMTT(30), <1>1, <1>6, <3>1, <3>3 DEF claim_top, Return, Goto, Set, Types
    <3>5. OwnerState'
      BY SMTT(30), <1>1, <3>1, <3>2, Stolen
    <3>6. ThiefState(p)'
      BY SMTT(30), <3>1 DEF ThiefState
    <3>7. \A q \in Thieves \ {p} : ThiefState(q)'
      BY Zenon, <1>1, <3>1, <3>3, ThievesLate
    <3> QED
      BY <3>4, <3>5, <3>6, <3>7
  <2> QED
    BY <2>1, <2>2
<1> QED
  BY <1>3, <1>4, <1>5, <1>6 DEF ThiefStep

\* The queue keeps its invariant.
LEMMA InvariantHolds == Spec => []QInv
<1>1. Init => QInv
  <2> SUFFICES ASSUME Init
               PROVE  QInv
    OBVIOUS
  <2>1. /\ N \in Nat /\ N >= 4 /\ 0 \in Indices /\ [top |-> 0, tag |-> 0] \in Ages /\ Owner \in Workers
        /\ Thieves \subseteq Workers
    BY QueueAssumption DEF Indices, Ages, Workers
  <2>2. Types
    BY <2>1 DEF Init, Types
  <2>3. dirty = 0
    BY <2>1, DirtySteps DEF Init, dirty
  <2>4. OwnerState
    BY <2>1, <2>3 DEF Init, OwnerState
  <2>5. \A p \in Thieves : ThiefState(p)
    BY <2>1 DEF Init, ThiefState
  <2> QED
    BY <2>2, <2>4, <2>5 DEF QInv
<1>2. QInv /\ [Next]_vars => QInv'
  <2> SUFFICES ASSUME QInv, [Next]_vars
               PROVE  QInv'
    OBVIOUS
  <2>1. CASE OwnerStep
    BY <2>1, OwnerKeeps
  <2>2. CASE \E p \in Thieves : ThiefStep(p)
    BY <2>2, ThiefKeeps
  <2>3. CASE UNCHANGED vars
    <3>1. Types'
      BY <2>3 DEF vars, QInv, Types
    <3>2. OwnerState' /\ Nonempty' = Nonempty
      BY <2>3, OwnerKept DEF vars, QInv
    <3>3. \A p \in Thieves : ThiefState(p)'
      BY <2>3, <3>2, ThievesKept DEF vars, QInv
    <3> QED
      BY <3>1, <3>2, <3>3 DEF QInv
  <2> QED
    BY <2>1, <2>2, <2>3 DEF Next
<1> QED
  BY <1>1, <1>2, PTL DEF Spec

\* The ring between top and _bottom.
LEMMA Walk ==
  ASSUME NEW b \in Indices, NEW top \in Indices
  PROVE  LET d == dirty_size(b, top) IN
         /\ \A i \in 1 .. N : At(top, i) \in Indices
         /\ At(top, 1) = top /\ At(top, d + 1) = b
         /\ \A i \in 1 .. d : At(top, i) # b
         /\ \A i \in 1 .. N - 1 : At(increment_index(top), i) = At(top, i + 1)
<1> DEFINE d == dirty_size(b, top)
<1>1. N \in Nat \ {0} /\ N >= 4 /\ b \in 0 .. N - 1 /\ top \in 0 .. N - 1
  BY QueueAssumption DEF Indices
<1>2. d = (IF b >= top THEN b - top ELSE b + N - top) /\ d \in Int
  BY <1>1, DirtySize
<1>3. \A x \in Indices, i \in 1 .. N : At(x, i) = IF x + i - 1 < N THEN x + i - 1 ELSE x + i - 1 - N
  <2> SUFFICES ASSUME NEW x \in Indices, NEW i \in 1 .. N
               PROVE  At(x, i) = IF x + i - 1 < N THEN x + i - 1 ELSE x + i - 1 - N
    OBVIOUS
  <2> DEFINE y == x + i - 1
  <2>1. y \in Nat /\ y < N + N
    BY <1>1 DEF Indices
  <2> HIDE DEF y
  <2>2. y % N = IF y < N THEN y ELSE y - N
    BY Zenon, <1>1, <2>1, Modulo
  <2> QED
    BY <1>1, <2>2 DEF y, At, Indices
<1> DEFINE x == increment_index(top)
<1>4. x \in Indices /\ x = IF top = N - 1 THEN 0 ELSE top + 1
  BY Steps
<1>5. \A i \in 1 .. N - 1 : At(x, i) = At(top, i + 1)
  <2> HIDE DEF x
  <2> TAKE i \in 1 .. N - 1
  <2>1. i \in 1 .. N /\ i + 1 \in 1 .. N
    BY <1>1
  <2>2. At(x, i) = IF x + i - 1 < N THEN x + i - 1 ELSE x + i - 1 - N
    BY <1>3, <1>4, <2>1
  <2>3. At(top, i + 1) = IF top + (i + 1) - 1 < N THEN top + (i + 1) - 1 ELSE top + (i + 1) - 1 - N
    BY <1>3, <2>1
  <2> QED
    BY <1>1, <1>4, <2>2, <2>3
<1> HIDE DEF d
<1>6. \A i \in 1 .. N : At(top, i) \in Indices
  BY <1>1, <1>3 DEF Indices
<1>7. At(top, 1) = top
  BY <1>1, <1>3
<1>8. At(top, d + 1) = b
  <2>1. d + 1 \in 1 .. N
    BY <1>1, <1>2
  <2>2. At(top, d + 1) = IF top + (d + 1) - 1 < N THEN top + (d + 1) - 1 ELSE top + (d + 1) - 1 - N
    BY <1>3, <2>1
  <2> QED
    BY <1>1, <1>2, <2>2
<1>9. \A i \in 1 .. d : At(top, i) # b
  <2> TAKE i \in 1 .. d
  <2>1. i \in 1 .. N
    BY <1>1, <1>2
  <2>2. At(top, i) = IF top + i - 1 < N THEN top + i - 1 ELSE top + i - 1 - N
    BY <1>3, <2>1
  <2> QED
    BY <1>1, <1>2, <2>1, <2>2
<1> QED
  BY <1>5, <1>6, <1>7, <1>8, <1>9 DEF d

\* The tasks in the queue are a sequence.
LEMMA ContentsSeq == QInv => IsContents
<1> SUFFICES ASSUME QInv
             PROVE  IsContents
  OBVIOUS
<1> USE DEF QInv
<1>1. N \in Nat /\ N >= 4 /\ bottom \in Indices /\ age.top \in Indices /\ elems \in [Indices -> Tasks \cup {NoTask}]
  BY QueueAssumption DEF Types, Ages
<1>2. dirty \in 0 .. N - 1
  BY Zenon, <1>1, DirtySteps DEF dirty, Indices
<1>3. count \in 0 .. N - 1 /\ (Nonempty <=> count # 0)
  BY <1>1, <1>2 DEF count, Nonempty, size, dirty, Contested
<1>4. \A i \in 1 .. count : At(age.top, i) \in Indices
  <2>1. \A i \in 1 .. N : At(age.top, i) \in Indices
    BY Zenon, <1>1, Walk
  <2> QED
    BY <1>1, <1>3, <2>1
<1>5. contents = [i \in 1 .. count |-> elems[At(age.top, i)]]
  BY DEF contents, count, At
<1> QED
  BY <1>1, <1>3, <1>4, <1>5 DEF IsContents, Nonempty

\* The same after a step.
LEMMA ContentsSeqNext == QInv' => IsContents'
  BY ContentsSeq, PTL

\* The queue stays as it is when the part of the ring that holds it does.
LEMMA SameContents ==
  ASSUME QInv, QInv', UNCHANGED age, count' = count,
         \A i \in 1 .. count : elems'[At(age.top, i)] = elems[At(age.top, i)]
  PROVE  contents' = contents
<1>1. contents = [i \in 1 .. count |-> elems[At(age.top, i)]]
  BY DEF contents, count, At
<1>2. contents' = [i \in 1 .. count |-> elems'[At(age.top, i)]]
  BY DEF contents, count, At
<1> QED
  BY <1>1, <1>2

\* The assertions of pop_local hold, and after it has lost its last task no thief can take
\* anything (pop_local, pop_local_slow).
THEOREM QueueCanonical == Spec => []Canonical
<1>1. QInv => Canonical
  <2> SUFFICES ASSUME QInv
               PROVE  Canonical
    OBVIOUS
  <2>1. pc[Owner] = "set_age" => ~Nonempty
    <3>1. N \in Nat /\ N >= 4
      BY QueueAssumption
    <3> QED
      BY <3>1 DEF QInv, OwnerState, Nonempty, Contested, size, dirty
  <2>2. ~Nonempty => contents = <<>>
    BY ContentsSeq DEF IsContents, Nonempty
  <2> QED
    BY SMTT(30), <2>1, <2>2 DEF Canonical, QInv, OwnerState, ThiefState, dirty
<1> QED
  BY <1>1, InvariantHolds, PTL

\* A sequence that is one element longer or shorter than another.
LEMMA SequenceSteps ==
  ASSUME NEW S, NEW s \in Seq(S), NEW r \in Seq(S)
  PROVE  /\ \A x : Len(r) = Len(s) + 1 /\ r[Len(r)] = x /\ (\A i \in 1 .. Len(s) : r[i] = s[i]) => r = Append(s, x)
         /\ s # <<>> /\ Len(r) = Len(s) - 1 /\ (\A i \in 1 .. Len(r) : r[i] = s[i]) => r = SubSeq(s, 1, Len(s) - 1)
         /\ s # <<>> /\ Len(r) = Len(s) - 1 /\ (\A i \in 1 .. Len(r) : r[i] = s[i + 1]) => r = Tail(s)
<1>1. ASSUME NEW x, Len(r) = Len(s) + 1, r[Len(r)] = x, \A i \in 1 .. Len(s) : r[i] = s[i]
      PROVE  r = Append(s, x)
  <2>1. x \in S
    BY <1>1
  <2> QED
    BY <1>1, <2>1
<1>2. ASSUME s # <<>>, Len(r) = Len(s) - 1, \A i \in 1 .. Len(r) : r[i] = s[i]
      PROVE  r = SubSeq(s, 1, Len(s) - 1)
  BY <1>2
<1>3. ASSUME s # <<>>, Len(r) = Len(s) - 1, \A i \in 1 .. Len(r) : r[i] = s[i + 1]
      PROVE  r = Tail(s)
  BY <1>3
<1> QED
  BY <1>1, <1>2, <1>3

\* Each step of the owner is one of the deque, or none.
LEMMA OwnerImplements ==
  ASSUME QInv, QInv', OwnerStep
  PROVE  Abstract!Next \/ UNCHANGED <<contents, got>>
<1>1. /\ N \in Nat /\ N >= 4 /\ Owner \in Workers /\ Workers = Thieves \cup {Owner} /\ bottom \in Indices
      /\ age.top \in Indices
      /\ dirty \in 0 .. N - 1
  <2>1. /\ N \in Nat /\ N >= 4 /\ Owner \in Workers /\ Workers = Thieves \cup {Owner}
        /\ bottom \in Indices /\ age.top \in Indices
    BY QueueAssumption DEF QInv, Types, Ages, Workers
  <2> QED
    BY <2>1, DirtySteps DEF dirty, Indices
<1>2. got = [p \in Workers |-> got[p]] /\ OwnerState
  BY DEF QInv, Types
<1>3. UNCHANGED contents /\ got' = [got EXCEPT ![Owner] = NoTask] => Abstract!Next
  BY Zenon DEF Abstract!Next, Abstract!Done
<1>4. /\ count \in 0 .. N - 1 /\ contents \in Seq(Tasks \cup {NoTask}) /\ Len(contents) = count
      /\ \A i \in 1 .. count : contents[i] = elems[At(age.top, i)]
  BY ContentsSeq DEF IsContents
<1>5. /\ count' \in 0 .. N - 1 /\ contents' \in Seq(Tasks \cup {NoTask}) /\ Len(contents') = count'
      /\ \A i \in 1 .. count' : contents'[i] = elems'[At(age'.top, i)]
  BY ContentsSeqNext DEF IsContents
<1>6. At(age.top, 1) = age.top /\ At(age.top, dirty + 1) = bottom /\ \A i \in 1 .. dirty : At(age.top, i) # bottom
  BY Zenon, <1>1, Walk DEF dirty
<1>7. count = (IF dirty = N - 1 THEN 0 ELSE dirty) + (IF Contested THEN 1 ELSE 0)
  BY DEF count, size, dirty
<1>8. count' = (IF dirty' = N - 1 THEN 0 ELSE dirty') + (IF Contested' THEN 1 ELSE 0)
  BY DEF count, size, dirty
<1>9. Contested <=> pc[Owner] \in {"read_top", "pop_local_slow", "cmpxchg"} /\ dirty # N - 1
  BY DEF Contested, dirty
<1>10. Contested' <=> pc'[Owner] \in {"read_top", "pop_local_slow", "cmpxchg"} /\ dirty' # N - 1
  BY DEF Contested, dirty
<1>11. pc = [p \in Workers |-> pc[p]]
  BY DEF QInv, Types
<1>12. CASE push
  <2>1. /\ pc[Owner] = "idle" /\ pc'[Owner] = "store_elem" /\ UNCHANGED <<elems, bottom, age>>
        /\ got' = [got EXCEPT ![Owner] = NoTask]
    BY <1>1, <1>11, <1>12 DEF push, shared, Goto, Set
  <2>2. dirty' = dirty
    BY <2>1 DEF dirty
  <2>3. count' = count
    BY <1>1, <1>7, <1>8, <1>9, <1>10, <2>1, <2>2
  <2>4. UNCHANGED contents
    BY <2>1, <2>3, SameContents
  <2> QED
    BY <1>3, <2>1, <2>4
<1>13. CASE pop_local
  <2>1. /\ pc[Owner] = "idle" /\ pc'[Owner] = "decrement_bottom" /\ UNCHANGED <<elems, bottom, age>>
        /\ got' = [got EXCEPT ![Owner] = NoTask]
    BY <1>1, <1>11, <1>13 DEF pop_local, shared, Goto, Set
  <2>2. dirty' = dirty
    BY <2>1 DEF dirty
  <2>3. count' = count
    BY <1>1, <1>7, <1>8, <1>9, <1>10, <2>1, <2>2
  <2>4. UNCHANGED contents
    BY <2>1, <2>3, SameContents
  <2> QED
    BY <1>3, <2>1, <2>4
<1>14. CASE store_elem
  <2>1. /\ pc[Owner] = "store_elem" /\ pc'[Owner] = "store_bottom" /\ UNCHANGED <<bottom, age, got>>
        /\ elems' = [elems EXCEPT ![bottom] = t[Owner]]
    BY <1>1, <1>11, <1>14 DEF store_elem, Goto
  <2>2. dirty' = dirty
    BY <2>1 DEF dirty
  <2>3. count' = count /\ count = dirty
    BY <1>1, <1>2, <1>7, <1>8, <1>9, <1>10, <2>1, <2>2 DEF OwnerState
  <2>4. \A i \in 1 .. count : elems'[At(age.top, i)] = elems[At(age.top, i)]
    BY <1>6, <2>1, <2>3 DEF QInv, Types
  <2> QED
    BY <2>1, <2>3, <2>4, SameContents
<1>15. CASE store_bottom
  <2>1. /\ pc[Owner] = "store_bottom" /\ pc'[Owner] = "idle" /\ UNCHANGED <<elems, age>>
        /\ got' = [got EXCEPT ![Owner] = NoTask]
        /\ bottom' = increment_index(bottom)
    BY <1>1, <1>11, <1>15 DEF store_bottom, Return, Goto, Set
  <2>2. dirty < N - 2 /\ t[Owner] \in Tasks /\ elems[bottom] = t[Owner] /\ got[Owner] = NoTask
    BY <1>2, <2>1 DEF OwnerState
  <2>3. dirty' = dirty + 1
    BY SMTT(30), <1>1, <2>1, <2>2, DirtySteps DEF dirty
  <2>4. count = dirty /\ count' = dirty + 1
    BY <1>1, <1>7, <1>8, <1>9, <1>10, <2>1, <2>2, <2>3
  <2>5. UNCHANGED got
    BY SMTT(30), <1>2, <2>1, <2>2
  <2>6. contents'[count + 1] = t[Owner] /\ \A i \in 1 .. count : contents'[i] = contents[i]
    BY SMTT(30), <1>1, <1>4, <1>5, <1>6, <2>1, <2>2, <2>4
  <2>7. contents' = Append(contents, t[Owner])
    BY <1>1, <1>4, <1>5, <2>4, <2>6, SequenceSteps
  <2>8. Abstract!Push(t[Owner])
    BY <2>5, <2>7 DEF Abstract!Push
  <2> QED
    BY <2>2, <2>8 DEF Abstract!Next
<1>16. CASE decrement_bottom
  <2>1. /\ pc[Owner] = "decrement_bottom" /\ pc'[Owner] = "read_top" /\ UNCHANGED <<elems, age, got>>
        /\ bottom' = decrement_index(bottom)
    BY <1>1, <1>2, <1>11, <1>16 DEF decrement_bottom, Goto, OwnerState
  <2>2. dirty # N - 1 /\ dirty' = IF dirty = 0 THEN N - 1 ELSE dirty - 1
    BY SMTT(30), <1>1, <1>2, <2>1, DirtySteps DEF dirty, OwnerState
  <2>3. count' = count
    BY SMTT(30), <1>1, <1>7, <1>8, <1>9, <1>10, <2>1, <2>2
  <2> QED
    BY <2>1, <2>3, SameContents
<1>17. CASE read_top
  <2>1. /\ pc[Owner] = "read_top" /\ UNCHANGED <<elems, bottom, age>> /\ localBot[Owner] = bottom
    BY <1>2, <1>17 DEF read_top, shared, OwnerState
  <2>2. dirty' = dirty
    BY <2>1 DEF dirty
  <2>3. CASE size(localBot[Owner], age.top) = 0
    <3>1. pc'[Owner] = "pop_local_slow" /\ UNCHANGED got
      BY <1>1, <1>11, <1>17, <2>3 DEF read_top, Goto
    <3>2. count' = count
      BY <1>7, <1>8, <1>9, <1>10, <2>1, <2>2, <3>1
    <3> QED
      BY <2>1, <3>1, <3>2, SameContents
  <2>4. CASE size(localBot[Owner], age.top) > 0
    <3>1. pc'[Owner] = "idle" /\ got' = [got EXCEPT ![Owner] = elems[bottom]]
      BY <1>1, <1>11, <1>17, <2>1, <2>4 DEF read_top, Return, Goto, Set
    <3>2. dirty \in 1 .. N - 2
      BY <1>1, <2>1, <2>4 DEF size, dirty
    <3>3. count = dirty + 1 /\ count' = dirty
      BY SMTT(30), <1>1, <1>7, <1>8, <1>9, <1>10, <2>1, <2>2, <3>1, <3>2
    <3>4. contents[count] = elems[bottom] /\ contents # <<>> /\ \A i \in 1 .. count' : contents'[i] = contents[i]
      BY <1>1, <1>4, <1>5, <1>6, <2>1, <3>2, <3>3
    <3>5. contents' = SubSeq(contents, 1, Len(contents) - 1)
      BY <1>1, <1>4, <1>5, <3>2, <3>3, <3>4, SequenceSteps
    <3>6. Abstract!PopLocal
      BY <1>4, <3>1, <3>4, <3>5 DEF Abstract!PopLocal
    <3> QED
      BY <3>6 DEF Abstract!Next
  <2> QED
    BY <1>17, <2>3, <2>4 DEF read_top
<1>18. CASE pop_local_slow
  <2>1. /\ pc[Owner] = "pop_local_slow" /\ UNCHANGED <<elems, bottom, age, got>> /\ localBot[Owner] = bottom
        /\ dirty \in {0, N - 1}
        /\ pc'[Owner] = IF bottom = age.top THEN "cmpxchg" ELSE "set_age"
    BY <1>1, <1>2, <1>11, <1>18 DEF pop_local_slow, shared, OwnerState, Goto
  <2>2. dirty' = dirty /\ (dirty = 0 <=> bottom = age.top)
    BY SMTT(30), <1>1, <2>1, DirtySteps DEF dirty
  <2>3. count' = count
    BY <1>1, <1>7, <1>8, <1>9, <1>10, <2>1, <2>2
  <2> QED
    BY <2>1, <2>3, SameContents
<1>19. CASE claim_last
  <2>1. /\ pc[Owner] = "cmpxchg" /\ UNCHANGED <<elems, bottom>> /\ localBot[Owner] = bottom
        /\ oldAge[Owner].top = bottom
        /\ dirty \in {0, N - 1} /\ t[Owner] = elems[bottom] /\ age \in {oldAge[Owner], increment(oldAge[Owner])}
    BY <1>2, <1>19 DEF claim_last, OwnerState
  <2>2. CASE age = oldAge[Owner]
    <3>1. pc'[Owner] = "idle" /\ got' = [got EXCEPT ![Owner] = t[Owner]] /\ age'.top = bottom
      BY SMTT(30), <1>1, <1>11, <1>19, <2>1, <2>2 DEF claim_last, Return, Goto, Set, newAge
    <3>2. dirty = 0 /\ dirty' = 0
      BY <1>1, <2>1, <2>2, <3>1, DirtySteps DEF dirty
    <3>3. count = 1 /\ count' = 0
      BY <1>1, <1>7, <1>8, <1>9, <1>10, <2>1, <3>1, <3>2
    <3>4. contents[1] = elems[bottom] /\ contents # <<>>
      <4>1. 1 \in 1 .. count /\ age.top = bottom
        BY <2>1, <2>2, <3>3
      <4>2. contents[1] = elems[At(age.top, 1)]
        BY <1>4, <4>1
      <4>3. contents # <<>>
        BY <1>4, <3>3
      <4> QED
        BY <1>6, <4>1, <4>2, <4>3
    <3>5. contents' = SubSeq(contents, 1, Len(contents) - 1)
      BY SMTT(30), <1>4, <1>5, <3>3, <3>4, SequenceSteps
    <3>6. Abstract!PopLocal
      BY SMTT(30), <1>4, <2>1, <3>1, <3>3, <3>4, <3>5 DEF Abstract!PopLocal
    <3> QED
      BY <3>6 DEF Abstract!Next
  <2>3. CASE age # oldAge[Owner]
    <3>1. pc'[Owner] = "set_age" /\ UNCHANGED <<age, got>>
      BY SMTT(30), <1>1, <1>11, <1>19, <2>3 DEF claim_last, Goto
    <3>2. dirty' = N - 1 /\ dirty' = dirty
      BY <2>1, <3>1 DEF QInv, OwnerState, dirty
    <3>3. count' = count
      BY <1>7, <1>8, <1>9, <1>10, <3>2
    <3> QED
      BY <2>1, <3>1, <3>3, SameContents
  <2> QED
    BY <2>2, <2>3
<1>20. CASE set_age
  <2>1. /\ pc[Owner] = "set_age" /\ pc'[Owner] = "idle" /\ got' = [got EXCEPT ![Owner] = NoTask] /\ dirty = N - 1
        /\ age'.top = bottom /\ UNCHANGED bottom
    BY <1>1, <1>2, <1>11, <1>20 DEF set_age, newAge, Return, Goto, Set, OwnerState
  <2>2. dirty' = 0
    BY SMTT(30), <1>1, <2>1, DirtySteps DEF dirty
  <2>3. count = 0 /\ count' = 0
    BY <1>1, <1>7, <1>8, <1>9, <1>10, <2>1, <2>2
  <2>4. contents = <<>> /\ contents' = <<>>
    BY <1>4, <1>5, <2>3
  <2> QED
    BY <1>3, <2>1, <2>4
<1> QED
  BY SMTT(30), <1>12, <1>13, <1>14, <1>15, <1>16, <1>17, <1>18, <1>19, <1>20 DEF OwnerStep

\* Each step of a thief is one of the deque, or none.
LEMMA ThiefImplements ==
  ASSUME QInv, QInv', NEW p \in Thieves, ThiefStep(p)
  PROVE  Abstract!Next \/ UNCHANGED <<contents, got>>
<1>1. p \in Workers /\ p # Owner /\ Workers = Thieves \cup {Owner} /\ N \in Nat /\ N >= 4
  BY QueueAssumption DEF Workers
<1>2. pc = [q \in Workers |-> pc[q]] /\ got = [q \in Workers |-> got[q]] /\ ThiefState(p)
  BY DEF QInv, Types
<1>3. pc'[Owner] = pc[Owner]
  BY Zenon, <1>1, <1>2 DEF ThiefStep, pop_global, load_bottom, load_elem, claim_top, Return, Goto
<1>4. ASSUME UNCHANGED <<elems, bottom, age>>
      PROVE  UNCHANGED contents
  BY <1>3, <1>4 DEF contents, Contested
<1>5. ASSUME UNCHANGED <<elems, bottom, age>>, got' = [got EXCEPT ![p] = NoTask]
      PROVE  Abstract!Next
  BY Zenon, <1>4, <1>5 DEF Abstract!Next, Abstract!Done
<1>6. CASE pop_global(p)
  BY <1>5, <1>6 DEF pop_global, shared, Set
<1>7. CASE load_bottom(p)
  BY SMTT(30), <1>4, <1>5, <1>7 DEF load_bottom, shared, Return, Set
<1>8. CASE load_elem(p)
  BY <1>4, <1>8 DEF load_elem, shared
<1>9. CASE claim_top(p)
  <2>1. CASE age # oldAge[p]
    BY <1>5, <1>9, <2>1 DEF claim_top, Return, Set
  <2>2. CASE age = oldAge[p]
    <3>1. /\ pc[p] = "cmpxchg" /\ age' = increment(age) /\ UNCHANGED <<elems, bottom>>
          /\ got' = [got EXCEPT ![p] = t[p]]
          /\ \A q \in Workers \ {p} : /\ pc'[q] = pc[q] /\ oldAge'[q] = oldAge[q] /\ got'[q] = got[q]
                                      /\ t'[q] = t[q] /\ localBot'[q] = localBot[q]
      BY Zenon, <1>1, <1>9, <2>2 DEF claim_top, Return, Goto, Set, QInv, Types
    <3>2. Nonempty /\ t[p] = elems[age.top]
      BY <1>2, <2>2, <3>1 DEF ThiefState
    <3>3. /\ dirty \in Int /\ dirty' = (IF dirty = 0 THEN N - 1 ELSE dirty - 1) /\ dirty # N - 1
          /\ (dirty = 0 => Contested)
      BY <1>1, <3>1, <3>2, Stolen
    <3>4. count' = count - 1
      <4>1. count = dirty + (IF Contested THEN 1 ELSE 0)
        BY <1>1, <3>3 DEF count, size, dirty
      <4>2. count' = (IF dirty' = N - 1 THEN 0 ELSE dirty') + (IF Contested' THEN 1 ELSE 0)
        BY DEF count, size, dirty
      <4>3. Contested' <=> Contested /\ dirty' # N - 1
        BY <1>3, <3>3 DEF Contested, dirty
      <4>4. dirty \in 0 .. N - 1
        BY SMTT(60), <1>1, DirtySteps DEF QInv, Types, Ages, dirty, Indices
      <4> QED
        BY <1>1, <3>3, <4>1, <4>2, <4>3, <4>4
    <3>5. /\ count \in 0 .. N - 1 /\ contents \in Seq(Tasks \cup {NoTask}) /\ Len(contents) = count
          /\ \A i \in 1 .. count : contents[i] = elems[At(age.top, i)]
          /\ count # 0
      BY <3>2, ContentsSeq DEF IsContents, Nonempty
    <3>6. /\ count' \in 0 .. N - 1 /\ contents' \in Seq(Tasks \cup {NoTask}) /\ Len(contents') = count'
          /\ \A i \in 1 .. count' : contents'[i] = elems'[At(age'.top, i)]
      BY ContentsSeqNext DEF IsContents
    <3>7. /\ At(age.top, 1) = age.top
          /\ \A i \in 1 .. N - 1 : At(age'.top, i) = At(age.top, i + 1)
      <4>1. age \in Ages /\ age.top \in Indices /\ bottom \in Indices
        BY DEF QInv, Types, Ages
      <4>2. age'.top = increment_index(age.top)
        BY Zenon, <3>1, <4>1, AgeAdvances
      <4> QED
        BY <4>1, <4>2, Walk
    <3>8. contents # <<>> /\ Head(contents) = t[p] /\ \A i \in 1 .. count' : contents'[i] = contents[i + 1]
      <4>1. 1 \in 1 .. count /\ contents # <<>> /\ Head(contents) = contents[1]
        BY <3>5
      <4>2. ASSUME NEW i \in 1 .. count'
            PROVE  contents'[i] = contents[i + 1]
        <5>1. i \in 1 .. N - 1 /\ i + 1 \in 1 .. count
          BY <1>1, <3>4, <3>5
        <5> QED
          BY <3>1, <3>5, <3>6, <3>7, <5>1
      <4> QED
        BY <3>2, <3>5, <3>7, <4>1, <4>2
    <3>9. contents' = Tail(contents)
      BY <3>4, <3>5, <3>6, <3>8, SequenceSteps
    <3>10. Abstract!PopGlobal(p)
      BY Zenon, <3>1, <3>8, <3>9 DEF Abstract!PopGlobal
    <3> QED
      BY <3>10 DEF Abstract!Next
  <2> QED
    BY SMTT(60), <2>1, <2>2
<1> QED
  BY <1>6, <1>7, <1>8, <1>9 DEF ThiefStep

\* push, pop_local and pop_global are atomic operations on a deque: every task that is pushed is
\* returned once, to the owner the most recent and to thieves the least recent one, for every
\* size of the ring and every number of thieves.
THEOREM QueueIsDeque == Spec => ImplementsDeque
<1>1. Init => Abstract!Init
  <2> SUFFICES ASSUME Init
               PROVE  Abstract!Init
    OBVIOUS
  <2>1. size(bottom, age.top) = 0 /\ ~Contested
    <3>1. N \in Nat /\ N >= 4 /\ 0 \in Indices /\ Owner \in Workers
      BY QueueAssumption DEF Indices, Workers
    <3>2. dirty_size(bottom, age.top) = 0
      BY <3>1, DirtySteps DEF Init
    <3> QED
      BY <3>1, <3>2 DEF size, Init, Contested
  <2>2. contents = <<>>
    BY <2>1 DEF contents
  <2> QED
    BY <2>2 DEF Init, Abstract!Init, Workers
<1>2. QInv /\ QInv' /\ [Next]_vars => [Abstract!Next]_<<contents, got>>
  <2> SUFFICES ASSUME QInv, QInv', [Next]_vars
               PROVE  Abstract!Next \/ UNCHANGED <<contents, got>>
    OBVIOUS
  <2>1. CASE OwnerStep
    BY <2>1, OwnerImplements
  <2>2. CASE \E p \in Thieves : ThiefStep(p)
    BY <2>2, ThiefImplements
  <2>3. CASE UNCHANGED vars
    BY <2>3 DEF vars, contents, Contested
  <2> QED
    BY <2>1, <2>2, <2>3 DEF Next
<1> QED
  BY <1>1, <1>2, InvariantHolds, PTL DEF Spec, ImplementsDeque, Abstract!Spec
=============================================================================
