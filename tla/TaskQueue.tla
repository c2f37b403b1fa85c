------------------------------ MODULE TaskQueue ------------------------------
(***************************************************************************)
(* The work-stealing deque of the parallel collectors                      *)
(* (share/vm/utilities/taskqueue.hpp): GenericTaskQueue::push, pop_local   *)
(* and pop_global on _bottom, _age and a ring of N elements.  The owner    *)
(* pushes and pops at _bottom without a lock, thieves take at _age.top()   *)
(* with a CAS, and the tag in _age tells apart two visits to one index.    *)
(* Each action has one access to a word that another worker may write.     *)
(***************************************************************************)
EXTENDS Integers, Sequences, FiniteSets

CONSTANTS
  N,        \* TASKQUEUE_SIZE, a power of two
  Tasks,    \* what is pushed; a task is pushed again only after it was done
  Owner,
  Thieves,
  NoTask,
  MaxTag    \* bound of the model: nothing is pushed from this tag on (idx_t has 32 bits)

Workers == Thieves \cup {Owner}

ASSUME QueueAssumption ==
  /\ \E k \in 2 .. 30 : N = 2^k
  /\ N \in Nat /\ N >= 4
  /\ Owner \notin Thieves
  /\ NoTask \notin Tasks
  /\ MaxTag \in Nat

VARIABLES
  elems,     \* _elems
  bottom,    \* _bottom
  age,       \* _age: top and tag in one word
  pc,
  localBot,  \* the local of that name
  oldAge,    \* the local of that name
  t,         \* the task to push, or read from _elems
  got        \* the task that a successful pop has returned, until the worker's next call

vars == <<elems, bottom, age, pc, localBot, oldAge, t, got>>
shared == <<elems, bottom, age>>
locals == <<localBot, oldAge, t>>

Indices == 0 .. N - 1

\* increment_index, decrement_index and dirty_size work mod N.
increment_index(ind) == (ind + 1) % N
decrement_index(ind) == (ind + N - 1) % N
dirty_size(bot, top) == (bot + N - top) % N

\* A plausible bug: the wrapped size is taken at face value.
size_dirty(bot, top) == dirty_size(bot, top)

\* N - 1 is the size of a queue whose last task two pops have raced for.
size(bot, top) == IF dirty_size(bot, top) = N - 1 THEN 0 ELSE dirty_size(bot, top)

max_elems == N - 2

\* Age::increment: the tag counts how often top has come round.
increment(a) ==
  LET top == increment_index(a.top) IN [top |-> top, tag |-> IF top = 0 THEN a.tag + 1 ELSE a.tag]

-----------------------------------------------------------------------------
Init ==
  /\ elems = [i \in Indices |-> NoTask]
  /\ bottom = 0
  /\ age = [top |-> 0, tag |-> 0]
  /\ pc = [p \in Workers |-> "idle"]
  /\ localBot = [p \in Workers |-> 0]
  /\ oldAge = [p \in Workers |-> [top |-> 0, tag |-> 0]]
  /\ t = [p \in Workers |-> NoTask]
  /\ got = [p \in Workers |-> NoTask]

Goto(p, label) == pc' = [pc EXCEPT ![p] = label]

Set(f, p, value) == f' = [f EXCEPT ![p] = value]

\* Locals go out of scope when a pop returns, which keeps equal states equal.
Return(p, task) ==
  /\ Goto(p, "idle")
  /\ Set(got, p, task)
  /\ Set(localBot, p, 0)
  /\ Set(oldAge, p, [top |-> 0, tag |-> 0])
  /\ Set(t, p, NoTask)

\* The tasks that are pushed and not yet done, or still in somebody's hands.
Live == {elems[i] : i \in {j \in Indices : dirty_size(j, age.top) < size(bottom, age.top)}}
          \cup {t[p] : p \in Workers} \cup {got[p] : p \in Workers}

-----------------------------------------------------------------------------
(* The owner. *)

\* A dirty size of N - 1 "actually means 0".
push_slow(dirty_n_elems) == dirty_n_elems = N - 1

\* push reads top and goes on to the stores, or fails, the queue being full, and changes nothing.
push ==
  /\ pc[Owner] = "idle"
  /\ age.tag < MaxTag
  /\ LET n == dirty_size(bottom, age.top) IN n < max_elems \/ push_slow(n)
  /\ \E task \in Tasks \ Live : Set(t, Owner, task)
  /\ Goto(Owner, "store_elem")
  /\ Set(got, Owner, NoTask)
  /\ UNCHANGED <<shared, localBot, oldAge>>

store_elem ==
  /\ pc[Owner] = "store_elem"
  /\ elems' = [elems EXCEPT ![bottom] = t[Owner]]
  /\ Goto(Owner, "store_bottom")
  /\ UNCHANGED <<bottom, age, locals, got>>

\* release_store(&_bottom, increment_index(localBot)).
store_bottom ==
  /\ pc[Owner] = "store_bottom"
  /\ bottom' = increment_index(bottom)
  /\ Return(Owner, NoTask)
  /\ UNCHANGED <<elems, age>>

pop_local ==
  /\ pc[Owner] = "idle"
  /\ dirty_size(bottom, age.top) # 0
  /\ Set(localBot, Owner, decrement_index(bottom))
  /\ Goto(Owner, "decrement_bottom")
  /\ Set(got, Owner, NoTask)
  /\ UNCHANGED <<shared, oldAge, t>>

decrement_bottom ==
  /\ pc[Owner] = "decrement_bottom"
  /\ bottom' = localBot[Owner]
  /\ Goto(Owner, "read_top")
  /\ UNCHANGED <<elems, age, locals, got>>

\* The second read of _age.top() decides between the fast and the slow path.
read_top ==
  /\ pc[Owner] = "read_top"
  /\ \/ /\ size(localBot[Owner], age.top) > 0
        /\ Return(Owner, elems[localBot[Owner]])
     \/ /\ size(localBot[Owner], age.top) = 0
        /\ Set(t, Owner, elems[localBot[Owner]])
        /\ Goto(Owner, "pop_local_slow")
        /\ UNCHANGED <<localBot, oldAge, got>>
  /\ UNCHANGED shared

\* The read of _age that is passed to pop_local_slow, and the test on it.
pop_local_slow ==
  /\ pc[Owner] = "pop_local_slow"
  /\ Set(oldAge, Owner, age)
  /\ Goto(Owner, IF localBot[Owner] = age.top THEN "cmpxchg" ELSE "set_age")
  /\ UNCHANGED <<shared, localBot, t, got>>

\* A plausible bug: an owner that takes its last task leaves the tag as it was.
newAge_sametag == [top |-> localBot[Owner], tag |-> oldAge[Owner].tag]

newAge == [top |-> localBot[Owner], tag |-> oldAge[Owner].tag + 1]

\* The CAS of pop_local_slow: the owner wins its last task or loses it to a thief.
claim_last ==
  /\ pc[Owner] = "cmpxchg"
  /\ \/ age = oldAge[Owner] /\ age' = newAge /\ Return(Owner, t[Owner])
     \/ age # oldAge[Owner] /\ Goto(Owner, "set_age") /\ UNCHANGED <<age, locals, got>>
  /\ UNCHANGED <<elems, bottom>>

\* _age.set(newAge): the empty queue in its canonical form.
set_age ==
  /\ pc[Owner] = "set_age"
  /\ age' = newAge
  /\ Return(Owner, NoTask)
  /\ UNCHANGED <<elems, bottom>>

-----------------------------------------------------------------------------
(* A thief. *)

pop_global(p) ==
  /\ pc[p] = "idle"
  /\ Set(oldAge, p, age)
  /\ Goto(p, "load_bottom")
  /\ Set(got, p, NoTask)
  /\ UNCHANGED <<shared, localBot, t>>

load_bottom(p) ==
  /\ pc[p] = "load_bottom"
  /\ \/ size(bottom, oldAge[p].top) = 0 /\ Return(p, NoTask)
     \/ /\ size(bottom, oldAge[p].top) > 0
        /\ Set(localBot, p, bottom)
        /\ Goto(p, "load_elem")
        /\ UNCHANGED <<oldAge, t, got>>
  /\ UNCHANGED shared

load_elem(p) ==
  /\ pc[p] = "load_elem"
  /\ Set(t, p, elems[oldAge[p].top])
  /\ Goto(p, "cmpxchg")
  /\ UNCHANGED <<shared, localBot, oldAge, got>>

\* The CAS of pop_global; a thief that loses returns false.
claim_top(p) ==
  /\ pc[p] = "cmpxchg"
  /\ \/ age = oldAge[p] /\ age' = increment(age) /\ Return(p, t[p])
     \/ age # oldAge[p] /\ Return(p, NoTask) /\ UNCHANGED age
  /\ UNCHANGED <<elems, bottom>>

-----------------------------------------------------------------------------
OwnerStep ==
  \/ push \/ store_elem \/ store_bottom
  \/ pop_local \/ decrement_bottom \/ read_top \/ pop_local_slow \/ claim_last \/ set_age

ThiefStep(p) == pop_global(p) \/ load_bottom(p) \/ load_elem(p) \/ claim_top(p)

Next == OwnerStep \/ (\E p \in Thieves : ThiefStep(p))

Spec == Init /\ [][Next]_vars

-----------------------------------------------------------------------------
(* Properties. *)

\* The owner has taken _bottom below its last task and does not know yet whose it is.
Contested == pc[Owner] \in {"read_top", "pop_local_slow", "cmpxchg"} /\ dirty_size(bottom, age.top) # N - 1

\* The tasks in the queue, from top to _bottom, with the contested one.
contents ==
  [i \in 1 .. size(bottom, age.top) + (IF Contested THEN 1 ELSE 0) |-> elems[(age.top + i - 1) % N]]

Abstract == INSTANCE AbstractDeque WITH queue <- contents

\* push, pop_local and pop_global are atomic operations on a deque: every task that is pushed
\* is returned once, to its owner the most recent and to thieves the least recent one, whatever
\* races for the last task, stale reads of _age, _bottom and _elems, and reuse of the ring do.
ImplementsDeque == Abstract!Spec

\* The assertions of pop_local, "Shouldn't be possible..." and "sanity": outside of pop_local the
\* size N - 1 does not occur.  And what pop_local_slow relies on when it stores _age without a
\* CAS: after it has lost the last task no thief can take anything.
Canonical ==
  /\ pc[Owner] \in {"idle", "store_elem", "store_bottom", "decrement_bottom"} => dirty_size(bottom, age.top) # N - 1
  /\ pc[Owner] = "set_age" =>
       /\ contents = <<>>
       /\ \A p \in Thieves : pc[p] \in {"load_elem", "cmpxchg"} => oldAge[p] # age
=============================================================================
