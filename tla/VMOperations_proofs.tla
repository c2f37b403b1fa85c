-------------------------- MODULE VMOperations_proofs --------------------------
(***************************************************************************)
(* The VM thread never touches an operation whose caller has returned, and *)
(* evaluates each blocking operation once, for all threads and all modes.  *)
(***************************************************************************)
EXTENDS VMOperations, TLAPS

Ops == [calling_thread : Requesters, mode : AllModes]

Blocking(o) == ~evaluate_concurrently(o)

Types ==
  /\ pc = [t \in Requesters |-> pc[t]]
  /\ op = [t \in Requesters |-> op[t]]
  /\ started = [t \in Requesters |-> started[t]]
  /\ completed = [t \in Requesters |-> completed[t]]
  /\ evaluated = [t \in Requesters |-> evaluated[t]]
  /\ safepoint_queue \in Seq(Ops) /\ medium_queue \in Seq(Ops) /\ safepoint_ops \in Seq(Ops)

\* The counts of a thread, by where it is in execute().
TicketsOf(t) ==
  /\ pc[t] \in {"idle", "prologue", "add", "check", "waiting", "epilogue"}
  /\ pc[t] \in {"idle", "prologue"} => started[t] = 0 /\ evaluated[t] = 0 /\ completed[t] = 0
  /\ pc[t] # "idle" => op[t] \in Ops /\ op[t].calling_thread = t
  /\ pc[t] = "add" => started[t] = (IF Blocking(op[t]) THEN 1 ELSE 0) /\ evaluated[t] = 0 /\ completed[t] = 0
  /\ pc[t] \in {"check", "waiting"} => /\ Blocking(op[t]) /\ started[t] = 1
                                       /\ evaluated[t] \in {0, 1} /\ completed[t] \in 0..evaluated[t]
  /\ pc[t] = "epilogue" => started[t] = 1 /\ evaluated[t] = 1 /\ completed[t] = 1

Tickets == \A t \in Requesters : TicketsOf(t)

\* An operation that waits to be evaluated: if it blocks its caller, the caller is in execute().
Unevaluated(o) ==
  /\ o \in Ops
  /\ Blocking(o) => Alive(o) /\ evaluated[o.calling_thread] = 0 /\ completed[o.calling_thread] = 0

\* An operation that has been evaluated, but not completed: its caller is still there.
Uncompleted(o) ==
  /\ o \in Ops
  /\ Blocking(o) => Alive(o) /\ evaluated[o.calling_thread] = 1 /\ completed[o.calling_thread] = 0

\* The VM thread has an operation in hand that it has not evaluated.
InHand == vm_pc \in {"execute", "evaluate", "nested"} \/ (vm_pc = "begin" /\ back \in {"evaluate", "nested"})

\* Where the VM thread is says whether it is at a safepoint and whether an operation is nested.
Flow ==
  /\ vm_pc \in {"loop", "waiting", "recheck", "notify", "evaluated", "execute", "exit"} => ~at_safepoint /\ prev_vm_operation = NULL
  /\ vm_pc \in {"batch", "drain", "end", "cleanup", "regular", "gone"} => at_safepoint /\ prev_vm_operation = NULL
  /\ vm_pc \in {"evaluate", "complete"} =>
       prev_vm_operation = NULL /\ (at_safepoint <=> evaluate_at_safepoint(cur_vm_operation))
  /\ vm_pc = "nested" => at_safepoint /\ prev_vm_operation # NULL
  /\ vm_pc = "begin" =>
       /\ ~at_safepoint
       /\ back \in {"cleanup", "evaluate", "nested", "regular", "gone"}
       /\ back = "nested" <=> prev_vm_operation # NULL
       /\ back = "evaluate" => evaluate_at_safepoint(cur_vm_operation)
       /\ back = "nested" => ~evaluate_at_safepoint(prev_vm_operation)

\* Every operation that the VM thread can still come to is alive.
Queued ==
  /\ \A o \in On(safepoint_queue) \cup On(safepoint_ops) : Unevaluated(o) /\ evaluate_at_safepoint(o)
  /\ \A o \in On(medium_queue) : Unevaluated(o) /\ ~evaluate_at_safepoint(o)
  /\ InHand => Unevaluated(Outer)
  /\ vm_pc = "complete" => Uncompleted(cur_vm_operation)

Once(q) == \A i, j \in DOMAIN q : Blocking(q[i]) /\ q[i] = q[j] => i = j

\* A blocking operation is in one place only.
OnePlace ==
  /\ Once(safepoint_queue) /\ Once(medium_queue) /\ Once(safepoint_ops)
  /\ \A o \in On(safepoint_queue) : Blocking(o) => o \notin On(safepoint_ops)
  /\ InHand /\ Blocking(Outer) => Outer \notin On(safepoint_queue) \cup On(medium_queue) \cup On(safepoint_ops)

\* The drain list is the batch while an operation of the batch is evaluated, and else empty.
Draining ==
  /\ drain_list \in {<<>>, safepoint_ops}
  /\ (InHand /\ vm_pc # "execute") \/ vm_pc = "complete" =>
       drain_list = safepoint_ops /\ (evaluate_at_safepoint(Outer) \/ safepoint_ops = <<>>)
  /\ vm_pc = "execute" => evaluate_at_safepoint(Outer) \/ safepoint_ops = <<>>
  /\ vm_pc = "drain" => safepoint_ops = <<>>
  /\ ~(InHand \/ vm_pc \in {"complete", "batch", "drain"}) \/ vm_pc = "execute" => drain_list = <<>>

\* A step of one requester, or of the VM thread for it, leaves the others alone.
OthersKept(t) ==
  /\ pc' = [u \in Requesters |-> pc'[u]] /\ op' = [u \in Requesters |-> op'[u]]
  /\ started' = [u \in Requesters |-> started'[u]]
  /\ completed' = [u \in Requesters |-> completed'[u]]
  /\ evaluated' = [u \in Requesters |-> evaluated'[u]]
  /\ \A u \in Requesters \ {t} :
       /\ pc'[u] = pc[u] /\ op'[u] = op[u] /\ started'[u] = started[u]
       /\ completed'[u] = completed[u] /\ evaluated'[u] = evaluated[u]

VInv == Types /\ Tickets /\ Flow /\ Queued /\ OnePlace /\ Draining

\* What is on a queue after an operation is added at its end.
LEMMA OnAppend ==
  ASSUME NEW q \in Seq(Ops), NEW o \in Ops
  PROVE  /\ On(Append(q, o)) = On(q) \cup {o} /\ Append(q, o) \in Seq(Ops)
         /\ Once(q) /\ (Blocking(o) => o \notin On(q)) => Once(Append(q, o))
  BY DEF On, Once

\* Taking the front leaves the rest, in which a blocking operation is not a second time.
LEMMA OnTail ==
  ASSUME NEW q \in Seq(Ops), q # <<>>
  PROVE  /\ Head(q) \in On(q) /\ On(Tail(q)) \subseteq On(q) /\ Head(q) \in Ops /\ Tail(q) \in Seq(Ops)
         /\ Once(q) => Once(Tail(q)) /\ (Blocking(Head(q)) => Head(q) \notin On(Tail(q)))
<1> DEFINE s == Tail(q)
<1>1. /\ s \in Seq(Ops) /\ Len(s) = Len(q) - 1 /\ Len(q) > 0 /\ Head(q) = q[1] /\ q[1] \in Ops
      /\ DOMAIN q = 1..Len(q) /\ DOMAIN s = 1..Len(s)
      /\ \A i \in 1..Len(s) : s[i] = q[i + 1] /\ i + 1 \in 1..Len(q)
  OBVIOUS
<1> HIDE DEF s
<1>2. Head(q) \in On(q) /\ On(s) \subseteq On(q)
  BY SMTT(60), <1>1 DEF On
<1>3. ASSUME Once(q) PROVE Once(s)
  <2> SUFFICES ASSUME NEW i \in 1..Len(s), NEW j \in 1..Len(s), Blocking(s[i]), s[i] = s[j]
               PROVE  i = j
    BY <1>1 DEF Once
  <2>1. i + 1 = j + 1
    BY Zenon, <1>1, <1>3 DEF Once
  <2> QED
    BY <2>1
<1>4. ASSUME Once(q), Blocking(Head(q)) PROVE Head(q) \notin On(s)
  BY SMTT(30), <1>1, <1>4 DEF Once, On
<1> QED
  BY <1>1, <1>2, <1>3, <1>4 DEF s

\* An empty queue holds nothing.
LEMMA OnEmpty == On(<<>>) = {} /\ Once(<<>>) /\ <<>> \in Seq(Ops)
  BY DEF On, Once

\* NULL is not an operation.
LEMMA NullNoOperation == NULL \notin Ops
  BY VMOperationsAssumption DEF Ops

\* The queues that hold blocking operations hold different ones.
LEMMA QueuesDisjoint ==
  ASSUME Queued
  PROVE  \A o \in On(medium_queue) : o \notin On(safepoint_queue) \cup On(safepoint_ops)
  BY DEF Queued

\* What remove_next finds.
LEMMA RemoveNextEffect ==
  ASSUME Types, NEW drains \in BOOLEAN, remove_next(drains)
  PROVE  \/ /\ cur_vm_operation' = NULL /\ safepoint_ops' = <<>> /\ UNCHANGED <<safepoint_queue, medium_queue>>
         \/ /\ medium_queue # <<>> /\ cur_vm_operation' = Head(medium_queue)
            /\ medium_queue' = Tail(medium_queue) /\ safepoint_ops' = <<>> /\ UNCHANGED safepoint_queue
         \/ /\ safepoint_queue # <<>> /\ cur_vm_operation' = Head(safepoint_queue)
            /\ \/ safepoint_queue' = Tail(safepoint_queue) /\ safepoint_ops' = <<>>
               \/ safepoint_queue' = <<>> /\ safepoint_ops' = Tail(safepoint_queue)
            /\ UNCHANGED medium_queue
  BY DEF remove_next, First, Rest

\* The operations stay alive when no thread that waits for one leaves execute().
LEMMA QueuedKept ==
  ASSUME Queued,
         \A u \in Requesters :
           pc[u] \in {"check", "waiting"} /\ completed[u] = 0 =>
             /\ pc'[u] \in {"check", "waiting"} /\ op'[u] = op[u]
             /\ evaluated'[u] = evaluated[u] /\ completed'[u] = completed[u],
         UNCHANGED <<safepoint_ops, cur_vm_operation, prev_vm_operation>>,
         InHand' => InHand, vm_pc' = "complete" => vm_pc = "complete",
         \A o \in On(safepoint_queue') \ On(safepoint_queue) : Unevaluated(o)' /\ evaluate_at_safepoint(o),
         \A o \in On(medium_queue') \ On(medium_queue) : Unevaluated(o)' /\ ~evaluate_at_safepoint(o)
  PROVE  Queued'
<1>1. \A o : Unevaluated(o) => Unevaluated(o)'
  BY DEF Unevaluated, Alive, Blocking, Ops
<1>2. Uncompleted(cur_vm_operation) => Uncompleted(cur_vm_operation)'
  BY DEF Uncompleted, Alive, Blocking, Ops
<1>3. Unevaluated(Outer) => Unevaluated(Outer)'
  BY DEF Unevaluated, Alive, Blocking, Ops, Outer
<1>4. \A o \in On(safepoint_queue') \cup On(safepoint_ops') : Unevaluated(o)' /\ evaluate_at_safepoint(o)
  BY <1>1 DEF Queued
<1>5. \A o \in On(medium_queue') : Unevaluated(o)' /\ ~evaluate_at_safepoint(o)
  BY <1>1 DEF Queued
<1> QED
  BY <1>2, <1>3, <1>4, <1>5 DEF Queued

\* The tickets of the other threads are not touched.
LEMMA TicketsKept ==
  ASSUME Tickets, NEW t \in Requesters, OthersKept(t), TicketsOf(t)'
  PROVE  Tickets'
  BY DEF Tickets, TicketsOf, OthersKept

\* A thread's steps in execute().
LEMMA RequesterKeeps ==
  ASSUME VInv, NEW t \in Requesters, execute(t) \/ RequesterStep(t)
  PROVE  VInv'
<1> USE DEF VInv
<1>1. TicketsOf(t)
  BY DEF Tickets
<1>2. CASE execute(t)
  <2>1. PICK mode \in AllModes : op' = [op EXCEPT ![t] = Operation(t, mode)]
    BY Zenon, <1>2, VMOperationsAssumption DEF execute
  <2>2. /\ pc[t] = "idle" /\ pc'[t] = "prologue" /\ op'[t] \in Ops /\ op'[t].calling_thread = t
        /\ UNCHANGED <<started, completed, evaluated>>
        /\ OthersKept(t)
        /\ UNCHANGED <<vm_pc, back, at_safepoint, current>>
        /\ UNCHANGED <<safepoint_queue, medium_queue>>
    BY Zenon, <2>1, <1>2 DEF execute, Goto, Operation, Ops, queues, current, safepoint, Types, OthersKept
  <2>3. Types'
    BY <2>2 DEF Types, OthersKept, current
  <2>4. TicketsOf(t)'
    BY <1>1, <2>2, <1>2 DEF TicketsOf
  <2>5. Tickets'
    BY <2>2, <2>4, TicketsKept
  <2>6. Flow'
    BY <2>2 DEF Flow, current
  <2>7. \A u \in Requesters :
          pc[u] \in {"check", "waiting"} /\ completed[u] = 0 =>
            /\ pc'[u] \in {"check", "waiting"} /\ op'[u] = op[u]
            /\ evaluated'[u] = evaluated[u] /\ completed'[u] = completed[u]
    BY <1>1, <2>2, <1>2 DEF OthersKept, TicketsOf
  <2>8. Queued'
    BY <2>2, <2>7, QueuedKept DEF InHand, current
  <2>9. OnePlace'
    BY <2>2 DEF OnePlace, InHand, Outer, current
  <2>10. Draining'
    BY <2>2 DEF Draining, InHand, Outer, current
  <2> QED
    BY <2>3, <2>5, <2>6, <2>8, <2>9, <2>10
<1>3. CASE doit_prologue(t)
  <2>1. CASE pc'[t] = "idle"
    <3>1. /\ pc[t] = "prologue" /\ op'[t] = NULL
          /\ UNCHANGED <<started, completed, evaluated>>
          /\ OthersKept(t)
          /\ UNCHANGED <<vm_pc, back, at_safepoint, current>>
          /\ UNCHANGED <<safepoint_queue, medium_queue>>
      BY <1>1, <1>3, <2>1
         DEF doit_prologue, Goto, Blocking, TicketsOf, queues, current, safepoint, Types, OthersKept
    <3>2. Types'
      BY <3>1 DEF Types, OthersKept, current
    <3>3. TicketsOf(t)'
      BY <1>1, <3>1, <2>1 DEF TicketsOf
    <3>4. Tickets'
      BY <3>1, <3>3, TicketsKept
    <3>5. Flow'
      BY <3>1 DEF Flow, current
    <3>6. \A u \in Requesters :
            pc[u] \in {"check", "waiting"} /\ completed[u] = 0 =>
              /\ pc'[u] \in {"check", "waiting"} /\ op'[u] = op[u]
              /\ evaluated'[u] = evaluated[u] /\ completed'[u] = completed[u]
      BY <1>1, <3>1, <2>1 DEF OthersKept, TicketsOf
    <3>7. Queued'
      BY <3>1, <3>6, QueuedKept DEF InHand, current
    <3>8. OnePlace'
      BY <3>1 DEF OnePlace, InHand, Outer, current
    <3>9. Draining'
      BY <3>1 DEF Draining, InHand, Outer, current
    <3> QED
      BY <3>2, <3>4, <3>5, <3>7, <3>8, <3>9
  <2>2. CASE pc'[t] # "idle"
    <3>1. /\ pc[t] = "prologue" /\ pc'[t] = "add" /\ started'[t] = (IF Blocking(op[t]) THEN 1 ELSE 0)
          /\ UNCHANGED <<op, completed, evaluated>>
          /\ OthersKept(t)
          /\ UNCHANGED <<vm_pc, back, at_safepoint, current>>
          /\ UNCHANGED <<safepoint_queue, medium_queue>>
      BY <1>1, <1>3, <2>2
         DEF doit_prologue, Goto, Blocking, TicketsOf, queues, current, safepoint, Types, OthersKept
    <3>2. Types'
      BY <3>1 DEF Types, OthersKept, current
    <3>3. TicketsOf(t)'
      BY <1>1, <3>1, <2>2 DEF TicketsOf
    <3>4. Tickets'
      BY SMTT(30), <3>1, <3>3, TicketsKept
    <3>5. Flow'
      BY <3>1 DEF Flow, current
    <3>6. \A u \in Requesters :
            pc[u] \in {"check", "waiting"} /\ completed[u] = 0 =>
              /\ pc'[u] \in {"check", "waiting"} /\ op'[u] = op[u]
              /\ evaluated'[u] = evaluated[u] /\ completed'[u] = completed[u]
      BY <1>1, <3>1, <2>2 DEF OthersKept, TicketsOf
    <3>7. Queued'
      BY <3>1, <3>6, QueuedKept DEF InHand, current
    <3>8. OnePlace'
      BY <3>1 DEF OnePlace, InHand, Outer, current
    <3>9. Draining'
      BY <3>1 DEF Draining, InHand, Outer, current
    <3> QED
      BY <3>2, <3>4, <3>5, <3>7, <3>8, <3>9
  <2> QED
    BY <2>1, <2>2
<1>4. CASE add(t)
  <2>1. CASE evaluate_at_safepoint(op[t]) /\ Blocking(op[t])
    <3>1. /\ pc[t] = "add" /\ pc'[t] = "check" /\ op'[t] = op[t]
          /\ UNCHANGED <<started, completed, evaluated>>
          /\ OthersKept(t)
          /\ UNCHANGED <<vm_pc, back, at_safepoint, current>>
      BY <1>4, <2>1 DEF add, Goto, Blocking, queues, current, safepoint, Types, OthersKept
    <3>2. /\ safepoint_queue' = Append(safepoint_queue, op[t]) /\ safepoint_queue \in Seq(Ops) /\ op[t] \in Ops
          /\ UNCHANGED medium_queue
      BY <1>1, <1>4, <2>1 DEF add, Types, TicketsOf
    <3>3. /\ safepoint_queue' \in Seq(Ops) /\ On(safepoint_queue') = On(safepoint_queue) \cup {op[t]}
          /\ op[t] \in Ops /\ UNCHANGED medium_queue
          /\ Once(safepoint_queue) /\ (Blocking(op[t]) => op[t] \notin On(safepoint_queue)) => Once(safepoint_queue')
      BY <3>2, OnAppend
    <3>4. Types'
      BY <3>1, <3>3 DEF Types, OthersKept, current
    <3>5. TicketsOf(t)'
      BY <1>1, <3>1, <2>1 DEF TicketsOf
    <3>6. Tickets'
      BY <3>1, <3>5, TicketsKept
    <3>7. Flow'
      BY <3>1 DEF Flow, current
    <3>8. \A u \in Requesters :
            pc[u] \in {"check", "waiting"} /\ completed[u] = 0 =>
              /\ pc'[u] \in {"check", "waiting"} /\ op'[u] = op[u]
              /\ evaluated'[u] = evaluated[u] /\ completed'[u] = completed[u]
      BY <1>1, <3>1, <2>1 DEF OthersKept, TicketsOf
    <3>9. \A o \in On(safepoint_queue') \ On(safepoint_queue) : Unevaluated(o)'
      BY <1>1, <3>1, <3>3, <2>1 DEF Unevaluated, Alive, TicketsOf
    <3>10. Queued'
      BY Zenon, <3>1, <3>8, <3>3, <3>9, <2>1, QueuedKept DEF InHand, current
    <3>11. Blocking(op[t]) => /\ op[t] \notin On(safepoint_queue) \cup On(medium_queue) \cup On(safepoint_ops)
                              /\ InHand => Outer # op[t]
      BY Zenon, <1>1, <3>1, <3>3 DEF Queued, Unevaluated, Alive, Blocking, TicketsOf
    <3>12. OnePlace'
      BY SMTT(60), <3>1, <3>3, <3>11 DEF OnePlace, InHand, Outer, current
    <3>13. Draining'
      BY <3>1, <3>3 DEF Draining, InHand, Outer, current
    <3> QED
      BY <3>4, <3>6, <3>7, <3>10, <3>12, <3>13
  <2>2. CASE evaluate_at_safepoint(op[t]) /\ ~Blocking(op[t])
    <3>1. /\ pc[t] = "add" /\ pc'[t] = "idle" /\ op'[t] = NULL
          /\ UNCHANGED <<started, completed, evaluated>>
          /\ OthersKept(t)
          /\ UNCHANGED <<vm_pc, back, at_safepoint, current>>
      BY <1>4, <2>2 DEF add, Goto, Blocking, queues, current, safepoint, Types, OthersKept
    <3>2. /\ safepoint_queue' = Append(safepoint_queue, op[t]) /\ safepoint_queue \in Seq(Ops) /\ op[t] \in Ops
          /\ UNCHANGED medium_queue
      BY <1>1, <1>4, <2>2 DEF add, Types, TicketsOf
    <3>3. /\ safepoint_queue' \in Seq(Ops) /\ On(safepoint_queue') = On(safepoint_queue) \cup {op[t]}
          /\ op[t] \in Ops /\ UNCHANGED medium_queue
          /\ Once(safepoint_queue) /\ (Blocking(op[t]) => op[t] \notin On(safepoint_queue)) => Once(safepoint_queue')
      BY <3>2, OnAppend
    <3>4. Types'
      BY <3>1, <3>3 DEF Types, OthersKept, current
    <3>5. TicketsOf(t)'
      BY <1>1, <3>1, <2>2 DEF TicketsOf
    <3>6. Tickets'
      BY SMTT(30), <3>1, <3>5, TicketsKept
    <3>7. Flow'
      BY <3>1 DEF Flow, current
    <3>8. \A u \in Requesters :
            pc[u] \in {"check", "waiting"} /\ completed[u] = 0 =>
              /\ pc'[u] \in {"check", "waiting"} /\ op'[u] = op[u]
              /\ evaluated'[u] = evaluated[u] /\ completed'[u] = completed[u]
      BY <1>1, <3>1, <2>2 DEF OthersKept, TicketsOf
    <3>9. \A o \in On(safepoint_queue') \ On(safepoint_queue) : Unevaluated(o)'
      BY <1>1, <3>1, <3>3, <2>2 DEF Unevaluated, Alive, TicketsOf
    <3>10. Queued'
      BY Zenon, SMTT(60), <3>1, <3>8, <3>3, <3>9, <2>2, QueuedKept DEF InHand, current
    <3>11. Blocking(op[t]) => /\ op[t] \notin On(safepoint_queue) \cup On(medium_queue) \cup On(safepoint_ops)
                              /\ InHand => Outer # op[t]
      BY Zenon, SMTT(60), <1>1, <3>1, <3>3 DEF Queued, Unevaluated, Alive, Blocking, TicketsOf
    <3>12. OnePlace'
      BY <3>1, <3>3, <3>11 DEF OnePlace, InHand, Outer, current
    <3>13. Draining'
      BY <3>1, <3>3 DEF Draining, InHand, Outer, current
    <3> QED
      BY <3>4, <3>6, <3>7, <3>10, <3>12, <3>13
  <2>3. CASE ~evaluate_at_safepoint(op[t]) /\ Blocking(op[t])
    <3>1. /\ pc[t] = "add" /\ pc'[t] = "check" /\ op'[t] = op[t]
          /\ UNCHANGED <<started, completed, evaluated>>
          /\ OthersKept(t)
          /\ UNCHANGED <<vm_pc, back, at_safepoint, current>>
      BY <1>4, <2>3 DEF add, Goto, Blocking, queues, current, safepoint, Types, OthersKept
    <3>2. /\ medium_queue' = Append(medium_queue, op[t]) /\ medium_queue \in Seq(Ops) /\ op[t] \in Ops
          /\ UNCHANGED safepoint_queue
      BY <1>1, <1>4, <2>3 DEF add, Types, TicketsOf
    <3>3. /\ medium_queue' \in Seq(Ops) /\ On(medium_queue') = On(medium_queue) \cup {op[t]} /\ op[t] \in Ops
          /\ UNCHANGED safepoint_queue
          /\ Once(medium_queue) /\ (Blocking(op[t]) => op[t] \notin On(medium_queue)) => Once(medium_queue')
      BY <3>2, OnAppend
    <3>4. Types'
      BY <3>1, <3>3 DEF Types, OthersKept, current
    <3>5. TicketsOf(t)'
      BY <1>1, <3>1, <2>3 DEF TicketsOf
    <3>6. Tickets'
      BY <3>1, <3>5, TicketsKept
    <3>7. Flow'
      BY <3>1 DEF Flow, current
    <3>8. \A u \in Requesters :
            pc[u] \in {"check", "waiting"} /\ completed[u] = 0 =>
              /\ pc'[u] \in {"check", "waiting"} /\ op'[u] = op[u]
              /\ evaluated'[u] = evaluated[u] /\ completed'[u] = completed[u]
      BY <1>1, <3>1, <2>3 DEF OthersKept, TicketsOf
    <3>9. \A o \in On(medium_queue') \ On(medium_queue) : Unevaluated(o)'
      BY SMTT(60), <1>1, <3>1, <3>3, <2>3 DEF Unevaluated, Alive, TicketsOf
    <3>10. Queued'
      BY Zenon, SMTT(60), <3>1, <3>8, <3>3, <3>9, <2>3, QueuedKept DEF InHand, current
    <3>11. Blocking(op[t]) => /\ op[t] \notin On(safepoint_queue) \cup On(medium_queue) \cup On(safepoint_ops)
                              /\ InHand => Outer # op[t]
      BY ZenonT(30), SMTT(60), <1>1, <3>1, <3>3 DEF Queued, Unevaluated, Alive, Blocking, TicketsOf
    <3>12. OnePlace'
      BY <3>1, <3>3, <3>11 DEF OnePlace, InHand, Outer, current
    <3>13. Draining'
      BY Zenon, <3>1, <3>3 DEF Draining, InHand, Outer, current
    <3> QED
      BY <3>4, <3>6, <3>7, <3>10, <3>12, <3>13
  <2>4. CASE ~evaluate_at_safepoint(op[t]) /\ ~Blocking(op[t])
    <3>1. /\ pc[t] = "add" /\ pc'[t] = "idle" /\ op'[t] = NULL
          /\ UNCHANGED <<started, completed, evaluated>>
          /\ OthersKept(t)
          /\ UNCHANGED <<vm_pc, back, at_safepoint, current>>
      BY <1>4, <2>4 DEF add, Goto, Blocking, queues, current, safepoint, Types, OthersKept
    <3>2. /\ medium_queue' = Append(medium_queue, op[t]) /\ medium_queue \in Seq(Ops) /\ op[t] \in Ops
          /\ UNCHANGED safepoint_queue
      BY <1>1, <1>4, <2>4 DEF add, Types, TicketsOf
    <3>3. /\ medium_queue' \in Seq(Ops) /\ On(medium_queue') = On(medium_queue) \cup {op[t]} /\ op[t] \in Ops
          /\ UNCHANGED safepoint_queue
          /\ Once(medium_queue) /\ (Blocking(op[t]) => op[t] \notin On(medium_queue)) => Once(medium_queue')
      BY <3>2, OnAppend
    <3>4. Types'
      BY SMTT(60), <3>1, <3>3 DEF Types, OthersKept, current
    <3>5. TicketsOf(t)'
      BY Zenon, <1>1, <3>1, <2>4 DEF TicketsOf
    <3>6. Tickets'
      BY <3>1, <3>5, TicketsKept
    <3>7. Flow'
      BY <3>1 DEF Flow, current
    <3>8. \A u \in Requesters :
            pc[u] \in {"check", "waiting"} /\ completed[u] = 0 =>
              /\ pc'[u] \in {"check", "waiting"} /\ op'[u] = op[u]
              /\ evaluated'[u] = evaluated[u] /\ completed'[u] = completed[u]
      BY SMTT(30), <1>1, <3>1, <2>4 DEF OthersKept, TicketsOf
    <3>9. \A o \in On(medium_queue') \ On(medium_queue) : Unevaluated(o)'
      BY <3>3, <2>4 DEF Unevaluated
    <3>10. Queued'
      BY Zenon, SMTT(60), <3>1, <3>8, <3>3, <3>9, <2>4, QueuedKept DEF InHand, current
    <3>11. Blocking(op[t]) => /\ op[t] \notin On(safepoint_queue) \cup On(medium_queue) \cup On(safepoint_ops)
                              /\ InHand => Outer # op[t]
      BY SMTT(30), <2>4
    <3>12. OnePlace'
      BY SMTT(30), <3>1, <3>3, <3>11 DEF OnePlace, InHand, Outer, current
    <3>13. Draining'
      BY <3>1, <3>3 DEF Draining, InHand, Outer, current
    <3> QED
      BY <3>4, <3>6, <3>7, <3>10, <3>12, <3>13
  <2> QED
    BY <2>1, <2>2, <2>3, <2>4
<1>5. CASE check_completed(t)
  <2>1. CASE completed[t] < started[t]
    <3>1. /\ pc[t] = "check" /\ pc'[t] = "waiting"
          /\ UNCHANGED <<op, started, completed, evaluated>>
          /\ OthersKept(t)
          /\ UNCHANGED <<vm_pc, back, at_safepoint, current>>
          /\ UNCHANGED <<safepoint_queue, medium_queue>>
      BY Zenon, <1>5, <2>1 DEF check_completed, Goto, queues, current, safepoint, Types, OthersKept
    <3>2. Types'
      BY <3>1 DEF Types, OthersKept, current
    <3>3. TicketsOf(t)'
      BY <1>1, <3>1, <2>1 DEF TicketsOf
    <3>4. Tickets'
      BY SMTT(30), <3>1, <3>3, TicketsKept
    <3>5. Flow'
      BY <3>1 DEF Flow, current
    <3>6. \A u \in Requesters :
            pc[u] \in {"check", "waiting"} /\ completed[u] = 0 =>
              /\ pc'[u] \in {"check", "waiting"} /\ op'[u] = op[u]
              /\ evaluated'[u] = evaluated[u] /\ completed'[u] = completed[u]
      BY <1>1, <3>1, <2>1 DEF OthersKept, TicketsOf
    <3>7. Queued'
      BY SMTT(30), <3>1, <3>6, QueuedKept DEF InHand, current
    <3>8. OnePlace'
      BY <3>1 DEF OnePlace, InHand, Outer, current
    <3>9. Draining'
      BY <3>1 DEF Draining, InHand, Outer, current
    <3> QED
      BY <3>2, <3>4, <3>5, <3>7, <3>8, <3>9
  <2>2. CASE ~(completed[t] < started[t])
    <3>1. /\ pc[t] = "check" /\ pc'[t] = "epilogue"
          /\ UNCHANGED <<op, started, completed, evaluated>>
          /\ OthersKept(t)
          /\ UNCHANGED <<vm_pc, back, at_safepoint, current>>
          /\ UNCHANGED <<safepoint_queue, medium_queue>>
      BY Zenon, <1>5, <2>2 DEF check_completed, Goto, queues, current, safepoint, Types, OthersKept
    <3>2. Types'
      BY <3>1 DEF Types, OthersKept, current
    <3>3. TicketsOf(t)'
      BY <1>1, <3>1, <2>2 DEF TicketsOf
    <3>4. Tickets'
      BY SMTT(30), <3>1, <3>3, TicketsKept
    <3>5. Flow'
      BY <3>1 DEF Flow, current
    <3>6. \A u \in Requesters :
            pc[u] \in {"check", "waiting"} /\ completed[u] = 0 =>
              /\ pc'[u] \in {"check", "waiting"} /\ op'[u] = op[u]
              /\ evaluated'[u] = evaluated[u] /\ completed'[u] = completed[u]
      BY <1>1, <3>1, <2>2 DEF OthersKept, TicketsOf
    <3>7. Queued'
      BY <3>1, <3>6, QueuedKept DEF InHand, current
    <3>8. OnePlace'
      BY <3>1 DEF OnePlace, InHand, Outer, current
    <3>9. Draining'
      BY <3>1 DEF Draining, InHand, Outer, current
    <3> QED
      BY <3>2, <3>4, <3>5, <3>7, <3>8, <3>9
  <2> QED
    BY <2>1, <2>2
<1>6. CASE doit_epilogue(t)
  <2>1. /\ pc[t] = "epilogue" /\ pc'[t] = "idle" /\ op'[t] = NULL
        /\ started'[t] = 0 /\ completed'[t] = completed[t] - started[t] /\ evaluated'[t] = evaluated[t] - started[t]
        /\ OthersKept(t)
        /\ UNCHANGED <<vm_pc, back, at_safepoint, current>>
        /\ UNCHANGED <<safepoint_queue, medium_queue>>
    BY Zenon, <1>6 DEF doit_epilogue, Goto, queues, current, safepoint, Types, OthersKept
  <2>2. Types'
    BY <2>1 DEF Types, OthersKept, current
  <2>3. TicketsOf(t)'
    BY <1>1, <2>1, <1>6 DEF TicketsOf
  <2>4. Tickets'
    BY SMTT(30), <2>1, <2>3, TicketsKept
  <2>5. Flow'
    BY <2>1 DEF Flow, current
  <2>6. \A u \in Requesters :
          pc[u] \in {"check", "waiting"} /\ completed[u] = 0 =>
            /\ pc'[u] \in {"check", "waiting"} /\ op'[u] = op[u]
            /\ evaluated'[u] = evaluated[u] /\ completed'[u] = completed[u]
    BY SMTT(30), <1>1, <2>1, <1>6 DEF OthersKept, TicketsOf
  <2>7. Queued'
    BY SMTT(30), <2>1, <2>6, QueuedKept DEF InHand, current
  <2>8. OnePlace'
    BY <2>1 DEF OnePlace, InHand, Outer, current
  <2>9. Draining'
    BY <2>1 DEF Draining, InHand, Outer, current
  <2> QED
    BY <2>2, <2>4, <2>5, <2>7, <2>8, <2>9
<1> QED
  BY <1>2, <1>3, <1>4, <1>5, <1>6 DEF RequesterStep

\* The VM thread's safepoints and waits; termination.
LEMMA IdleKeeps ==
  ASSUME VInv,
         \/ begin \/ wait_notified \/ wait_timedout \/ wait_cleanup \/ cleanup \/ end \/ regular \/ run_exit
         \/ run_terminated \/ wait_for_vm_thread_exit \/ check_terminated \/ notify_all
  PROVE  VInv'
<1> USE DEF VInv
<1>1. CASE begin
  <2>1. Types'
    BY <1>1 DEF begin, requests, queues, current, Types
  <2>2. Tickets'
    BY Zenon, <1>1 DEF begin, requests, queues, current, Types, Tickets, TicketsOf
  <2>3. Flow'
    BY <1>1 DEF begin, requests, queues, current, Flow
  <2>4. Queued'
    BY Zenon, <1>1
       DEF begin, requests, queues, current, Types, Tickets, Flow, Queued, InHand, Outer, Unevaluated,
           Uncompleted, Alive
  <2>5. OnePlace'
    BY Zenon, <1>1
       DEF begin, requests, queues, current, Types, Flow, Queued, OnePlace, InHand, Outer, Unevaluated,
           Uncompleted, Alive
  <2>6. Draining'
    BY <1>1 DEF begin, requests, queues, current, Draining, Flow, InHand, Outer
  <2> QED
    BY <2>1, <2>2, <2>3, <2>4, <2>5, <2>6
<1>2. CASE wait_notified
  <2>1. Types'
    BY <1>2 DEF wait_notified, safepoint, requests, queues, current, Types
  <2>2. Tickets'
    BY Zenon, <1>2 DEF wait_notified, safepoint, requests, queues, current, Types, Tickets, TicketsOf
  <2>3. Flow'
    BY <1>2 DEF wait_notified, safepoint, requests, queues, current, Flow
  <2>4. Queued'
    BY Zenon, <1>2
       DEF wait_notified, safepoint, requests, queues, current, Types, Queued, InHand, Outer, Unevaluated,
           Uncompleted, Alive
  <2>5. OnePlace'
    BY <1>2 DEF wait_notified, safepoint, requests, queues, current, Types, OnePlace, InHand, Outer
  <2>6. Draining'
    BY <1>2 DEF wait_notified, safepoint, requests, queues, current, Draining, InHand, Outer
  <2> QED
    BY <2>1, <2>2, <2>3, <2>4, <2>5, <2>6
<1>3. CASE wait_timedout
  <2>1. Types'
    BY <1>3 DEF wait_timedout, safepoint, requests, queues, current, Types
  <2>2. Tickets'
    BY Zenon, <1>3 DEF wait_timedout, safepoint, requests, queues, current, Types, Tickets, TicketsOf
  <2>3. Flow'
    BY <1>3 DEF wait_timedout, safepoint, requests, queues, current, Flow
  <2>4. Queued'
    BY Zenon, <1>3
       DEF wait_timedout, safepoint, requests, queues, current, Types, Queued, InHand, Outer, Unevaluated,
           Uncompleted, Alive
  <2>5. OnePlace'
    BY <1>3 DEF wait_timedout, safepoint, requests, queues, current, Types, OnePlace, InHand, Outer
  <2>6. Draining'
    BY <1>3 DEF wait_timedout, safepoint, requests, queues, current, Draining, InHand, Outer
  <2> QED
    BY <2>1, <2>2, <2>3, <2>4, <2>5, <2>6
<1>4. CASE wait_cleanup
  <2>1. Types'
    BY <1>4 DEF wait_cleanup, Begin, requests, queues, current, Types
  <2>2. Tickets'
    BY Zenon, <1>4 DEF wait_cleanup, Begin, requests, queues, current, Types, Tickets, TicketsOf
  <2>3. Flow'
    BY <1>4 DEF wait_cleanup, Begin, requests, queues, current, Flow
  <2>4. Queued'
    BY Zenon, <1>4
       DEF wait_cleanup, Begin, requests, queues, current, Types, Queued, InHand, Outer, Unevaluated,
           Uncompleted, Alive
  <2>5. OnePlace'
    BY <1>4 DEF wait_cleanup, Begin, requests, queues, current, Types, OnePlace, InHand, Outer
  <2>6. Draining'
    BY <1>4 DEF wait_cleanup, Begin, requests, queues, current, Draining, InHand, Outer
  <2> QED
    BY <2>1, <2>2, <2>3, <2>4, <2>5, <2>6
<1>5. CASE cleanup
  <2>1. Types'
    BY <1>5 DEF cleanup, End, requests, queues, current, Types
  <2>2. Tickets'
    BY Zenon, <1>5 DEF cleanup, End, requests, queues, current, Types, Tickets, TicketsOf
  <2>3. Flow'
    BY <1>5 DEF cleanup, End, requests, queues, current, Flow
  <2>4. Queued'
    BY Zenon, <1>5
       DEF cleanup, End, requests, queues, current, Types, Queued, InHand, Outer, Unevaluated, Uncompleted,
           Alive
  <2>5. OnePlace'
    BY <1>5 DEF cleanup, End, requests, queues, current, Types, OnePlace, InHand, Outer
  <2>6. Draining'
    BY <1>5 DEF cleanup, End, requests, queues, current, Draining, InHand, Outer
  <2> QED
    BY <2>1, <2>2, <2>3, <2>4, <2>5, <2>6
<1>6. CASE end
  <2>1. Types'
    BY <1>6 DEF end, End, requests, queues, current, Types
  <2>2. Tickets'
    BY Zenon, <1>6 DEF end, End, requests, queues, current, Types, Tickets, TicketsOf
  <2>3. Flow'
    BY <1>6 DEF end, End, requests, queues, current, Flow
  <2>4. Queued'
    BY Zenon, <1>6
       DEF end, End, requests, queues, current, Types, Queued, InHand, Outer, Unevaluated, Uncompleted, Alive
  <2>5. OnePlace'
    BY <1>6 DEF end, End, requests, queues, current, Types, OnePlace, InHand, Outer
  <2>6. Draining'
    BY <1>6 DEF end, End, requests, queues, current, Draining, InHand, Outer
  <2> QED
    BY <2>1, <2>2, <2>3, <2>4, <2>5, <2>6
<1>7. CASE regular
  <2>1. Types'
    BY <1>7 DEF regular, End, requests, queues, current, Types
  <2>2. Tickets'
    BY Zenon, <1>7 DEF regular, End, requests, queues, current, Types, Tickets, TicketsOf
  <2>3. Flow'
    BY <1>7 DEF regular, End, requests, queues, current, Flow
  <2>4. Queued'
    BY Zenon, <1>7
       DEF regular, End, requests, queues, current, Types, Queued, InHand, Outer, Unevaluated, Uncompleted,
           Alive
  <2>5. OnePlace'
    BY <1>7 DEF regular, End, requests, queues, current, Types, OnePlace, InHand, Outer
  <2>6. Draining'
    BY <1>7 DEF regular, End, requests, queues, current, Draining, InHand, Outer
  <2> QED
    BY <2>1, <2>2, <2>3, <2>4, <2>5, <2>6
<1>8. CASE run_exit
  <2>1. Types'
    BY <1>8 DEF run_exit, Begin, requests, queues, current, Types
  <2>2. Tickets'
    BY Zenon, <1>8 DEF run_exit, Begin, requests, queues, current, Types, Tickets, TicketsOf
  <2>3. Flow'
    BY <1>8 DEF run_exit, Begin, requests, queues, current, Flow
  <2>4. Queued'
    BY Zenon, <1>8
       DEF run_exit, Begin, requests, queues, current, Types, Queued, InHand, Outer, Unevaluated, Uncompleted,
           Alive
  <2>5. OnePlace'
    BY <1>8 DEF run_exit, Begin, requests, queues, current, Types, OnePlace, InHand, Outer
  <2>6. Draining'
    BY <1>8 DEF run_exit, Begin, requests, queues, current, Draining, InHand, Outer
  <2> QED
    BY <2>1, <2>2, <2>3, <2>4, <2>5, <2>6
<1>9. CASE run_terminated
  <2>1. Types'
    BY <1>9 DEF run_terminated, safepoint, requests, queues, current, Types
  <2>2. Tickets'
    BY Zenon, <1>9 DEF run_terminated, safepoint, requests, queues, current, Types, Tickets, TicketsOf
  <2>3. Flow'
    BY <1>9 DEF run_terminated, safepoint, requests, queues, current, Flow
  <2>4. Queued'
    BY Zenon, <1>9
       DEF run_terminated, safepoint, requests, queues, current, Types, Queued, InHand, Outer, Unevaluated,
           Uncompleted, Alive
  <2>5. OnePlace'
    BY <1>9 DEF run_terminated, safepoint, requests, queues, current, Types, OnePlace, InHand, Outer
  <2>6. Draining'
    BY <1>9 DEF run_terminated, safepoint, requests, queues, current, Draining, InHand, Outer
  <2> QED
    BY <2>1, <2>2, <2>3, <2>4, <2>5, <2>6
<1>10. CASE wait_for_vm_thread_exit
  <2>1. Types'
    BY <1>10 DEF wait_for_vm_thread_exit, safepoint, requests, queues, current, Types
  <2>2. Tickets'
    BY Zenon, <1>10 DEF wait_for_vm_thread_exit, safepoint, requests, queues, current, Types, Tickets, TicketsOf
  <2>3. Flow'
    BY <1>10 DEF wait_for_vm_thread_exit, safepoint, requests, queues, current, Flow
  <2>4. Queued'
    BY Zenon, <1>10
       DEF wait_for_vm_thread_exit, safepoint, requests, queues, current, Types, Queued, InHand, Outer,
           Unevaluated, Uncompleted, Alive
  <2>5. OnePlace'
    BY <1>10 DEF wait_for_vm_thread_exit, safepoint, requests, queues, current, Types, OnePlace, InHand, Outer
  <2>6. Draining'
    BY <1>10 DEF wait_for_vm_thread_exit, safepoint, requests, queues, current, Draining, InHand, Outer
  <2> QED
    BY <2>1, <2>2, <2>3, <2>4, <2>5, <2>6
<1>11. CASE check_terminated
  <2>1. Types'
    BY SMTT(30), <1>11 DEF check_terminated, safepoint, requests, queues, current, Types
  <2>2. Tickets'
    BY <1>11 DEF check_terminated, safepoint, requests, queues, current, Types, Tickets, TicketsOf
  <2>3. Flow'
    BY <1>11 DEF check_terminated, safepoint, requests, queues, current, Flow
  <2>4. Queued'
    BY Zenon, <1>11
       DEF check_terminated, safepoint, requests, queues, current, Types, Queued, InHand, Outer, Unevaluated,
           Uncompleted, Alive
  <2>5. OnePlace'
    BY <1>11 DEF check_terminated, safepoint, requests, queues, current, Types, OnePlace, InHand, Outer
  <2>6. Draining'
    BY <1>11 DEF check_terminated, safepoint, requests, queues, current, Draining, InHand, Outer
  <2> QED
    BY <2>1, <2>2, <2>3, <2>4, <2>5, <2>6
<1>12. CASE notify_all
  <2>1. CASE UNCHANGED safepoint
    <3>1. Types'
      BY SMTT(30), <1>12, <2>1 DEF notify_all, Begin, safepoint, queues, current, Types
    <3>2. Tickets'
      BY <1>12, <2>1 DEF notify_all, Begin, safepoint, queues, current, Types, Tickets, TicketsOf
    <3>3. Flow'
      BY <1>12, <2>1 DEF notify_all, Begin, safepoint, queues, current, Flow
    <3>4. Queued'
      BY Zenon, <1>12, <2>1, QueuedKept DEF notify_all, Begin, safepoint, queues, current, Types, InHand, Flow
    <3>5. OnePlace'
      BY Zenon, <1>12, <2>1 DEF notify_all, Begin, safepoint, queues, current, Types, OnePlace, InHand, Outer
    <3>6. Draining'
      BY <1>12, <2>1 DEF notify_all, Begin, safepoint, queues, current, Draining, InHand, Outer
    <3> QED
      BY <3>1, <3>2, <3>3, <3>4, <3>5, <3>6
  <2>2. CASE Begin("regular")
    <3>1. Types'
      BY SMTT(30), <1>12, <2>2 DEF notify_all, Begin, safepoint, queues, current, Types
    <3>2. Tickets'
      BY <1>12, <2>2 DEF notify_all, Begin, safepoint, queues, current, Types, Tickets, TicketsOf
    <3>3. Flow'
      BY <1>12, <2>2 DEF notify_all, Begin, safepoint, queues, current, Flow
    <3>4. Queued'
      BY Zenon, <1>12, <2>2, QueuedKept DEF notify_all, Begin, safepoint, queues, current, Types, InHand, Flow
    <3>5. OnePlace'
      BY Zenon, <1>12, <2>2 DEF notify_all, Begin, safepoint, queues, current, Types, OnePlace, InHand, Outer
    <3>6. Draining'
      BY <1>12, <2>2 DEF notify_all, Begin, safepoint, queues, current, Draining, InHand, Outer
    <3> QED
      BY <3>1, <3>2, <3>3, <3>4, <3>5, <3>6
  <2> QED
    BY <2>1, <2>2, <1>12 DEF notify_all
<1> QED
  BY Zenon, <1>1, <1>2, <1>3, <1>4, <1>5, <1>6, <1>7, <1>8, <1>9, <1>10, <1>11, <1>12

\* The search for the next operation.
LEMMA SearchKeeps ==
  ASSUME VInv, loop \/ recheck
  PROVE  VInv'
<1> USE DEF VInv
<1>1. /\ ~InHand /\ vm_pc \in {"loop", "recheck"} /\ vm_pc' \in {"exit", "waiting", "execute"}
      /\ vm_pc' = "execute" => cur_vm_operation' # NULL
      /\ UNCHANGED <<pc, op, started, completed, evaluated, drain_list, prev_vm_operation, at_safepoint>>
  BY Zenon DEF loop, recheck, requests, safepoint, InHand
<1>2. CASE /\ cur_vm_operation' = NULL /\ safepoint_ops' = <<>> /\ UNCHANGED <<safepoint_queue, medium_queue>>
  <2>1. Types'
    BY <1>1, <1>2, OnEmpty, NullNoOperation DEF Types
  <2>2. Tickets'
    BY <1>1, <1>2, OnEmpty, NullNoOperation DEF Types, Tickets, TicketsOf
  <2>3. Flow'
    BY <1>1, <1>2, OnEmpty, NullNoOperation DEF Flow
  <2>4. Queued'
    BY Zenon, <1>1, <1>2, OnEmpty, NullNoOperation
       DEF Types, Queued, InHand, Outer, Unevaluated, Uncompleted, Alive
  <2>5. OnePlace'
    BY <1>1, <1>2, OnEmpty, NullNoOperation DEF Types, OnePlace, InHand, Outer
  <2>6. Draining'
    BY <1>1, <1>2, OnEmpty, NullNoOperation DEF Draining, InHand, Outer
  <2> QED
    BY <2>1, <2>2, <2>3, <2>4, <2>5, <2>6
<1>3. CASE /\ medium_queue # <<>> /\ cur_vm_operation' = Head(medium_queue)
           /\ medium_queue' = Tail(medium_queue) /\ safepoint_ops' = <<>> /\ UNCHANGED safepoint_queue
  <2>1. Types'
    BY <1>1, <1>3, OnTail, OnEmpty, QueuesDisjoint, NullNoOperation DEF Types
  <2>2. Tickets'
    BY Zenon, <1>1, <1>3, OnTail, OnEmpty, QueuesDisjoint, NullNoOperation DEF Types, Tickets, TicketsOf
  <2>3. Flow'
    BY <1>1, <1>3, OnTail, OnEmpty, QueuesDisjoint, NullNoOperation DEF Flow
  <2>4. Queued'
    BY Zenon, <1>1, <1>3, OnTail, OnEmpty, QueuesDisjoint, NullNoOperation
       DEF Types, Tickets, Flow, Queued, InHand, Outer, Unevaluated, Uncompleted, Alive
  <2>5. OnePlace'
    BY Zenon, <1>1, <1>3, OnTail, OnEmpty, QueuesDisjoint, NullNoOperation
       DEF Types, Flow, Queued, OnePlace, InHand, Outer, Unevaluated, Uncompleted, Alive
  <2>6. Draining'
    BY <1>1, <1>3, OnTail, OnEmpty, QueuesDisjoint, NullNoOperation DEF Draining, InHand, Outer
  <2> QED
    BY <2>1, <2>2, <2>3, <2>4, <2>5, <2>6
<1>4. CASE /\ safepoint_queue # <<>> /\ cur_vm_operation' = Head(safepoint_queue)
           /\ safepoint_queue' = Tail(safepoint_queue) /\ safepoint_ops' = <<>> /\ UNCHANGED medium_queue
  <2>1. Types'
    BY <1>1, <1>4, OnTail, OnEmpty, QueuesDisjoint, NullNoOperation DEF Types
  <2>2. Tickets'
    BY Zenon, <1>1, <1>4, OnTail, OnEmpty, QueuesDisjoint, NullNoOperation DEF Types, Tickets, TicketsOf
  <2>3. Flow'
    BY <1>1, <1>4, OnTail, OnEmpty, QueuesDisjoint, NullNoOperation DEF Flow
  <2>4. Queued'
    BY Zenon, <1>1, <1>4, OnTail, OnEmpty, QueuesDisjoint, NullNoOperation
       DEF Types, Tickets, Flow, Queued, InHand, Outer, Unevaluated, Uncompleted, Alive
  <2>5. OnePlace'
    BY Zenon, <1>1, <1>4, OnTail, OnEmpty, QueuesDisjoint, NullNoOperation
       DEF Types, Flow, Queued, OnePlace, InHand, Outer, Unevaluated, Uncompleted, Alive
  <2>6. Draining'
    BY <1>1, <1>4, OnTail, OnEmpty, QueuesDisjoint, NullNoOperation DEF Draining, InHand, Outer
  <2> QED
    BY <2>1, <2>2, <2>3, <2>4, <2>5, <2>6
<1>5. CASE /\ safepoint_queue # <<>> /\ cur_vm_operation' = Head(safepoint_queue)
           /\ safepoint_queue' = <<>> /\ safepoint_ops' = Tail(safepoint_queue) /\ UNCHANGED medium_queue
  <2>1. Types'
    BY SMTT(30), <1>1, <1>5, OnTail, OnEmpty, QueuesDisjoint, NullNoOperation DEF Types
  <2>2. Tickets'
    BY <1>1, <1>5, OnTail, OnEmpty, QueuesDisjoint, NullNoOperation DEF Types, Tickets, TicketsOf
  <2>3. Flow'
    BY <1>1, <1>5, OnTail, OnEmpty, QueuesDisjoint, NullNoOperation DEF Flow
  <2>4. Queued'
    BY Zenon, <1>1, <1>5, OnTail, OnEmpty, QueuesDisjoint, NullNoOperation
       DEF Types, Tickets, Flow, Queued, InHand, Outer, Unevaluated, Uncompleted, Alive
  <2>5. OnePlace'
    BY Zenon, <1>1, <1>5, OnTail, OnEmpty, QueuesDisjoint, NullNoOperation
       DEF Types, Flow, Queued, OnePlace, InHand, Outer, Unevaluated, Uncompleted, Alive
  <2>6. Draining'
    BY Zenon, <1>1, <1>5, OnTail, OnEmpty, QueuesDisjoint, NullNoOperation
       DEF Types, Tickets, TicketsOf, Flow, Queued, OnePlace, Draining, InHand, Outer, Unevaluated,
           Uncompleted, Alive
  <2> QED
    BY <2>1, <2>2, <2>3, <2>4, <2>5, <2>6
<1> QED
  BY Zenon, <1>2, <1>3, <1>4, <1>5, RemoveNextEffect DEF loop, recheck

\* An operation is evaluated: the others that wait are other threads', or wait for nobody.
LEMMA EvaluatedEffect ==
  ASSUME VInv, InHand, NEW o, o = Outer, evaluated' = CountFor(evaluated, o), UNCHANGED <<pc, op, started, completed>>
  PROVE  /\ evaluated' = [u \in Requesters |-> evaluated'[u]] /\ Tickets' /\ Uncompleted(o)'
         /\ \A q \in On(safepoint_queue) \cup On(medium_queue) \cup On(safepoint_ops) : Unevaluated(q)'
<1> USE DEF VInv
<1>1. /\ o \in Ops /\ o.calling_thread \in Requesters /\ Unevaluated(o)
      /\ \A q \in On(safepoint_queue) \cup On(medium_queue) \cup On(safepoint_ops) : Unevaluated(q) /\ q \in Ops
  BY Zenon DEF Queued, Unevaluated, Ops
<1>2. CASE Blocking(o)
  <2> DEFINE t == o.calling_thread
  <2>1. /\ OthersKept(t) /\ evaluated'[t] = evaluated[t] + 1
    BY Zenon, <1>1, <1>2 DEF CountFor, Blocking, Types, OthersKept
  <2>2. TicketsOf(t) /\ pc[t] \in {"check", "waiting"} /\ op[t] = o /\ evaluated[t] = 0 /\ completed[t] = 0
    BY SMTT(60), <1>1, <1>2 DEF Unevaluated, Alive, Blocking, Tickets
  <2>3. TicketsOf(t)'
    BY SMTT(30), <2>1, <2>2 DEF TicketsOf
  <2>4. Tickets'
    BY SMTT(30), <1>1, <2>1, <2>3, TicketsKept
  <2>5. Uncompleted(o)'
    BY <1>1, <2>1, <2>2 DEF Uncompleted, Alive
  <2>6. ASSUME NEW q \in On(safepoint_queue) \cup On(medium_queue) \cup On(safepoint_ops)
        PROVE  Unevaluated(q)'
    <3>1. Unevaluated(q) /\ q \in Ops
      BY <1>1, <2>6
    <3>2. CASE ~Blocking(q)
      BY <3>1, <3>2 DEF Unevaluated
    <3>3. CASE Blocking(q)
      <4>1. q.calling_thread \in Requesters /\ op[q.calling_thread] = q
        BY <3>1, <3>3 DEF Unevaluated, Alive, Blocking, Ops
      <4>2. q # o
        BY <1>2, <2>6 DEF OnePlace
      <4>3. q.calling_thread \in Requesters \ {t}
        BY <2>2, <4>1, <4>2
      <4> QED
        BY <2>1, <3>1, <3>3, <4>3 DEF Unevaluated, Alive, OthersKept
    <3> QED
      BY <3>2, <3>3
  <2> QED
    BY <2>1, <2>4, <2>5, <2>6 DEF OthersKept
<1>3. CASE ~Blocking(o)
  <2>1. UNCHANGED evaluated
    BY SMTT(30), <1>3 DEF CountFor, Blocking
  <2>2. Tickets'
    BY <2>1 DEF Tickets, TicketsOf
  <2> QED
    BY Zenon, <1>1, <1>3, <2>1, <2>2 DEF Uncompleted, Unevaluated, Alive, Types
<1> QED
  BY <1>2, <1>3

\* An operation is completed: its caller may now go, and no other operation of its waits.
LEMMA CompletedEffect ==
  ASSUME VInv, vm_pc = "complete", completed' = CountFor(completed, cur_vm_operation),
         UNCHANGED <<pc, op, started, evaluated>>
  PROVE  /\ completed' = [u \in Requesters |-> completed'[u]] /\ Tickets'
         /\ \A q \in On(safepoint_queue) \cup On(medium_queue) \cup On(safepoint_ops) : Unevaluated(q)'
<1> USE DEF VInv
<1> PICK o : o = cur_vm_operation
  OBVIOUS
<1>1. /\ o \in Ops /\ o.calling_thread \in Requesters /\ Uncompleted(o)
      /\ \A q \in On(safepoint_queue) \cup On(medium_queue) \cup On(safepoint_ops) : Unevaluated(q) /\ q \in Ops
  BY DEF Queued, Unevaluated, Uncompleted, Ops
<1>2. CASE Blocking(o)
  <2> DEFINE t == o.calling_thread
  <2>1. /\ OthersKept(t) /\ completed'[t] = completed[t] + 1
    BY Zenon, <1>1, <1>2 DEF CountFor, Blocking, Types, OthersKept
  <2>2. TicketsOf(t) /\ pc[t] \in {"check", "waiting"} /\ evaluated[t] = 1 /\ completed[t] = 0
    BY SMTT(60), <1>1, <1>2 DEF Uncompleted, Alive, Blocking, Tickets
  <2>3. TicketsOf(t)'
    BY <2>1, <2>2 DEF TicketsOf
  <2>4. Tickets'
    BY Zenon, <1>1, <2>1, <2>3, TicketsKept
  <2>5. ASSUME NEW q \in On(safepoint_queue) \cup On(medium_queue) \cup On(safepoint_ops)
        PROVE  Unevaluated(q)'
    <3>1. Unevaluated(q) /\ q \in Ops /\ q.calling_thread \in Requesters
      BY <1>1, <2>5 DEF Ops
    <3>2. Blocking(q) => q.calling_thread \in Requesters \ {t}
      BY <2>2, <3>1 DEF Unevaluated
    <3> QED
      BY <2>1, <3>1, <3>2 DEF Unevaluated, Alive, OthersKept
  <2> QED
    BY <2>1, <2>4, <2>5 DEF OthersKept
<1>3. CASE ~Blocking(o)
  <2>1. UNCHANGED completed
    BY SMTT(30), <1>3 DEF CountFor, Blocking
  <2>2. Tickets'
    BY <2>1 DEF Tickets, TicketsOf
  <2> QED
    BY Zenon, <1>1, <2>1, <2>2 DEF Unevaluated, Alive, Types
<1> QED
  BY <1>2, <1>3

\* The evaluation and the completion of an operation.
LEMMA CountedKeeps ==
  ASSUME VInv, evaluate \/ nested \/ complete \/ trace_long
  PROVE  VInv'
<1> USE DEF VInv
<1>1. CASE evaluate
  <2> PICK o : o = Outer
    OBVIOUS
  <2>1. /\ vm_pc = "evaluate" /\ o = cur_vm_operation /\ cur_vm_operation' = o /\ prev_vm_operation' = NULL
        /\ vm_pc' = "complete"
        /\ evaluated' = CountFor(evaluated, o) /\ UNCHANGED <<pc, op, started, completed>>
        /\ UNCHANGED <<safepoint_queue, medium_queue, safepoint_ops, drain_list, back>>
        /\ InHand /\ ~InHand' /\ (at_safepoint' <=> evaluate_at_safepoint(o)) /\ Outer' = o
    BY <1>1 DEF evaluate, End, queues, current, safepoint, Outer, InHand, Flow
  <2>2. /\ evaluated' = [u \in Requesters |-> evaluated'[u]] /\ Tickets' /\ Uncompleted(o)'
        /\ \A q \in On(safepoint_queue) \cup On(medium_queue) \cup On(safepoint_ops) : Unevaluated(q)'
    BY <2>1, EvaluatedEffect
  <2>3. Types'
    BY <2>1, <2>2 DEF Types
  <2>4. Flow'
    BY <2>1 DEF Flow
  <2>5. Uncompleted(cur_vm_operation)'
    BY <2>1, <2>2 DEF Uncompleted, Alive
  <2>6. Queued'
    BY <2>1, <2>2, <2>5 DEF Queued
  <2>7. OnePlace'
    BY <2>1 DEF OnePlace
  <2>8. Draining'
    BY <2>1 DEF Draining, InHand
  <2> QED
    BY <2>2, <2>3, <2>4, <2>6, <2>7, <2>8
<1>2. CASE nested
  <2> PICK o : o = Outer
    OBVIOUS
  <2>1. /\ vm_pc = "nested" /\ o = prev_vm_operation /\ cur_vm_operation' = o /\ prev_vm_operation' = NULL
        /\ vm_pc' = "complete"
        /\ evaluated' = CountFor(evaluated, o) /\ UNCHANGED <<pc, op, started, completed>>
        /\ UNCHANGED <<safepoint_queue, medium_queue, safepoint_ops, drain_list, back>>
        /\ InHand /\ ~InHand' /\ (at_safepoint' <=> evaluate_at_safepoint(o)) /\ Outer' = o
    BY Zenon, <1>2 DEF nested, End, queues, current, safepoint, Outer, InHand, Flow
  <2>2. /\ evaluated' = [u \in Requesters |-> evaluated'[u]] /\ Tickets' /\ Uncompleted(o)'
        /\ \A q \in On(safepoint_queue) \cup On(medium_queue) \cup On(safepoint_ops) : Unevaluated(q)'
    BY <2>1, EvaluatedEffect
  <2>3. Types'
    BY <2>1, <2>2 DEF Types
  <2>4. Flow'
    BY <2>1 DEF Flow
  <2>5. Uncompleted(cur_vm_operation)'
    BY <2>1, <2>2 DEF Uncompleted, Alive
  <2>6. Queued'
    BY <2>1, <2>2, <2>5 DEF Queued
  <2>7. OnePlace'
    BY <2>1 DEF OnePlace
  <2>8. Draining'
    BY <2>1 DEF Draining, InHand
  <2> QED
    BY <2>2, <2>3, <2>4, <2>6, <2>7, <2>8
<1>3. CASE complete
  <2>1. /\ vm_pc = "complete" /\ prev_vm_operation = NULL
        /\ completed' = CountFor(completed, cur_vm_operation) /\ UNCHANGED <<pc, op, started, evaluated>>
        /\ UNCHANGED <<safepoint_queue, medium_queue, safepoint_ops, drain_list, prev_vm_operation, back, at_safepoint>>
        /\ ~InHand /\ ~InHand' /\ Outer = cur_vm_operation
        /\ \/ vm_pc' = "batch" /\ evaluate_at_safepoint(cur_vm_operation)
           \/ vm_pc' = "evaluated" /\ ~evaluate_at_safepoint(cur_vm_operation)
    BY <1>3 DEF complete, queues, current, safepoint, Outer, InHand, Flow
  <2>2. /\ completed' = [u \in Requesters |-> completed'[u]] /\ Tickets'
        /\ \A q \in On(safepoint_queue) \cup On(medium_queue) \cup On(safepoint_ops) : Unevaluated(q)'
    BY <2>1, CompletedEffect
  <2>3. Types'
    BY <2>1, <2>2 DEF Types
  <2>4. Flow'
    BY <2>1 DEF Flow
  <2>5. Queued'
    BY <2>1, <2>2 DEF Queued
  <2>6. OnePlace'
    BY <2>1 DEF OnePlace
  <2>7. Draining'
    BY <2>1 DEF Draining
  <2> QED
    BY SMTT(30), <2>2, <2>3, <2>4, <2>5, <2>6, <2>7
<1>4. CASE trace_long
  <2>1. /\ vm_pc = "evaluated" /\ vm_pc' = "notify" /\ ~InHand /\ ~InHand'
        /\ UNCHANGED <<pc, op, started, completed, evaluated, safepoint_queue, medium_queue>>
        /\ UNCHANGED <<safepoint_ops, drain_list, prev_vm_operation, back, at_safepoint>>
    BY <1>4 DEF trace_long, requests, queues, safepoint, InHand
  <2>2. Types' /\ Tickets'
    BY Zenon, <2>1 DEF Types, Tickets, TicketsOf
  <2>3. Flow'
    BY <2>1 DEF Flow
  <2>4. Queued'
    BY Zenon, <2>1 DEF Queued, Unevaluated, Alive
  <2>5. OnePlace'
    BY <2>1 DEF OnePlace
  <2>6. Draining'
    BY <2>1 DEF Draining
  <2> QED
    BY <2>2, <2>3, <2>4, <2>5, <2>6
<1> QED
  BY <1>1, <1>2, <1>3, <1>4

\* The batch of an operation, and the operation that it executes.
LEMMA EvaluationKeeps ==
  ASSUME VInv,
         execute_operation \/ execute_nested \/ batch_next \/ batch_peek \/ batch_end \/ drain_at_safepoint_priority
  PROVE  VInv'
<1> USE DEF VInv
<1>1. CASE execute_operation
  <2>1. CASE evaluate_at_safepoint(cur_vm_operation)
    <3>1. Types'
      BY <1>1, <2>1 DEF execute_operation, Begin, safepoint, queues, requests, Types
    <3>2. Tickets'
      BY Zenon, <1>1, <2>1 DEF execute_operation, Begin, safepoint, queues, requests, Types, Tickets, TicketsOf
    <3>3. Flow'
      BY <1>1, <2>1 DEF execute_operation, Begin, safepoint, queues, requests, Flow
    <3>4. Queued'
      BY Zenon, <1>1, <2>1
         DEF execute_operation, Begin, safepoint, queues, requests, Types, Queued, InHand, Outer, Unevaluated,
             Uncompleted, Alive
    <3>5. OnePlace'
      BY SMTT(30), <1>1, <2>1 DEF execute_operation, Begin, safepoint, queues, requests, Types, OnePlace, InHand, Outer
    <3>6. Draining'
      BY SMTT(30), <1>1, <2>1 DEF execute_operation, Begin, safepoint, queues, requests, Draining, InHand, Outer
    <3> QED
      BY <3>1, <3>2, <3>3, <3>4, <3>5, <3>6
  <2>2. CASE ~evaluate_at_safepoint(cur_vm_operation)
    <3>1. Types'
      BY SMTT(30), <1>1, <2>2 DEF execute_operation, Begin, safepoint, queues, requests, Types
    <3>2. Tickets'
      BY SMTT(30), <1>1, <2>2 DEF execute_operation, Begin, safepoint, queues, requests, Types, Tickets, TicketsOf
    <3>3. Flow'
      BY <1>1, <2>2 DEF execute_operation, Begin, safepoint, queues, requests, Flow
    <3>4. Queued'
      BY Zenon, <1>1, <2>2
         DEF execute_operation, Begin, safepoint, queues, requests, Types, Queued, InHand, Outer, Unevaluated,
             Uncompleted, Alive
    <3>5. OnePlace'
      BY SMTT(30), <1>1, <2>2 DEF execute_operation, Begin, safepoint, queues, requests, Types, OnePlace, InHand, Outer
    <3>6. Draining'
      BY <1>1, <2>2 DEF execute_operation, Begin, safepoint, queues, requests, Draining, Flow, InHand, Outer
    <3> QED
      BY <3>1, <3>2, <3>3, <3>4, <3>5, <3>6
  <2> QED
    BY <2>1, <2>2
<1>2. CASE execute_nested
  <2>1. /\ vm_pc = "evaluate" /\ prev_vm_operation = NULL /\ prev_vm_operation' = cur_vm_operation
        /\ cur_vm_operation \in Ops
        /\ Outer = cur_vm_operation /\ Outer' = cur_vm_operation /\ InHand /\ InHand' /\ prev_vm_operation' # NULL
        /\ UNCHANGED <<pc, op, started, completed, evaluated, at_safepoint>>
        /\ UNCHANGED <<safepoint_queue, medium_queue, safepoint_ops, drain_list>>
        /\ \/ at_safepoint /\ vm_pc' = "nested"
           \/ ~at_safepoint /\ vm_pc' = "begin" /\ back' = "nested"
    BY Zenon, <1>2, NullNoOperation
       DEF execute_nested, Begin, requests, queues, safepoint, InHand, Outer, Flow, Queued, Unevaluated
  <2>2. Types'
    BY SMTT(30), <2>1 DEF Types
  <2>3. Tickets'
    BY <2>1 DEF Types, Tickets, TicketsOf
  <2>4. Flow'
    BY <2>1 DEF Flow
  <2>5. Queued'
    BY Zenon, <2>1 DEF Types, Queued, InHand, Outer, Unevaluated, Uncompleted, Alive
  <2>6. OnePlace'
    BY <2>1 DEF Types, OnePlace, InHand, Outer
  <2>7. Draining'
    BY <2>1 DEF Draining, InHand, Outer
  <2> QED
    BY <2>2, <2>3, <2>4, <2>5, <2>6, <2>7
<1>3. CASE batch_next
  <2>1. Types'
    BY <1>3, OnTail DEF batch_next, safepoint, queues, requests, Types
  <2>2. Tickets'
    BY Zenon, <1>3, OnTail DEF batch_next, safepoint, queues, requests, Types, Tickets, TicketsOf
  <2>3. Flow'
    BY Zenon, <1>3, OnTail DEF batch_next, safepoint, Types, Flow, Queued
  <2>4. Queued'
    BY Zenon, <1>3, OnTail
       DEF batch_next, queues, requests, Types, Flow, Queued, InHand, Outer, Unevaluated, Uncompleted, Alive
  <2>5. OnePlace'
    BY Zenon, <1>3, OnTail
       DEF batch_next, queues, Types, Flow, Queued, OnePlace, InHand, Outer
  <2>6. Draining'
    BY Zenon, <1>3, OnTail DEF batch_next, Types, Flow, Queued, Draining, InHand, Outer
  <2> QED
    BY <2>1, <2>2, <2>3, <2>4, <2>5, <2>6
<1>4. CASE batch_peek
  <2>1. Types'
    BY SMTT(30), <1>4 DEF batch_peek, safepoint, queues, requests, current, Types
  <2>2. Tickets'
    BY <1>4 DEF batch_peek, safepoint, queues, requests, current, Types, Tickets, TicketsOf
  <2>3. Flow'
    BY <1>4 DEF batch_peek, safepoint, queues, requests, current, Flow
  <2>4. Queued'
    BY Zenon, <1>4
       DEF batch_peek, safepoint, queues, requests, current, Types, Queued, InHand, Outer, Unevaluated,
           Uncompleted, Alive
  <2>5. OnePlace'
    BY <1>4 DEF batch_peek, safepoint, queues, requests, current, Types, OnePlace, InHand, Outer
  <2>6. Draining'
    BY <1>4 DEF batch_peek, safepoint, queues, requests, current, Draining, InHand, Outer
  <2> QED
    BY <2>1, <2>2, <2>3, <2>4, <2>5, <2>6
<1>5. CASE batch_end
  <2>1. Types'
    BY SMTT(30), <1>5 DEF batch_end, safepoint, queues, requests, Types
  <2>2. Tickets'
    BY <1>5 DEF batch_end, safepoint, queues, requests, Types, Tickets, TicketsOf
  <2>3. Flow'
    BY <1>5 DEF batch_end, safepoint, queues, requests, Flow
  <2>4. Queued'
    BY Zenon, <1>5
       DEF batch_end, safepoint, queues, requests, Types, Queued, InHand, Outer, Unevaluated, Uncompleted,
           Alive
  <2>5. OnePlace'
    BY <1>5 DEF batch_end, safepoint, queues, requests, Types, OnePlace, InHand, Outer
  <2>6. Draining'
    BY <1>5 DEF batch_end, safepoint, queues, requests, Draining, InHand, Outer
  <2> QED
    BY <2>1, <2>2, <2>3, <2>4, <2>5, <2>6
<1>6. CASE drain_at_safepoint_priority
  <2>1. Types'
    BY <1>6, OnEmpty DEF drain_at_safepoint_priority, safepoint, requests, Types
  <2>2. Tickets'
    BY Zenon, <1>6, OnEmpty DEF drain_at_safepoint_priority, safepoint, requests, Types, Tickets, TicketsOf
  <2>3. Flow'
    BY <1>6, OnEmpty DEF drain_at_safepoint_priority, safepoint, requests, Flow
  <2>4. Queued'
    BY Zenon, <1>6, OnEmpty
       DEF drain_at_safepoint_priority, safepoint, requests, Types, Queued, InHand, Outer, Unevaluated,
           Uncompleted, Alive
  <2>5. OnePlace'
    BY <1>6, OnEmpty DEF drain_at_safepoint_priority, safepoint, requests, Types, OnePlace, InHand, Outer
  <2>6. Draining'
    BY <1>6, OnEmpty
       DEF drain_at_safepoint_priority, Flow, Draining, InHand, Outer
  <2> QED
    BY <2>1, <2>2, <2>3, <2>4, <2>5, <2>6
<1> QED
  BY <1>1, <1>2, <1>3, <1>4, <1>5, <1>6

\* The queue of the VM thread keeps its invariant.
LEMMA InvariantHolds == Spec => []VInv
<1>1. Init => VInv
  <2> SUFFICES ASSUME Init
               PROVE  VInv
    OBVIOUS
  <2>1. Types /\ Tickets
    BY OnEmpty DEF Init, Types, Tickets, TicketsOf
  <2>2. Flow /\ Queued
    BY OnEmpty DEF Init, Flow, Queued, InHand
  <2>3. OnePlace /\ Draining
    BY OnEmpty DEF Init, OnePlace, Draining, InHand
  <2> QED
    BY <2>1, <2>2, <2>3 DEF VInv
<1>2. VInv /\ [Next]_vars => VInv'
  <2> SUFFICES ASSUME VInv, [Next]_vars
               PROVE  VInv'
    OBVIOUS
  <2>1. ASSUME NEW t \in Requesters, execute(t) \/ RequesterStep(t)
        PROVE  VInv'
    BY <2>1, RequesterKeeps
  <2>2. CASE VMThreadStep \/ execute_nested \/ wait_timedout \/ wait_cleanup
    BY <2>2, IdleKeeps, SearchKeeps, CountedKeeps, EvaluationKeeps DEF VMThreadStep
  <2>3. CASE wait_for_vm_thread_exit \/ check_terminated
    BY <2>3, IdleKeeps
  <2>4. CASE UNCHANGED vars
    <3>1. UNCHANGED <<pc, op, started, completed, evaluated, vm_pc, back, at_safepoint, safepoint_queue, medium_queue,
                      cur_vm_operation, safepoint_ops, drain_list, prev_vm_operation>>
      BY <2>4 DEF vars, requests, queues, current, safepoint
    <3>2. Types'
      BY Zenon, <3>1 DEF VInv, Types
    <3>3. Tickets'
      BY Zenon, <3>1 DEF VInv, Tickets, TicketsOf
    <3>4. Flow'
      BY Zenon, <3>1 DEF VInv, Flow
    <3>5. OnePlace'
      BY Zenon, <3>1 DEF VInv, OnePlace, InHand, Outer
    <3>6. Draining'
      BY Zenon, <3>1 DEF VInv, Draining, InHand, Outer
    <3>7. Queued'
      BY Zenon, <3>1, QueuedKept DEF VInv, InHand
    <3> QED
      BY <3>2, <3>3, <3>4, <3>5, <3>6, <3>7 DEF VInv
  <2> QED
    BY <2>1, <2>2, <2>3, <2>4 DEF Next
<1> QED
  BY <1>1, <1>2, PTL DEF Spec

\* The VM thread never reaches an operation whose caller has returned from execute(), and while
\* it evaluates one, all that it has taken out of the queue are on the list that oops_do scans,
\* in every build without TraceLongCompiles.
THEOREM OperationsStayAlive == ASSUME ~TraceLongCompiles PROVE Spec => []OperationsAlive
<1>1. VInv => OperationsAlive
  <2> SUFFICES ASSUME VInv
               PROVE  OperationsAlive
    OBVIOUS
  <2>1. \A o \in On(safepoint_queue) \cup On(medium_queue) \cup On(safepoint_ops) : Alive(o)
    BY DEF VInv, Queued, Unevaluated, Alive, Blocking
  <2>2. On(drain_list) \subseteq On(safepoint_ops)
    BY SMTT(30), OnEmpty DEF VInv, Draining
  <2>3. Evaluating => Alive(Outer) /\ On(safepoint_ops) \subseteq On(drain_list)
    BY DEF VInv, Queued, Draining, InHand, Evaluating, Unevaluated, Alive, Blocking
  <2> QED
    BY <2>1, <2>2, <2>3 DEF OperationsAlive
<1> QED
  BY <1>1, InvariantHolds, PTL

\* execute() returns from a blocking operation when it has been evaluated, once, and at a
\* safepoint if it needs one; the VM thread does not nest its safepoints.
THEOREM OperationsEvaluatedOnce == Spec => []EvaluatedOnce
<1>1. VInv => EvaluatedOnce
  <2> SUFFICES ASSUME VInv
               PROVE  EvaluatedOnce
    OBVIOUS
  <2>1. ASSUME NEW t \in Requesters
        PROVE  /\ completed[t] <= evaluated[t] /\ evaluated[t] <= started[t] /\ started[t] <= 1
               /\ pc[t] = "epilogue" => evaluated[t] = 1
    BY <2>1 DEF VInv, Tickets, TicketsOf
  <2>2. Evaluating /\ evaluate_at_safepoint(cur_vm_operation) => at_safepoint
    BY DEF VInv, Flow, Evaluating
  <2> QED
    BY <2>1, <2>2 DEF EvaluatedOnce, VInv, Flow
<1> QED
  BY <1>1, InvariantHolds, PTL
=============================================================================
