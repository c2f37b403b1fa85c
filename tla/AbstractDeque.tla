---------------------------- MODULE AbstractDeque ----------------------------
(***************************************************************************)
(* What a task queue promises (share/vm/utilities/taskqueue.hpp): its      *)
(* owner pushes and pops at one end, other workers steal at the other, and *)
(* each task that was pushed is handed out once.                           *)
(***************************************************************************)
EXTENDS Integers, Sequences

CONSTANTS Tasks, Owner, Thieves, NoTask

VARIABLES
  queue,  \* the tasks, least recently pushed first
  got     \* got[p]: the task that worker p was given last

Init == queue = <<>> /\ got = [p \in Thieves \cup {Owner} |-> NoTask]

Push(t) == queue' = Append(queue, t) /\ UNCHANGED got

PopLocal ==
  /\ queue # <<>>
  /\ queue' = SubSeq(queue, 1, Len(queue) - 1)
  /\ got' = [got EXCEPT ![Owner] = queue[Len(queue)]]

PopGlobal(p) ==
  /\ queue # <<>>
  /\ queue' = Tail(queue)
  /\ got' = [got EXCEPT ![p] = Head(queue)]

\* A worker is done with the task that it was given.
Done(p) == got' = [got EXCEPT ![p] = NoTask] /\ UNCHANGED queue

Next ==
  \/ \E t \in Tasks : Push(t)
  \/ PopLocal
  \/ \E p \in Thieves : PopGlobal(p)
  \/ \E p \in Thieves \cup {Owner} : Done(p)

Spec == Init /\ [][Next]_<<queue, got>>
=============================================================================
