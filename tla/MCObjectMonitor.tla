---------------------------- MODULE MCObjectMonitor ----------------------------
(***************************************************************************)
(* The instances of ObjectMonitor that TLC checks.                         *)
(***************************************************************************)
EXTENDS ObjectMonitor, TLC

CONSTANTS w, x, n

\* A timed waiter, a thread that leaves in compiled code, and a notifier that enters
\* recursively and calls exit().
MixedOps ==
  [t \in Threads |-> CASE t = w -> {"timed_wait"}
                       [] t = x -> {"fast_unlock"}
                       [] t = n -> {"notify", "enter", "exit"}]

\* A waiter, and a notifier that enters recursively.
PairOps ==
  [t \in Threads |-> IF t = w THEN {"wait", "fast_unlock"} ELSE {"notifyAll", "enter", "exit"}]

\* A waiter, and a thread that notifies one waiter at a time.
NotifyOps == [t \in Threads |-> IF t = w THEN {"wait", "exit"} ELSE {"notify", "exit"}]

\* The refinement mapping as a history variable, so that TLC computes it once per state.
VARIABLE state

MCInit == Init /\ state = [t \in Threads |-> Status(t)]

MCNext == Next /\ state' = [t \in Threads |-> Status(t)']

MCvars == <<vars, state>>

MCSpec == MCInit /\ [][MCNext]_MCvars

MCFairSpec == MCSpec /\ Fairness

Monitor == INSTANCE AbstractMonitor

\* The Java monitor is a monitor: one thread inside; wait() leaves it and joins the wait set
\* in one step, whatever exit() does in between; notify() reaches a waiting thread if there is
\* one; a waiter is released by a notification or takes itself off the wait set (timeout,
\* interrupt), never both (objectMonitor.cpp wait, notify, notifyAll, exit).  How its wait()
\* returns is the subject of NotifyPrecedence.
ImplementsMonitor == Monitor!Spec

\* And a free monitor that threads contend for is entered, although nobody who leaves it
\* hands it over: strandings by the compiled exit end, and spinning, suspended and barging
\* threads do not keep the others out of a free monitor for ever (EnterI, ExitEpilog).
ImplementsFairMonitor == Monitor!FairSpec
=============================================================================
