---------------------------- MODULE MCNativeMonitor ----------------------------
(***************************************************************************)
(* Instances of NativeMonitor for TLC, and the refinement of               *)
(* AbstractMonitor that they check.                                        *)
(***************************************************************************)
EXTENDS NativeMonitor, TLC

CONSTANTS t1, t2, t3

\* WaitCalls tells only t3 from the others.
Symmetry == Permutations({t1, t2})

\* Two threads wait and notify, the third notifies one or all; a timed wait can do all that an
\* untimed one can.
WaitCalls ==
  [t \in Threads |-> {"lock", "unlock", "notify"} \cup IF t = t3 THEN {"notify_all"} ELSE {"timed_wait"}]

AllCalls == [t \in Threads |-> EntryPoints]

-----------------------------------------------------------------------------
\* The refinement mapping as a history variable, so that TLC computes it once per state.
VARIABLE state

MCInit == Init /\ state = [t \in Threads |-> abstractState(t)]

MCNext == Next /\ state' = [t \in Threads |-> abstractState(t)']

MCSpec == MCInit /\ [][MCNext]_<<vars, state>>

MCFairSpec == MCSpec /\ Fairness

Abstract == INSTANCE AbstractMonitor

\* Every step of mutex.cpp's functions is a step of the abstract monitor, or none.
ImplementsMonitor == Abstract!Spec

\* ... and under weak fairness of the running threads a free, contended monitor is entered,
\* even if no thread ever calls it again: no wakeup is lost.
ImplementsFairMonitor == Abstract!FairSpec
=============================================================================
