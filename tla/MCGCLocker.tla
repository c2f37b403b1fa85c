------------------------------ MODULE MCGCLocker ------------------------------
(* Instances of GCLocker for TLC. *)
EXTENDS GCLocker

CONSTANTS t1, t2, t3

\* Every thread uses critical regions and allocates, in regions too; one runs Java code as well.
JNICalls == [t \in JavaThreads |-> {"critical", "allocate"} \cup IF t = t1 THEN {"Java"} ELSE {}]

\* Lazy natives, critical regions and allocations, by one thread each.
RoleCalls ==
  [t \in JavaThreads |-> CASE t = t1 -> {"lazy", "Java"} [] t = t2 -> {"critical"} [] t = t3 -> {"allocate"}]
=============================================================================
