------------------------------ MODULE MCTaskQueue ------------------------------
(* Instances of TaskQueue for TLC. *)
EXTENDS TaskQueue, TLC

CONSTANTS a, b, c, d, p1, p2

Symmetry == Permutations(Tasks) \cup Permutations(Thieves)
=============================================================================
