------------------------------ MODULE MCJoins -------------------------------
(* Joins on small instances. *)
EXTENDS Joins, TLC

\* The tasks that start no other.
Symmetry == Permutations(Tasks \ ({MainTask} \cup Spawners))
=============================================================================
