---------------------------- MODULE MCWorldStop ----------------------------
(* WorldStop on small instances: the threads are interchangeable, and so    *)
(* are those that only stop the world.                                      *)
EXTENDS WorldStop, TLC

Symmetry == Permutations(Threads) \cup Permutations(Stoppers)
=============================================================================
