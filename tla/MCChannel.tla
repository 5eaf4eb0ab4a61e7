----------------------------- MODULE MCChannel -----------------------------
(* Channel on small instances: receivers are interchangeable.  Senders are  *)
(* too, where all of them may be cancelled, or none.                        *)
EXTENDS Channel, TLC

Symmetry == Permutations(Receivers)
=============================================================================
