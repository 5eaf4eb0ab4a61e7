----------------------------- MODULE MCRecover ------------------------------
(* Recover on small instances. *)
EXTENDS Recover, TLC
=============================================================================
