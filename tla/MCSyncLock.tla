----------------------------- MODULE MCSyncLock -----------------------------
(* SyncLock on small instances: tasks are interchangeable, but for those    *)
(* that may be cancelled and those that use `updateWhen`.                   *)
EXTENDS SyncLock, TLC

Symmetry == Permutations(Tasks \ (Cancels \cup Awaiters))
=============================================================================
