----------------------------- MODULE MCTaskWait -----------------------------
(* TaskWait on small instances: agents are interchangeable.                 *)
EXTENDS TaskWait, TLC

AgentSymmetry == Permutations(Agents)
=============================================================================
