SPECIFICATION Spec
CONSTANTS
  Tasks = {t1}
  Agents = {a1, a2}
  MaxWaits = 2
  Kinds = {"cancel", "alarm", "again"}
  Withins = {"body", "defer"}
CHECK_DEADLOCK FALSE
SYMMETRY AgentSymmetry
INVARIANTS NoStrayWake OnePlace HaltReachesWait StoppedIsAlive
