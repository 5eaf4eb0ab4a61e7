SPECIFICATION FairSpec
CONSTANTS
  Tasks = {t1}
  Agents = {a1, a2}
  MaxWaits = 2
  Kinds = {"cancel", "again"}
  Withins = {"body"}
CHECK_DEADLOCK FALSE
INVARIANTS ReasonsCounted
PROPERTIES UndoneNoticed EndedWaitReturns
