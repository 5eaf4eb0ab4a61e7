SPECIFICATION Spec
CONSTANTS
  Tasks = {t1}
  Agents = {a1}
  MaxWaits = 1
  Kinds = {"cancel"}
  Withins = {"defer"}
CHECK_DEADLOCK FALSE
INVARIANTS GraceKept
