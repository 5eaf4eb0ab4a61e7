SPECIFICATION Spec
CONSTANTS
  Tasks = {t1}
  Agents = {a1, a2}
  MaxWaits = 1
  Kinds = {"again"}
  Withins = {}
CHECK_DEADLOCK FALSE
INVARIANTS LookedUpAlive
