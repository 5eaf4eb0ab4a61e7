SPECIFICATION Spec
CONSTANTS
  Tasks = {t1}
  Agents = {a1}
  MaxWaits = 1
  Kinds = {"alarm"}
  Withins = {}
CHECK_DEADLOCK FALSE
INVARIANTS HaltNoticed
