SPECIFICATION Spec
CONSTANTS
  Tasks = {t1, t2, t3, t4}
  Modes = {"read", "change", "try", "peek"}
  Awaiters = {t1}
  Cancels = {t1}
  MaxReads = 1
  MaxLosses = 1
CHECK_DEADLOCK FALSE
INVARIANTS Exclusion StateCounts FreeIsGiven
PROPERTIES TakenInTurn
SYMMETRY Symmetry
