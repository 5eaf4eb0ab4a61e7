SPECIFICATION Spec
CONSTANTS
  Tasks = {t1, t2, t3}
  Modes = {"read", "change"}
  Awaiters = {}
  Cancels = {}
  MaxReads = 2
  MaxLosses = 1
CHECK_DEADLOCK FALSE
INVARIANTS NeverWaitsForItself
