SPECIFICATION Spec
CONSTANTS
  Tasks = {t1, t2, t3, t4}
  Modes = {"change"}
  Awaiters = {}
  Cancels = {}
  MaxReads = 1
  MaxLosses = 1
CHECK_DEADLOCK FALSE
INVARIANTS QueueInOrder
