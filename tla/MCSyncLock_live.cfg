SPECIFICATION FairSpec
CONSTANTS
  Tasks = {t1, t2, t3}
  Modes = {"read", "change"}
  Awaiters = {t1}
  Cancels = {}
  MaxReads = 1
  MaxLosses = 1
CHECK_DEADLOCK FALSE
PROPERTIES LockEnds ChangeReaches
